------------------------------- MODULE Licenses -------------------------------
(***************************************************************************)
(* The license policy (policy.rs) over normalized licenses (license.rs).    *)
(*                                                                         *)
(* A license as a package states it is [form, expression]: form says how it *)
(* is spelled, and the expression is in postfix order, a sequence of And,   *)
(* Or and licenses [family, version, suffix, addition]: version is None     *)
(* for a license that has none, suffix is "", "only", "or-later" or "+",    *)
(* and addition an exception or None.  A package here also has              *)
(* [licenseFrom, supplier].                                                 *)
(***************************************************************************)
EXTENDS Sboms

\* normalize: what parses, with the word `license` taken off, as the library
\* reads it leniently or with an unknown exception renamed, is an expression;
\* the bare name of a family, prose or nothing at all is a text.
Normalize(license) ==
  [form |-> IF license.form \in {"expression", "licenseWord", "lenient", "unknownException"}
            THEN "expression" ELSE "text",
   expression |-> license.expression]

\* Lic::from_req
Lic(license) ==
  [base |-> [family |-> license.family, version |-> license.version],
   orLater |-> license.suffix \in {"or-later", "+"}, addition |-> license.addition]

\* Lic::satisfies
Satisfies(lic, req) ==
  /\ lic.addition = req.addition
  /\ \/ lic.base = req.base
     \/ /\ req.orLater /\ lic.base.version # None /\ req.base.version # None
        /\ lic.base.family = req.base.family /\ lic.base.version > req.base.version

And == [operator |-> "and"]
Or == [operator |-> "or"]

\* The library's evaluation: whether an expression holds when these licenses do.
Evaluates(expression, holding) ==
  LET Push(stack, node) ==
        LET n == Len(stack)
        IN  CASE node = And -> Append(SubSeq(stack, 1, n - 2), stack[n - 1] /\ stack[n])
              [] node = Or -> Append(SubSeq(stack, 1, n - 2), stack[n - 1] \/ stack[n])
              [] OTHER -> Append(stack, node \in holding)
  IN  Head(FoldLeft(Push, <<>>, expression))

(***************************************************************************)
(* A policy is [allow, deny, required, exemptions]: licenses, whether each  *)
(* package must have one, and a sequence of [matches, why], the names of    *)
(* the packages that are exempt.                                            *)
(***************************************************************************)
\* Policy::new: None if there is nothing to judge.
NewPolicy(p) == IF p.allow = {} /\ p.deny = {} /\ ~ p.required THEN None ELSE p

\* The licenses an expression names.
Named(expression) == Range(expression) \ {And, Or}

Denied(policy, license) == \E d \in policy.deny : Satisfies(Lic(d), Lic(license))
Allowed(policy, license) ==
  policy.allow = {} \/ \E a \in policy.allow : Satisfies(Lic(a), Lic(license))

AreTolerated(policy, expression) ==
  Evaluates(expression, {l \in Named(expression) : ~ Denied(policy, l)})

\* Mutant: what is allowed and what is denied are judged apart.
EvaluateApart(policy, expression) ==
  CASE policy.deny # {} /\ ~ AreTolerated(policy, expression) -> "denied"
    [] policy.allow # {} /\ ~ Evaluates(expression, {l \in Named(expression) : Allowed(policy, l)}) -> "notAllowed"
    [] OTHER -> None

Evaluate(policy, expression) ==
  CASE policy.deny # {} /\ ~ AreTolerated(policy, expression) -> "denied"
    [] /\ policy.deny = {} \/ AreTolerated(policy, expression)
       /\ policy.allow # {}
       /\ ~ Evaluates(expression, {l \in Named(expression) : Allowed(policy, l) /\ ~ Denied(policy, l)}) -> "notAllowed"
    [] OTHER -> None

\* Why a package's license will not do, None if it will.
Judged(policy, p) ==
  LET license == Normalize(p.license)
  IN  CASE p.license = None -> IF policy.required THEN "missing" ELSE None
        [] p.license # None /\ license.form = "text" -> IF policy.required THEN "notSpdx" ELSE None
        [] OTHER -> Evaluate(policy, license.expression)

\* Policy::check, Policy::exemption: the first exemption that fits is the one named.
CheckLicenses(policy, packages) ==
  LET Exemption(p) == FirstWith(policy.exemptions, LAMBDA e : p.name \in e.matches)
      Violation(p) == [package |-> p.id, name |-> p.name, reason |-> Judged(policy, p)]
      found == {p \in packages : Judged(policy, p) # None}
  IN  [violations |-> {Violation(p) : p \in {q \in found : Exemption(q) = None}},
       exempt |-> {[violation |-> Violation(p), why |-> Exemption(p).why] :
                     p \in {q \in found : Exemption(q) # None}}]

(***************************************************************************)
(* What a report lists of a package, and the summary of `--report           *)
(* licenses` (report.rs).                                                   *)
(***************************************************************************)
\* row: an empty license is none.
LicenseRow(p, exempt) ==
  LET stated == p.license # None /\ p.license.form # "empty"
      isSpdx == stated /\ Normalize(p.license).form = "expression"
  IN  [id |-> p.id, name |-> p.name, version |-> p.version, kind |-> p.kind, supplier |-> p.supplier,
       license |-> CASE isSpdx -> Normalize(p.license) [] stated /\ ~ isSpdx -> p.license [] OTHER -> None,
       spdx |-> isSpdx,
       from |-> CASE p.licenseFrom # None -> p.licenseFrom
                  [] p.licenseFrom = None /\ stated -> "lockfile"
                  [] OTHER -> None,
       purl |-> p.purl, yanked |-> p.yanked, exempt |-> p.name \in exempt, declaredIn |-> p.declaredIn]

\* summarize
SummarizeLicenses(rows) ==
  LET NamesWhere(Test(_)) == {r.name : r \in {q \in rows : Test(q)}}
  IN  [byLicense |-> [l \in {r.license : r \in rows} \ {None} |-> Cardinality({r \in rows : r.license = l})],
       nonSpdx |-> NamesWhere(LAMBDA r : r.license # None /\ ~ r.spdx),
       unlicensed |-> NamesWhere(LAMBDA r : r.license = None),
       exempt |-> NamesWhere(LAMBDA r : r.exempt)]
===============================================================================
