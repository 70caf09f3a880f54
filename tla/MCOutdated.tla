------------------------------ MODULE MCOutdated ------------------------------
(***************************************************************************)
(* A small instance of Outdated: answers of two versions, of which three at  *)
(* most are asked for; numpy, whose seven versions are more than that, and    *)
(* pandas on conda-forge, requests on PyPI; and, while the program runs, a     *)
(* prerelease of numpy, a release of requests and one of requests' withdrawn. *)
(* No index has inhouse or private.                                          *)
(***************************************************************************)
EXTENDS Outdated, Functions, TLC

MCPageSize == 2
MCMorePages == 2
MCBatch == 2
MCMaxAge == 1
MCMaxTime == 2
MCMaxRuns == 2

forge == <<"conda", "forge">>
local == <<"local">>
numpy == <<"numpy">>
pandas == <<"pandas">>
requests == <<"requests">>

V(major, minor, final) == <<major, minor, 0, final>>
Project(versions, yanked) ==
  [versions |-> versions, yanked |-> yanked,
   published |-> [v \in Range(versions) |-> 100 * v[1] + 10 * v[2] + v[4]],
   builds |-> [v \in Range(versions) |-> ("h0" :> <<v, "h0">>)]]

Numpy == <<V(3, 0, 0), V(2, 0, 1), V(1, 5, 1), V(1, 4, 1), V(1, 3, 1), V(1, 2, 1), V(1, 1, 1)>>
Pandas == <<V(1, 1, 1), V(1, 0, 1)>>
Requests == <<V(2, 2, 1), V(2, 1, 1), V(2, 0, 1)>>

MCEditions ==
  <<[conda |-> (<<forge, numpy>> :> Project(Numpy, {})) @@ (<<forge, pandas>> :> Project(Pandas, {})),
     pypi |-> requests :> Project(Requests, {V(2, 1, 1)})],
    [conda |-> (<<forge, numpy>> :> Project(<<V(3, 1, 0)>> \o Numpy, {}))
                 @@ (<<forge, pandas>> :> Project(Pandas, {})),
     pypi |-> requests :> Project(<<V(3, 0, 1)>> \o Requests, {V(2, 1, 1), V(2, 2, 1)})]>>

CondaOf(name, version, channel, sha) ==
  [name |-> name, kind |-> "conda", version |-> version, build |-> "h0", sha |-> sha, channel |-> channel,
   host |-> IF channel = forge THEN "anaconda.org" ELSE "mirror", index |-> FALSE]
Wheel == [name |-> requests, kind |-> "pypi", version |-> V(2, 0, 1), build |-> None, sha |-> None,
          channel |-> None, host |-> None, index |-> TRUE]
Tarball == [Wheel EXCEPT !.index = FALSE]
InHouse == [Wheel EXCEPT !.name = <<"inhouse">>]

OldNumpy == CondaOf(numpy, V(1, 4, 1), forge, <<V(1, 4, 1), "h0">>)
NewNumpy == CondaOf(numpy, V(2, 0, 1), forge, <<V(2, 0, 1), "h0">>)
AncientNumpy == CondaOf(numpy, V(1, 1, 1), forge, <<V(1, 1, 1), "h0">>)
LocalPandas == CondaOf(pandas, V(1, 0, 1), local, <<V(1, 0, 1), "h0">>)
UnhashedNumpy == CondaOf(numpy, V(1, 5, 1), local, None)
RebuiltNumpy == CondaOf(numpy, V(1, 5, 1), local, <<V(1, 5, 1), "h1">>)
Private == CondaOf(<<"private">>, V(1, 0, 1), forge, <<V(1, 0, 1), "h0">>)
ForgePandas == CondaOf(pandas, V(1, 1, 1), forge, <<V(1, 1, 1), "h0">>)

A(documents) ==
  [documents |-> documents, kind |-> "prefix", policy |-> "default", offline |-> FALSE, candidate |-> None,
   pinned |-> FALSE, least |-> None]
MCRuns ==
  {A(<<<<OldNumpy, ForgePandas>>>>),
   [A(<<<<LocalPandas, RebuiltNumpy>>>>) EXCEPT !.candidate = forge],
   A(<<<<AncientNumpy, Wheel>>>>),
   [A(<<<<NewNumpy>>, <<OldNumpy>>>>) EXCEPT !.least = "minor"],
   [A(<<<<OldNumpy, Wheel>>>>) EXCEPT !.offline = TRUE],
   [A(<<<<OldNumpy, Wheel>>>>) EXCEPT !.policy = "noCache"],
   [A(<<<<UnhashedNumpy, LocalPandas, Private>>>>) EXCEPT !.policy = "refresh", !.candidate = forge, !.kind = "anaconda"],
   [A(<<<<OldNumpy, LocalPandas, InHouse, Tarball>>>>) EXCEPT !.kind = "anaconda"]}
=============================================================================
