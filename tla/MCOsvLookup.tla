---------------------------- MODULE MCOsvLookup ----------------------------
(***************************************************************************)
(* Small instances of OsvLookup for TLC: three purls, the first with no     *)
(* advisories and the second with two pages of them, in requests of two.    *)
(***************************************************************************)
EXTENDS OsvLookup

CONSTANTS requests, urllib3, six, ghsa, pysec

MCPurls == <<requests, six, urllib3>>
MCAdvisories == (requests :> <<>>) @@ (six :> <<ghsa, pysec>>)
                  @@ (urllib3 :> <<ghsa>>)
MCOne == {pysec}

MCNames == (requests :> "requests.json") @@ (six :> "six.json")
             @@ (urllib3 :> "urllib3.json")
=============================================================================
