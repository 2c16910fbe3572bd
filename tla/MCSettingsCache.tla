-------------------------- MODULE MCSettingsCache --------------------------
(***************************************************************************)
(* Small instances of SettingsCache for TLC: the three lookups of the      *)
(* health handler.                                                         *)
(***************************************************************************)
EXTENDS SettingsCache

CONSTANTS r1, r2, r3
MCRequests == {r1, r2, r3}

MCNames == {"VCAP_APPLICATION", "build"}
MCFields == << [env |-> "VCAP_APPLICATION", path |-> <<"name">>],
               [env |-> "VCAP_APPLICATION", path |-> <<"version">>],
               [env |-> "build", path |-> <<>>] >>

\* VCAP_APPLICATION is an object without a version; build is "null".
MCEnviron ==
    [n \in MCNames |->
        IF n = "build" THEN Json(Raw("null"), Nil)
        ELSE Json(Raw("{name}"), Object([name |-> Str(Raw("shiny"))]))]
=============================================================================
