--------------------------- MODULE SettingsCache ---------------------------
(***************************************************************************)
(* The settings of goboot as concurrent health requests use them.          *)
(*                                                                         *)
(* Settings embeds a mutex, but getEnv has a value receiver: each call     *)
(* locks a mutex in a copy of its own, which is always free, while the     *)
(* cache, a map, is shared by all the copies.  Lock and Unlock therefore   *)
(* exclude nobody and are not steps here.  The map is Go's: it sets a flag *)
(* while it is assigned to, and a read or an assignment that sees another  *)
(* one's flag, or an assignment that misses its own, ends the process.     *)
(***************************************************************************)
EXTENDS Integers, Sequences, FiniteSets, SequencesExt

CONSTANTS
    Requests,       \* requests for /api/health
    Names,          \* the environment variables they look up
    Environ,        \* what os.Getenv returns for each of them
    Fields,         \* the lookups of one request, in order: name and path
    ExpFrom         \* the least integer %v prints with an exponent

\* A text is a kind and what tells it from other texts of that kind: the
\* digits of a number, plain or with an exponent, or any other characters.
Raw(s)   == <<"raw", s>>
Plain(n) == <<"plain", n>>
Exp(n)   == <<"exp", n>>
Empty    == Raw("")

\* The values json.Unmarshal yields; a variable is a text that does or does
\* not parse.  The names of an object's members are its domain.
Str(t)    == [type |-> "string", text |-> t]
Number(n) == [type |-> "float64", n |-> n]
Object(m) == [type |-> "map", members |-> m]
Nil       == [type |-> "nil"]

NotJson(t)   == [json |-> FALSE, text |-> t]
Json(t, v)   == [json |-> TRUE, text |-> t, value |-> v]

ASSUME SettingsAssumption ==
    /\ \A n \in Names : /\ Environ[n].json \in BOOLEAN
                        /\ Environ[n].json => Environ[n].value.type # "absent"
    /\ Fields \in Seq([env : Names, path : Seq(STRING)]) /\ Fields # <<>>
    /\ ExpFrom \in Nat

-----------------------------------------------------------------------------
(* What the lookups compute. *)

\* getEnv, on a miss: the parsed value, or the text itself.
Parsed(name) ==
    IF Environ[name].json THEN Environ[name].value ELSE Str(Environ[name].text)

\* next(), in traverse: a member of an object, or nil.  No lookup of the
\* program has a path long enough to reach into an array.
Member(t, step) ==
    IF t.type = "map" /\ step \in DOMAIN t.members THEN t.members[step] ELSE Nil

\* traverse(path, t): nothing is found below a value that has no members.
Traverse(path, t) ==
    LET at[i \in 0 .. Len(path)] ==
            IF i = 0 THEN t ELSE Member(at[i - 1], path[i])
    IN  at[Len(path)]

\* GetEnv: a path is followed from an object only.
AtPath(v, path) ==
    IF v = Nil \/ path = <<>> THEN v
    ELSE IF v.type # "map" THEN Nil ELSE Traverse(path, v)

\* fmt.Sprintf("%v", t): %g for a float64, the Go syntax for the others.
Sprint(t) == IF t.type = "float64"
             THEN IF t.n < ExpFrom THEN Plain(t.n) ELSE Exp(t.n)
             ELSE <<"go", t>>

\* GetStringEnv, from the value that getEnv returned.
StringOf(v, path) ==
    LET t == AtPath(v, path)
    IN  CASE t.type = "string" -> t.text
          [] t.type = "nil"    -> Empty
          [] OTHER             -> Sprint(t)

-----------------------------------------------------------------------------
(* The requests. *)

VARIABLES
    up,         \* the process runs
    cache,      \* Settings.cache, without the prefix env_ of its keys
    flag,       \* hashWriting, in the map's header
    at,         \* the lookup each request is at, counted from 1
    phase,      \* where it is in that lookup
    torn,       \* the requests whose assignment overlapped another one
    answers,    \* what GetStringEnv returned to each request so far
    raced       \* history: some request used the map during an assignment

vars == <<up, cache, flag, at, phase, torn, answers, raced>>

Absent   == [type |-> "absent"]
NoAnswer == <<"none", 0>>

\* The port is looked up, and cached, before the server listens.
Init ==
    /\ up = TRUE
    /\ cache = [n \in Names |-> Absent]
    /\ flag = FALSE
    /\ at = [r \in Requests |-> 1]
    /\ phase = [r \in Requests |-> "arriving"]
    /\ torn = {}
    /\ answers = [r \in Requests |-> [i \in DOMAIN Fields |-> NoAnswer]]
    /\ raced = FALSE

Name(r) == Fields[at[r]].env
Writers == {r \in Requests : phase[r] = "writing"}
Touch(r) == raced' = (raced \/ Writers \ {r} # {})

Arrive(r) ==
    /\ up /\ phase[r] = "arriving"
    /\ phase' = [phase EXCEPT ![r] = "lookup"]
    /\ UNCHANGED <<up, cache, flag, at, torn, answers, raced>>

\* Mutant: the last answer is followed by another lookup.
AnswerOn(r, v) ==
    /\ answers' = [answers EXCEPT ![r][at[r]] = StringOf(v, Fields[at[r]].path)]
    /\ at' = [at EXCEPT ![r] = @ + 1]
    /\ phase' = [phase EXCEPT ![r] = "lookup"]

\* getEnv returns v: GetStringEnv makes it a string, the handler goes on.
Answer(r, v) ==
    /\ answers' = [answers EXCEPT ![r][at[r]] = StringOf(v, Fields[at[r]].path)]
    /\ at' = [at EXCEPT ![r] = @ + 1]
    /\ phase' = [phase EXCEPT ![r] = IF at[r] = Len(Fields) THEN "done" ELSE "lookup"]

\* Mutant: a cached nil is taken for no entry.
HitNotNil(n) == cache[n] \notin {Absent, Nil}

\* t, ok = r.cache[key]
Hit(n) == cache[n] # Absent

LookupHit(r) ==
    /\ up /\ phase[r] = "lookup" /\ Hit(Name(r))
    /\ Touch(r)
    /\ Answer(r, cache[Name(r)])
    /\ UNCHANGED <<up, cache, flag, torn>>

LookupMiss(r) ==
    /\ up /\ phase[r] = "lookup" /\ ~Hit(Name(r))
    /\ Touch(r)
    /\ phase' = [phase EXCEPT ![r] = "parsed"]
    /\ UNCHANGED <<up, cache, flag, at, torn, answers>>

\* r.cache[key] = v begins: the flag is set.
AssignBegin(r) ==
    /\ up /\ phase[r] = "parsed"
    /\ Touch(r)
    /\ flag' = TRUE
    /\ phase' = [phase EXCEPT ![r] = "writing"]
    /\ torn' = IF Writers = {} THEN torn ELSE torn \cup Writers \cup {r}
    /\ UNCHANGED <<up, cache, at, answers>>

\* Mutant: the key is the prefix alone.
OutcomesOneKey(r) == {[n \in Names |-> Parsed(Name(r))]}

\* Two assignments at a time may take one slot: the entry is lost, or one's
\* value is found under the other's key.
Outcomes(r) ==
    {[cache EXCEPT ![Name(r)] = Parsed(Name(r))]} \cup
    IF r \in torn
    THEN {cache} \cup {[cache EXCEPT ![n] = Parsed(Name(r))] : n \in Names}
    ELSE {}

\* It ends: the flag is cleared, and getEnv returns its own value.
AssignEnd(r) ==
    /\ up /\ phase[r] = "writing"
    /\ cache' \in Outcomes(r)
    /\ flag' = FALSE
    /\ torn' = torn \ {r}
    /\ Touch(r)
    /\ Answer(r, Parsed(Name(r)))
    /\ UNCHANGED up

\* throw("concurrent map read and map write"), throw("concurrent map writes").
\* The flag is read without synchronisation, so the check may also miss it.
Throw(r) ==
    /\ up
    /\ \/ phase[r] \in {"lookup", "parsed"} /\ flag
       \/ phase[r] = "writing" /\ ~flag
    /\ up' = FALSE
    /\ raced' = TRUE
    /\ UNCHANGED <<cache, flag, at, phase, torn, answers>>

Step(r) == \/ LookupHit(r) \/ LookupMiss(r) \/ AssignBegin(r) \/ AssignEnd(r)
           \/ Throw(r)

Over == /\ ~up \/ \A r \in Requests : phase[r] = "done"
        /\ UNCHANGED vars

Next == (\E r \in Requests : Arrive(r) \/ Step(r)) \/ Over

Spec == Init /\ [][Next]_vars

-----------------------------------------------------------------------------
(* Properties *)

Phase == {"arriving", "lookup", "parsed", "writing", "done"}

\* The types of the variables; a request is done after its last lookup.
TypeOK ==
    /\ up \in BOOLEAN /\ flag \in BOOLEAN /\ raced \in BOOLEAN
    /\ DOMAIN cache = Names
    /\ at \in [Requests -> 1 .. Len(Fields) + 1]
    /\ phase \in [Requests -> Phase]
    /\ torn \subseteq Requests
    /\ DOMAIN answers = Requests
    /\ \A r \in Requests : /\ (phase[r] = "done") = (at[r] > Len(Fields))
                           /\ DOMAIN answers[r] = DOMAIN Fields

\* The answer a request alone on the server would get to each lookup.
Expected(i) == StringOf(Parsed(Fields[i].env), Fields[i].path)

\* As long as no request has used the map during another one's assignment, the
\* process runs and every answer is the one a request alone would get, whether
\* it came from the cache or not (getEnv, GetStringEnv).
RightUnlessRaced ==
    ~raced => /\ up
              /\ \A r \in Requests : \A i \in DOMAIN Fields :
                    i < at[r] => answers[r][i] = Expected(i)

\* Every variable is cached as it should be and no request is about to assign.
Warm == /\ up
        /\ \A n \in Names : cache[n] = Parsed(n)
        /\ \A r \in Requests : phase[r] \notin {"parsed", "writing"}
        /\ ~flag

\* The race is confined to the first requests: once the cache is warm it stays
\* warm, so the process cannot be ended and no answer can be wrong any more,
\* although no lock excludes anybody (getEnv's early return on a hit).
WarmStaysWarm == [][Warm => Warm']_vars
=============================================================================
