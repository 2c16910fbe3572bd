------------------------ MODULE SettingsCacheProofs ------------------------
(***************************************************************************)
(* Proofs about SettingsCache, for any number of requests, any variables   *)
(* and any lookups.                                                        *)
(***************************************************************************)
EXTENDS SettingsCache, TLAPS

\* While nothing has raced: at most one request assigns, the flag says whether
\* one does, and an entry is missing or right.
CacheInv ==
    ~raced => /\ up
              /\ torn = {}
              /\ \A r, s \in Requests :
                    phase[r] = "writing" /\ phase[s] = "writing" => r = s
              /\ flag = (\E r \in Requests : phase[r] = "writing")
              /\ \A n \in Names : cache[n] \in {Absent, Parsed(n)}
              /\ \A r \in Requests : \A i \in DOMAIN Fields :
                    i < at[r] => answers[r][i] = Expected(i)

Inv == TypeOK /\ CacheInv

\* What a request answers with is never the mark of a missing entry (getEnv
\* stores a string or what json.Unmarshal yields).
LEMMA ParsedPresent == \A n \in Names : Parsed(n) # Absent
  <1>1. SUFFICES ASSUME NEW n \in Names PROVE Parsed(n).type # "absent"
    BY DEF Absent
  <1>2. CASE Environ[n].json
    BY <1>2, SettingsAssumption DEF Parsed
  <1>3. CASE ~Environ[n].json
    BY <1>3 DEF Parsed, Str
  <1> QED BY <1>2, <1>3

\* An element of a sequence over S is in S.
LEMMA InSeq == ASSUME NEW S, NEW s \in Seq(S), NEW i \in 1 .. Len(s) PROVE s[i] \in S
  OBVIOUS

\* A request that is not done is at one of its lookups.
LEMMA LookupInRange ==
    ASSUME TypeOK, NEW r \in Requests, phase[r] # "done"
    PROVE  at[r] \in DOMAIN Fields /\ Name(r) \in Names /\ at[r] \in 1 .. Len(Fields)
  <1>1. at[r] \in 1 .. Len(Fields)
    BY SettingsAssumption DEF TypeOK
  <1>2. DOMAIN Fields = 1 .. Len(Fields)
    BY SettingsAssumption
  <1>3. Fields[at[r]] \in [env : Names, path : Seq(STRING)]
    <2> DEFINE S == [env : Names, path : Seq(STRING)]
    <2>1. Fields \in Seq(S)
      BY SettingsAssumption
    <2> HIDE DEF S
    <2>2. Fields[at[r]] \in S
      BY <1>1, <2>1, InSeq
    <2> QED BY <2>2 DEF S
  <1> QED BY <1>1, <1>2, <1>3 DEF Name

\* The types are preserved by an answer, whatever is answered.
LEMMA AnswerType ==
    ASSUME TypeOK, NEW r \in Requests, phase[r] # "done", NEW v, Answer(r, v)
    PROVE  /\ at' \in [Requests -> 1 .. Len(Fields) + 1]
           /\ phase' \in [Requests -> Phase]
           /\ DOMAIN answers' = Requests
           /\ \A q \in Requests : /\ (phase'[q] = "done") = (at'[q] > Len(Fields))
                                  /\ DOMAIN answers'[q] = DOMAIN Fields
  <1>1. at[r] \in 1 .. Len(Fields) /\ Len(Fields) \in Nat
    BY LookupInRange, SettingsAssumption
  <1>2. at' \in [Requests -> 1 .. Len(Fields) + 1]
    BY <1>1 DEF Answer, TypeOK
  <1>3. phase' \in [Requests -> Phase]
    BY <1>1 DEF Answer, TypeOK, Phase
  <1>4. DOMAIN answers' = Requests /\ \A q \in Requests : DOMAIN answers'[q] = DOMAIN Fields
    BY DEF Answer, TypeOK
  <1>5. \A q \in Requests : (phase'[q] = "done") = (at'[q] > Len(Fields))
    BY <1>1 DEF Answer, TypeOK, Phase
  <1> QED BY <1>2, <1>3, <1>4, <1>5

\* Every step keeps the types.
LEMMA TypeStep == TypeOK /\ [Next]_vars => TypeOK'
  <1> SUFFICES ASSUME TypeOK, [Next]_vars PROVE TypeOK'
    OBVIOUS
  <1>0. CASE UNCHANGED vars
    BY <1>0 DEF TypeOK, vars
  <1>1. ASSUME NEW r \in Requests, Arrive(r) PROVE TypeOK'
    BY <1>1 DEF Arrive, TypeOK, Phase
  <1>2. ASSUME NEW r \in Requests, LookupHit(r) PROVE TypeOK'
    BY <1>2, AnswerType DEF LookupHit, TypeOK, Touch
  <1>3. ASSUME NEW r \in Requests, LookupMiss(r) PROVE TypeOK'
    BY <1>3 DEF LookupMiss, TypeOK, Touch, Phase
  <1>4. ASSUME NEW r \in Requests, AssignBegin(r) PROVE TypeOK'
    BY <1>4 DEF AssignBegin, TypeOK, Touch, Phase, Writers
  <1>5. ASSUME NEW r \in Requests, AssignEnd(r) PROVE TypeOK'
    <2>1. DOMAIN cache' = Names
      BY <1>5 DEF AssignEnd, Outcomes, TypeOK
    <2> QED BY <1>5, <2>1, AnswerType DEF AssignEnd, TypeOK, Touch
  <1>6. ASSUME NEW r \in Requests, Throw(r) PROVE TypeOK'
    BY <1>6 DEF Throw, TypeOK
  <1>7. CASE Over
    BY <1>7, <1>0 DEF Over
  <1> QED BY <1>0, <1>1, <1>2, <1>3, <1>4, <1>5, <1>6, <1>7 DEF Next, Step

\* An answer that is right makes the answers of its request right.
LEMMA AnswerRight ==
    ASSUME TypeOK, NEW r \in Requests, phase[r] # "done",
           Answer(r, Parsed(Name(r))),
           \A q \in Requests : \A i \in DOMAIN Fields :
                i < at[q] => answers[q][i] = Expected(i)
    PROVE  \A q \in Requests : \A i \in DOMAIN Fields :
                i < at'[q] => answers'[q][i] = Expected(i)
  <1>1. at[r] \in DOMAIN Fields /\ DOMAIN Fields = 1 .. Len(Fields) /\ Len(Fields) \in Nat
    BY LookupInRange, SettingsAssumption
  <1>2. StringOf(Parsed(Name(r)), Fields[at[r]].path) = Expected(at[r])
    BY DEF Expected, Name
  <1> SUFFICES ASSUME NEW q \in Requests, NEW i \in DOMAIN Fields, i < at'[q]
               PROVE  answers'[q][i] = Expected(i)
    OBVIOUS
  <1>3. CASE q # r
    BY <1>3 DEF Answer, TypeOK
  <1>4. CASE q = r /\ i # at[r]
    <2>1. i < at[r]
      BY <1>1, <1>4 DEF Answer, TypeOK
    <2>2. answers'[r][i] = answers[r][i]
      BY <1>4 DEF Answer, TypeOK
    <2> QED BY <1>4, <2>1, <2>2
  <1>5. CASE q = r /\ i = at[r]
    <2>1. answers'[r][at[r]] = StringOf(Parsed(Name(r)), Fields[at[r]].path)
      BY <1>1 DEF Answer, TypeOK
    <2> QED BY <1>2, <1>5, <2>1
  <1> QED BY <1>3, <1>4, <1>5

\* Every step keeps CacheInv, unless it races.
LEMMA CacheStep == Inv /\ [Next]_vars => CacheInv'
  <1> SUFFICES ASSUME Inv, [Next]_vars, ~raced' PROVE CacheInv'
    BY DEF CacheInv
  <1>0. CASE UNCHANGED vars
    BY <1>0 DEF Inv, CacheInv, vars
  <1>1. ASSUME NEW r \in Requests, Arrive(r) PROVE CacheInv'
    BY <1>1 DEF Arrive, Inv, CacheInv, TypeOK
  <1>2. ASSUME NEW r \in Requests, LookupHit(r) PROVE CacheInv'
    <2>1. ~raced /\ phase[r] = "lookup" /\ Name(r) \in Names
      BY <1>2, LookupInRange DEF LookupHit, Touch, Inv
    <2>2. cache[Name(r)] = Parsed(Name(r))
      BY <1>2, <2>1 DEF LookupHit, Hit, Inv, CacheInv
    <2>3. \A q \in Requests : \A i \in DOMAIN Fields :
              i < at'[q] => answers'[q][i] = Expected(i)
      BY <1>2, <2>1, <2>2, AnswerRight DEF LookupHit, Inv, CacheInv
    <2>4. \A q \in Requests : (phase'[q] = "writing") = (phase[q] = "writing")
      BY <1>2, <2>1 DEF LookupHit, Answer, Inv, TypeOK
    <2> QED BY <1>2, <2>1, <2>3, <2>4 DEF LookupHit, Inv, CacheInv
  <1>3. ASSUME NEW r \in Requests, LookupMiss(r) PROVE CacheInv'
    <2>1. ~raced /\ \A q \in Requests : (phase'[q] = "writing") = (phase[q] = "writing")
      BY <1>3 DEF LookupMiss, Touch, Inv, TypeOK
    <2> QED BY <1>3, <2>1 DEF LookupMiss, Inv, CacheInv
  <1>4. ASSUME NEW r \in Requests, AssignBegin(r) PROVE CacheInv'
    <2>1. ~raced /\ \A q \in Requests : phase[q] # "writing"
      BY <1>4 DEF AssignBegin, Touch, Writers
    <2>2. torn' = {}
      BY <1>4, <2>1 DEF AssignBegin, Writers, Inv, CacheInv
    <2>3. \A q \in Requests : (phase'[q] = "writing") = (q = r)
      BY <1>4, <2>1 DEF AssignBegin, Inv, TypeOK
    <2> QED BY <1>4, <2>1, <2>2, <2>3 DEF AssignBegin, Inv, CacheInv
  <1>5. ASSUME NEW r \in Requests, AssignEnd(r) PROVE CacheInv'
    <2>1. ~raced /\ phase[r] = "writing" /\ Name(r) \in Names
      BY <1>5, LookupInRange DEF AssignEnd, Touch, Inv
    <2>2. cache' = [cache EXCEPT ![Name(r)] = Parsed(Name(r))]
      BY <1>5, <2>1 DEF AssignEnd, Outcomes, Inv, CacheInv
    <2>3. \A n \in Names : cache'[n] \in {Absent, Parsed(n)}
      BY <2>1, <2>2 DEF Inv, CacheInv, TypeOK
    <2>4. \A q \in Requests : \A i \in DOMAIN Fields :
              i < at'[q] => answers'[q][i] = Expected(i)
      BY <1>5, <2>1, AnswerRight DEF AssignEnd, Inv, CacheInv
    <2>5. \A q \in Requests : phase'[q] # "writing"
      BY <1>5, <2>1 DEF AssignEnd, Answer, Inv, CacheInv, TypeOK
    <2>6. torn' = {} /\ flag' = FALSE /\ up'
      BY <1>5, <2>1 DEF AssignEnd, Inv, CacheInv
    <2> QED BY <2>3, <2>4, <2>5, <2>6 DEF CacheInv
  <1>6. ASSUME NEW r \in Requests, Throw(r) PROVE CacheInv'
    BY <1>6 DEF Throw
  <1>7. CASE Over
    BY <1>7, <1>0 DEF Over
  <1> QED BY <1>0, <1>1, <1>2, <1>3, <1>4, <1>5, <1>6, <1>7 DEF Next, Step

\* Inv is an invariant.
LEMMA InvHolds == Spec => []Inv
  <1>1. Init => Inv
    <2> SUFFICES ASSUME Init PROVE Inv
      OBVIOUS
    <2>1. Len(Fields) \in Nat /\ Len(Fields) > 0 /\ DOMAIN Fields = 1 .. Len(Fields)
      BY SettingsAssumption
    <2>2. \A r \in Requests : /\ at[r] = 1 /\ phase[r] = "arriving"
                              /\ DOMAIN answers[r] = DOMAIN Fields
      BY DEF Init
    <2>3. at \in [Requests -> 1 .. Len(Fields) + 1] /\ phase \in [Requests -> Phase]
      BY <2>1 DEF Init, Phase
    <2>4. \A r \in Requests : (phase[r] = "done") = (at[r] > Len(Fields))
      BY <2>1, <2>2
    <2>5. TypeOK
      BY <2>2, <2>3, <2>4 DEF Init, TypeOK
    <2>6. flag = (\E r \in Requests : phase[r] = "writing")
      BY <2>2 DEF Init
    <2>7. \A r \in Requests : \A i \in DOMAIN Fields : ~(i < at[r])
      BY <2>1, <2>2
    <2>8. CacheInv
      BY <2>2, <2>6, <2>7 DEF Init, CacheInv
    <2> QED BY <2>5, <2>8 DEF Inv
  <1>2. Inv /\ [Next]_vars => Inv'
    BY TypeStep, CacheStep DEF Inv
  <1> QED BY <1>1, <1>2, PTL DEF Spec

\* Without a race the server lives and every health request gets the answers a
\* request alone would get (getEnv, GetStringEnv).
THEOREM RightAnswers == Spec => []RightUnlessRaced
  <1>1. Inv => RightUnlessRaced
    BY DEF Inv, CacheInv, RightUnlessRaced
  <1> QED BY <1>1, InvHolds, PTL

\* A warm cache stays warm, so the first requests are the only dangerous ones
\* (getEnv's early return on a hit).
THEOREM WarmForGood == Spec => WarmStaysWarm
  <1>1. Inv /\ [Next]_vars => (Warm => Warm')
    <2> SUFFICES ASSUME Inv, [Next]_vars, Warm PROVE Warm'
      OBVIOUS
    <2>0. CASE UNCHANGED vars
      BY <2>0 DEF Warm, vars
    <2>1. ASSUME NEW r \in Requests, Arrive(r) PROVE Warm'
      BY <2>1 DEF Arrive, Warm, Inv, TypeOK
    <2>2. ASSUME NEW r \in Requests, LookupHit(r) PROVE Warm'
      <3>1. \A q \in Requests : phase'[q] \notin {"parsed", "writing"}
        BY <2>2 DEF LookupHit, Answer, Warm, Inv, TypeOK
      <3> QED BY <2>2, <3>1 DEF LookupHit, Warm
    <2>3. ASSUME NEW r \in Requests, LookupMiss(r) PROVE FALSE
      <3>1. Name(r) \in Names
        BY <2>3, LookupInRange DEF LookupMiss, Inv
      <3> QED BY <2>3, <3>1, ParsedPresent DEF LookupMiss, Hit, Warm
    <2>4. ASSUME NEW r \in Requests, AssignBegin(r) \/ AssignEnd(r) \/ Throw(r)
          PROVE FALSE
      BY <2>4 DEF AssignBegin, AssignEnd, Throw, Warm
    <2>5. CASE Over
      BY <2>5, <2>0 DEF Over
    <2> QED BY <2>0, <2>1, <2>2, <2>3, <2>4, <2>5 DEF Next, Step
  <1> QED BY <1>1, InvHolds, PTL DEF Spec, WarmStaysWarm

\* Type correctness, with a request done exactly after its last lookup, whatever
\* the racing assignments make of the cache (getEnv, the health handler of main).
THEOREM SettingsTyped == Spec => []TypeOK
  <1>1. Inv => TypeOK
    BY DEF Inv
  <1> QED BY <1>1, InvHolds, PTL
=============================================================================
