-------------------------- MODULE ShellServerProofs --------------------------
(***************************************************************************)
(* Proofs about ShellServer, for any number of sessions, of descriptors    *)
(* and of goroutines.                                                      *)
(***************************************************************************)
EXTENDS ShellServer, TLAPS

-----------------------------------------------------------------------------
(* The inductive invariant *)

Phases == {"new", "asked", "upgraded", "ptmx", "pts", "started", "running", "ending"}
Marks  == {<<"mark", "conn">>, <<"mark", "slave", "conn">>}
Firsts == {<<"master", "mark", "conn">>, <<"master", "mark", "slave", "conn">>}
Others == {<<"slave">>, <<"slave", "conn">>, <<"conn">>}
Slaves == {<<"slave">>, <<"slave", "conn">>, <<"mark", "slave", "conn">>,
           <<"master", "mark", "slave", "conn">>}

\* What a handler has still to close, and what it may hold.
HandlerInv(c) ==
    /\ phase[c] \notin {"started", "ending"} => todo[c] = <<>>
    /\ phase[c] = "started" => todo[c] \in {<<>>, <<"slave">>}
    /\ phase[c] = "ending" =>
          todo[c] \in {<<>>, <<"slave", "conn">>, <<"conn">>} \cup Marks \cup Firsts
    /\ number[c]["conn"] # None =>
          phase[c] # "new" /\ (phase[c] = "ending" => todo[c] # <<>>)
    /\ number[c]["master"] # None =>
          phase[c] \in {"ptmx", "pts", "started", "running", "ending"}
    /\ number[c]["slave"] # None => phase[c] = "pts" \/ todo[c] \in Slaves

\* A file is open under the number that its session holds, and no other.
Owned ==
    \A n \in Numbers, c \in Sessions, k \in Kinds :
        table[n] = <<k, c>> => number[c][k] = n /\ ~(k = "master" /\ todo[c] \in Marks)

Holds ==
    \A c \in Sessions, k \in Kinds :
        number[c][k] # None /\ ~(k = "master" /\ todo[c] \in Marks) =>
            table[number[c][k]] = <<k, c>>

CopierInv(c, g) ==
    LET p == copier[c][g]
    IN  /\ p.at = "off" \/ phase[c] \in {"running", "ending"}
        /\ p.at = "loaded" => p.n \in Numbers
        /\ p.at = "loaded" /\ phase[c] = "running" => p.n = number[c]["master"]
        /\ p.at = "inside" /\ phase[c] = "running" => p.file = <<"master", c>>

Inv == /\ TypeOK /\ Owned /\ Holds
       /\ \A c \in Sessions : HandlerInv(c)
       /\ \A c \in Sessions, g \in Copiers : CopierInv(c, g)

\* The lists of closes: how each begins and goes on.
LEMMA Lists ==
    /\ \A t \in Marks : t # <<>> /\ Head(t) = "mark" /\ Tail(t) \in {<<"conn">>, <<"slave", "conn">>}
    /\ \A t \in Firsts : t # <<>> /\ Head(t) = "master" /\ Tail(t) \in Marks
    /\ \A t \in {<<"slave">>, <<"slave", "conn">>} :
          t # <<>> /\ Head(t) = "slave" /\ Tail(t) \in {<<>>, <<"conn">>}
    /\ Head(<<"conn">>) = "conn" /\ Tail(<<"conn">>) = <<>> /\ <<"conn">> # <<>>
    /\ \A t \in Others \cup {<<>>} \cup Firsts : t \notin Marks
  <1>1. \A a, b : <<a, b>> # <<>> /\ Head(<<a, b>>) = a /\ Tail(<<a, b>>) = <<b>>
    OBVIOUS
  <1>2. \A a, b, d : <<a, b, d>> # <<>> /\ Head(<<a, b, d>>) = a /\ Tail(<<a, b, d>>) = <<b, d>>
    OBVIOUS
  <1>3. \A a, b, d, e : /\ <<a, b, d, e>> # <<>> /\ Head(<<a, b, d, e>>) = a
                        /\ Tail(<<a, b, d, e>>) = <<b, d, e>>
    OBVIOUS
  <1>4. \A a : <<a>> # <<>> /\ Head(<<a>>) = a /\ Tail(<<a>>) = <<>>
    OBVIOUS
  <1>5. \A t \in Others \cup {<<>>} \cup Firsts : t \notin Marks
    BY DEF Others, Firsts, Marks
  <1> QED BY <1>1, <1>2, <1>3, <1>4, <1>5 DEF Marks, Firsts

LEMMA ClosingMarks ==
    ASSUME Inv, NEW c \in Sessions
    PROVE  /\ todo[c] \in {<<>>} \cup Others \cup Marks \cup Firsts
           /\ Closing(c) <=> todo[c] \in Marks
  <1>1. HandlerInv(c) /\ phase[c] \in Phases
    BY DEF Inv, TypeOK, Phases
  <1>2. todo[c] \in {<<>>} \cup Others \cup Marks \cup Firsts
    BY <1>1 DEF HandlerInv, Others
  <1>3. CASE todo[c] \in Marks
    BY <1>2, <1>3, Lists DEF Closing
  <1>4. CASE todo[c] \notin Marks
    <2>1. todo[c] # <<>> => Head(todo[c]) \in {"master", "slave", "conn"}
      BY <1>2, <1>4, Lists DEF Others
    <2> QED BY <1>2, <1>4, <2>1 DEF Closing
  <1> QED BY <1>3, <1>4

LEMMA InitInv == Init => Inv
  <1> SUFFICES ASSUME Init PROVE Inv
    OBVIOUS
  <1>1. Free \in Files /\ None \notin Numbers
    BY ServerAssumption DEF Files, None
  <1>2. TypeOK
    <2>1. todo \in [Sessions -> Seq(Kinds \cup {"mark"})]
      <3>1. <<>> \in Seq(Kinds \cup {"mark"})
        OBVIOUS
      <3> QED BY <3>1 DEF Init
    <2>2. At("off") \in [at : {"off", "ready", "loaded", "inside", "over"},
                         n : Numbers \cup {None}, file : Files]
      BY <1>1 DEF At
    <2> QED BY <1>1, <2>1, <2>2 DEF Init, TypeOK
  <1>3. Owned
    BY DEF Init, Owned, Free, Kinds
  <1>4. Holds
    BY DEF Init, Holds
  <1>5. \A c \in Sessions : HandlerInv(c)
    BY DEF Init, HandlerInv, Kinds
  <1>6. \A c \in Sessions, g \in Copiers : CopierInv(c, g)
    BY DEF Init, CopierInv, At
  <1> QED BY <1>2, <1>3, <1>4, <1>5, <1>6 DEF Inv

\* A session that opens a file gets a number that no file has.
LEMMA OpenInv ==
    ASSUME Inv, NEW c \in Sessions, NEW kind \in Kinds, NEW next,
           next \in {"asked", "ptmx", "pts"}, number[c][kind] = None, todo[c] = <<>>,
           phase[c] \in {"new", "upgraded", "ptmx"},
           kind = "slave" => next = "pts",
           kind = "master" => next \in {"ptmx", "pts"},
           number[c]["master"] # None => next \in {"ptmx", "pts"},
           number[c]["slave"] = None,
           Open(c, kind, next)
    PROVE  Inv'
  <1>n. PICK n \in Numbers :
           /\ table[n] = Free
           /\ table' = [table EXCEPT ![n] = <<kind, c>>]
           /\ number' = [number EXCEPT ![c][kind] = n]
           /\ phase' = [phase EXCEPT ![c] = next]
           /\ UNCHANGED <<todo, copier>>
    BY DEF Open, FreeNumbers
  <1>t. TypeOK /\ n # None
    BY ServerAssumption DEF Inv, None
  <1>a. /\ table' \in [Numbers -> Files] /\ table'[n] = <<kind, c>>
        /\ \A m \in Numbers : m # n => table'[m] = table[m]
    BY <1>n, <1>t DEF TypeOK, Files
  <1>b. /\ number' \in [Sessions -> [Kinds -> Numbers \cup {None}]]
        /\ number'[c][kind] = n
        /\ \A d \in Sessions, k \in Kinds : <<k, d>> # <<kind, c>> => number'[d][k] = number[d][k]
    BY <1>n, <1>t DEF TypeOK
  <1>c. /\ phase' \in [Sessions -> Phases] /\ phase'[c] = next
        /\ \A d \in Sessions : d # c => phase'[d] = phase[d]
    BY <1>n, <1>t DEF TypeOK, Phases
  <1>1. TypeOK'
    BY <1>n, <1>t, <1>a, <1>b, <1>c DEF TypeOK, Phases, Files
  <1>2. Owned'
    <2> SUFFICES ASSUME NEW m \in Numbers, NEW d \in Sessions, NEW k \in Kinds,
                        table'[m] = <<k, d>>
                 PROVE  number'[d][k] = m /\ ~(k = "master" /\ todo'[d] \in Marks)
      BY DEF Owned
    <2>1. CASE m = n
      BY <2>1, <1>a, <1>b, <1>n, Lists
    <2>2. CASE m # n
      <3>1. number[d][k] = m /\ ~(k = "master" /\ todo[d] \in Marks)
        BY <2>2, <1>a DEF Inv, Owned
      <3>2. <<k, d>> # <<kind, c>>
        BY <3>1, ServerAssumption DEF None
      <3> QED BY <3>1, <3>2, <1>b, <1>n
    <2> QED BY <2>1, <2>2
  <1>3. Holds'
    <2> SUFFICES ASSUME NEW d \in Sessions, NEW k \in Kinds, number'[d][k] # None,
                        ~(k = "master" /\ todo'[d] \in Marks)
                 PROVE  table'[number'[d][k]] = <<k, d>>
      BY DEF Holds
    <2>1. CASE <<k, d>> = <<kind, c>>
      BY <2>1, <1>a, <1>b
    <2>2. CASE <<k, d>> # <<kind, c>>
      <3>1. table[number[d][k]] = <<k, d>> /\ number[d][k] \in Numbers
        BY <2>2, <1>b, <1>n, <1>t DEF Inv, Holds, TypeOK
      <3>2. number[d][k] # n
        BY <3>1, <1>n DEF Free, Kinds
      <3> QED BY <3>1, <3>2, <1>a, <1>b, <2>2
    <2> QED BY <2>1, <2>2
  <1>4. ASSUME NEW d \in Sessions PROVE HandlerInv(d)'
    <2>1. CASE d = c
      <3>1. /\ phase'[c] = next /\ todo'[c] = <<>>
            /\ number'[c]["master"] # None => next \in {"ptmx", "pts"}
            /\ number'[c]["slave"] # None => next = "pts"
        BY <1>n, <1>b, <1>c DEF Kinds
      <3> QED BY <2>1, <3>1 DEF HandlerInv
    <2>2. CASE d # c
      BY <2>2, <1>n, <1>b, <1>c DEF Inv, HandlerInv, Kinds
    <2> QED BY <2>1, <2>2
  <1>5. ASSUME NEW d \in Sessions, NEW g \in Copiers PROVE CopierInv(d, g)'
    <2>1. CopierInv(d, g)
      BY DEF Inv
    <2>2. CASE d = c
      BY <2>1, <2>2, <1>n, <1>c DEF CopierInv
    <2>3. CASE d # c
      BY <2>1, <2>3, <1>n, <1>b, <1>c DEF CopierInv, Kinds
    <2> QED BY <2>2, <2>3
  <1> QED BY <1>1, <1>2, <1>3, <1>4, <1>5 DEF Inv

\* The steps that give a handler something to close.
LEMMA DefersInv ==
    ASSUME Inv, NEW c \in Sessions, NEW next, NEW closes,
           \/ next = "started" /\ closes = <<"slave">> /\ phase[c] = "pts"
           \/ next = "ending" /\ closes \in {<<"conn">>} \cup Firsts,
           phase[c] \in {"asked", "upgraded", "ptmx", "pts", "running"},
           number[c]["slave"] # None => closes \in Slaves,
           phase' = [phase EXCEPT ![c] = next],
           todo' = [todo EXCEPT ![c] = closes],
           UNCHANGED <<table, number, copier>>
    PROVE  Inv'
  <1>t. TypeOK /\ todo[c] = <<>>
    BY DEF Inv, HandlerInv
  <1>s. closes \in Seq(Kinds \cup {"mark"}) /\ closes # <<>> /\ closes \notin Marks
    <2>1. closes # <<>> /\ closes \notin Marks
      BY Lists DEF Others
    <2>2. {"conn", "slave", "master", "mark"} \subseteq Kinds \cup {"mark"}
      BY DEF Kinds
    <2>3. /\ <<"conn">> \in Seq(Kinds \cup {"mark"}) /\ <<"slave">> \in Seq(Kinds \cup {"mark"})
          /\ <<"master", "mark", "conn">> \in Seq(Kinds \cup {"mark"})
          /\ <<"master", "mark", "slave", "conn">> \in Seq(Kinds \cup {"mark"})
      BY <2>2
    <2> QED BY <2>1, <2>3 DEF Firsts
  <1>a. /\ todo' \in [Sessions -> Seq(Kinds \cup {"mark"})] /\ todo'[c] = closes
        /\ \A d \in Sessions : d # c => todo'[d] = todo[d]
    BY <1>t, <1>s DEF TypeOK
  <1>b. /\ phase' \in [Sessions -> Phases] /\ phase'[c] = next
        /\ \A d \in Sessions : d # c => phase'[d] = phase[d]
    BY <1>t DEF TypeOK, Phases
  <1>m. \A d \in Sessions : todo'[d] \in Marks <=> todo[d] \in Marks
    BY <1>a, <1>s, <1>t, Lists
  <1>1. TypeOK'
    BY <1>t, <1>a, <1>b DEF TypeOK, Phases, Files
  <1>2. Owned'
    BY <1>m DEF Inv, Owned
  <1>3. Holds'
    BY <1>m DEF Inv, Holds
  <1>4. ASSUME NEW d \in Sessions PROVE HandlerInv(d)'
    <2>1. CASE d = c
      BY <2>1, <1>a, <1>b, <1>s DEF Inv, HandlerInv
    <2>2. CASE d # c
      BY <2>2, <1>a, <1>b DEF Inv, HandlerInv
    <2> QED BY <2>1, <2>2
  <1>5. ASSUME NEW d \in Sessions, NEW g \in Copiers PROVE CopierInv(d, g)'
    <2>1. CopierInv(d, g)
      BY DEF Inv
    <2>2. CASE d = c
      BY <2>1, <2>2, <1>b DEF CopierInv
    <2>3. CASE d # c
      BY <2>1, <2>3, <1>b DEF CopierInv
    <2> QED BY <2>2, <2>3
  <1> QED BY <1>1, <1>2, <1>3, <1>4, <1>5 DEF Inv

\* A deferred close, and what it leaves in the list.
LEMMA CloseInv ==
    ASSUME Inv, NEW c \in Sessions, Close(c)
    PROVE  Inv'
  <1> DEFINE kind == Head(todo[c])
             n    == number[c][kind]
             rest == Tail(todo[c])
  <1>h. HandlerInv(c) /\ TypeOK /\ todo[c] \notin Marks
    <2>1. ~Closing(c)
      BY DEF Close, Closing
    <2> QED BY <2>1, ClosingMarks DEF Inv
  <1>l. \/ kind = "master" /\ todo[c] \in Firsts /\ rest \in Marks
        \/ kind = "slave" /\ todo[c] \in {<<"slave">>, <<"slave", "conn">>}
        \/ kind = "conn" /\ todo[c] = <<"conn">>
    BY <1>h, ClosingMarks, Lists DEF Close, Others
  <1>r. /\ todo[c] = <<"slave">> => rest = <<>>
        /\ todo[c] = <<"conn">> => rest = <<>>
        /\ todo[c] = <<"slave", "conn">> => rest = <<"conn">>
        /\ todo[c] = <<"master", "mark", "conn">> => rest = <<"mark", "conn">>
        /\ todo[c] = <<"master", "mark", "slave", "conn">> => rest = <<"mark", "slave", "conn">>
    <2>1. Tail(<<"slave">>) = <<>> /\ Tail(<<"conn">>) = <<>>
      OBVIOUS
    <2>2. Tail(<<"slave", "conn">>) = <<"conn">>
      OBVIOUS
    <2>3. Tail(<<"master", "mark", "conn">>) = <<"mark", "conn">>
      OBVIOUS
    <2>4. Tail(<<"master", "mark", "slave", "conn">>) = <<"mark", "slave", "conn">>
      OBVIOUS
    <2> QED BY <2>1, <2>2, <2>3, <2>4, Zenon
  <1>k. kind \in Kinds /\ (kind # "master" => rest \notin Marks)
    BY <1>l, <1>r, Lists DEF Kinds, Others
  <1>s. rest \in Seq(Kinds \cup {"mark"})
    BY <1>h DEF TypeOK, Close
  <1>a. /\ table' = [table EXCEPT ![n] = Free]
        /\ number' = IF kind = "master" THEN number ELSE [number EXCEPT ![c][kind] = None]
        /\ todo' = [todo EXCEPT ![c] = rest]
        /\ UNCHANGED <<phase, copier>>
    BY DEF Close
  <1> HIDE DEF kind, rest
  <1>b. /\ table' \in [Numbers -> Files] /\ (n \in Numbers => table'[n] = Free)
        /\ \A m \in Numbers : m # n => table'[m] = table[m]
    BY <1>h, <1>a DEF TypeOK, Files
  <1>d. /\ number' \in [Sessions -> [Kinds -> Numbers \cup {None}]]
        /\ kind # "master" => number'[c][kind] = None
        /\ kind = "master" => number' = number
        /\ \A d \in Sessions, k \in Kinds : <<k, d>> # <<kind, c>> => number'[d][k] = number[d][k]
    BY <1>h, <1>a, <1>k DEF TypeOK
  <1>e. /\ todo' \in [Sessions -> Seq(Kinds \cup {"mark"})] /\ todo'[c] = rest
        /\ \A d \in Sessions : d # c => todo'[d] = todo[d]
    BY <1>h, <1>a, <1>s DEF TypeOK
  <1>f. n \in Numbers \cup {None}
    BY <1>h, <1>k DEF TypeOK
  <1> HIDE DEF n
  <1>1. TypeOK'
    BY <1>h, <1>a, <1>b, <1>d, <1>e DEF TypeOK, Files
  <1>2. Owned'
    <2> SUFFICES ASSUME NEW m \in Numbers, NEW d \in Sessions, NEW k \in Kinds,
                        table'[m] = <<k, d>>
                 PROVE  number'[d][k] = m /\ ~(k = "master" /\ todo'[d] \in Marks)
      BY DEF Owned
    <2>1. m # n
      BY <1>b DEF Free, Kinds
    <2>2. number[d][k] = m /\ ~(k = "master" /\ todo[d] \in Marks)
      BY <2>1, <1>b DEF Inv, Owned
    <2>3. <<k, d>> # <<kind, c>>
      BY <2>1, <2>2 DEF n
    <2>4. ~(k = "master" /\ todo'[d] \in Marks)
      BY <2>2, <2>3, <1>e, <1>k
    <2> QED BY <2>2, <2>3, <2>4, <1>d
  <1>3. Holds'
    <2> SUFFICES ASSUME NEW d \in Sessions, NEW k \in Kinds, number'[d][k] # None,
                        ~(k = "master" /\ todo'[d] \in Marks)
                 PROVE  table'[number'[d][k]] = <<k, d>>
      BY DEF Holds
    <2>1. <<k, d>> # <<kind, c>>
      BY <1>d, <1>e, <1>l
    <2>2. number'[d][k] = number[d][k] /\ number[d][k] \in Numbers
      BY <2>1, <1>d, <1>h DEF TypeOK
    <2>3. ~(k = "master" /\ todo[d] \in Marks)
      BY <1>e, <1>h
    <2>4. table[number[d][k]] = <<k, d>>
      BY <2>2, <2>3 DEF Inv, Holds
    <2>5. number[d][k] # n
      <3> SUFFICES ASSUME number[d][k] = n PROVE FALSE
        OBVIOUS
      <3>1. table[n] = <<kind, c>>
        BY <2>2, <1>h, <1>k DEF Inv, Holds, n
      <3> QED BY <3>1, <2>4, <2>1
    <2> QED BY <2>2, <2>4, <2>5, <1>b
  <1>4. ASSUME NEW d \in Sessions PROVE HandlerInv(d)'
    <2>1. CASE d = c
      <3>1. phase'[c] = phase[c] /\ todo'[c] = rest
        BY <1>a, <1>e
      <3>2. number'[c]["conn"] # None => kind # "conn" /\ number[c]["conn"] # None
        BY <1>d DEF Kinds
      <3>3. number'[c]["slave"] # None => kind # "slave" /\ number[c]["slave"] # None
        BY <1>d DEF Kinds
      <3>4. number'[c]["master"] = number[c]["master"]
        BY <1>d DEF Kinds
      <3>5. CASE kind = "master"
        <4>1. todo[c] \in Firsts /\ rest \in Marks /\ rest # <<>>
          BY <3>5, <1>l, Lists
        <4>2. phase[c] = "ending"
          <5>1. todo[c] # <<>> /\ todo[c] # <<"slave">>
            BY <4>1 DEF Firsts
          <5> QED BY <5>1, <1>h DEF HandlerInv
        <4>3. number[c]["slave"] # None => rest \in Slaves
          BY <4>1, <4>2, <1>h, <1>r DEF HandlerInv, Firsts, Slaves
        <4> QED BY <2>1, <3>1, <3>2, <3>3, <3>4, <4>1, <4>2, <4>3, <1>h DEF HandlerInv
      <3>6. CASE kind = "slave"
        <4>1. number'[c]["slave"] = None
          BY <3>3, <3>6
        <4>2. \/ todo[c] = <<"slave">> /\ rest = <<>>
              \/ todo[c] = <<"slave", "conn">> /\ rest = <<"conn">>
          BY <3>6, <1>l, <1>r
        <4>3. todo[c] # <<>> /\ phase[c] \in {"started", "ending"}
          BY <4>2, <1>h DEF HandlerInv
        <4>4. phase[c] = "started" => rest = <<>>
          BY <4>2, <1>h DEF HandlerInv
        <4>5. phase[c] = "ending" => rest = <<"conn">>
          <5>1. <<"slave">> \notin {<<>>, <<"slave", "conn">>, <<"conn">>}
            OBVIOUS
          <5>2. <<"slave">> \notin Marks \cup Firsts
            BY DEF Marks, Firsts
          <5> QED BY <4>2, <5>1, <5>2, <1>h DEF HandlerInv
        <4>6. <<"conn">> # <<>>
          OBVIOUS
        <4> QED BY <2>1, <3>1, <3>2, <3>4, <4>1, <4>3, <4>4, <4>5, <4>6, <1>h DEF HandlerInv
      <3>7. CASE kind = "conn"
        <4>1. todo[c] = <<"conn">> /\ rest = <<>> /\ number'[c]["conn"] = None
          BY <3>7, <1>l, <1>r, <1>d
        <4>2. phase[c] = "ending"
          BY <4>1, <1>h DEF HandlerInv, TypeOK
        <4>3. number'[c]["slave"] = None
          BY <3>3, <4>1, <4>2, <1>h DEF HandlerInv, Slaves
        <4> QED BY <2>1, <3>1, <3>4, <4>1, <4>2, <4>3, <1>h DEF HandlerInv
      <3> QED BY <3>5, <3>6, <3>7, <1>l
    <2>2. CASE d # c
      <3>1. todo'[d] = todo[d] /\ phase'[d] = phase[d]
        BY <2>2, <1>a, <1>e
      <3>2. \A k \in Kinds : number'[d][k] = number[d][k]
        BY <2>2, <1>d
      <3> QED BY <3>1, <3>2 DEF Inv, HandlerInv, Kinds
    <2> QED BY <2>1, <2>2
  <1>5. ASSUME NEW d \in Sessions, NEW g \in Copiers PROVE CopierInv(d, g)'
    <2>1. CopierInv(d, g)
      BY DEF Inv
    <2>2. CASE d = c
      <3>1. phase[c] # "running"
        BY <1>h DEF HandlerInv, Close
      <3> QED BY <2>1, <2>2, <3>1, <1>a DEF CopierInv
    <2>3. CASE d # c
      <3>1. number'[d]["master"] = number[d]["master"]
        BY <2>3, <1>d DEF Kinds
      <3> QED BY <2>1, <3>1, <1>a DEF CopierInv
    <2> QED BY <2>2, <2>3
  <1> QED BY <1>1, <1>2, <1>3, <1>4, <1>5 DEF Inv

\* The number of a closed master is forgotten.
LEMMA MarkInv ==
    ASSUME Inv, NEW c \in Sessions, Mark(c)
    PROVE  Inv'
  <1> DEFINE rest == Tail(todo[c])
  <1>h. HandlerInv(c) /\ TypeOK /\ todo[c] \in Marks /\ todo[c] # <<>>
    <2>1. Closing(c)
      BY DEF Mark, Closing
    <2> QED BY <2>1, ClosingMarks DEF Inv, Closing
  <1>r. rest \in {<<"conn">>, <<"slave", "conn">>} /\ rest # <<>> /\ rest \notin Marks
    BY <1>h, Lists DEF Others
  <1>q. todo[c] = <<"mark", "slave", "conn">> => rest = <<"slave", "conn">>
    <2>1. Tail(<<"mark", "slave", "conn">>) = <<"slave", "conn">>
      OBVIOUS
    <2> QED BY <2>1
  <1>s. rest \in Seq(Kinds \cup {"mark"})
    BY <1>h DEF TypeOK
  <1>a. /\ number' = [number EXCEPT ![c]["master"] = None]
        /\ todo' = [todo EXCEPT ![c] = rest]
        /\ UNCHANGED <<table, phase, copier>>
    BY DEF Mark
  <1> HIDE DEF rest
  <1>p. phase[c] = "ending"
    <2>1. todo[c] # <<"slave">>
      BY <1>h DEF Marks
    <2> QED BY <2>1, <1>h DEF HandlerInv
  <1>d. /\ number' \in [Sessions -> [Kinds -> Numbers \cup {None}]]
        /\ number'[c]["master"] = None
        /\ \A d \in Sessions, k \in Kinds : <<k, d>> # <<"master", c>> => number'[d][k] = number[d][k]
    BY <1>h, <1>a DEF TypeOK, Kinds
  <1>e. /\ todo' \in [Sessions -> Seq(Kinds \cup {"mark"})] /\ todo'[c] = rest
        /\ \A d \in Sessions : d # c => todo'[d] = todo[d]
    BY <1>h, <1>a, <1>s DEF TypeOK
  <1>1. TypeOK'
    BY <1>h, <1>a, <1>d, <1>e DEF TypeOK, Files
  <1>2. Owned'
    <2> SUFFICES ASSUME NEW m \in Numbers, NEW d \in Sessions, NEW k \in Kinds,
                        table[m] = <<k, d>>
                 PROVE  number'[d][k] = m /\ ~(k = "master" /\ todo'[d] \in Marks)
      BY <1>a DEF Owned
    <2>1. number[d][k] = m /\ ~(k = "master" /\ todo[d] \in Marks)
      BY DEF Inv, Owned
    <2> QED BY <2>1, <1>h, <1>d, <1>e, <1>r
  <1>3. Holds'
    <2> SUFFICES ASSUME NEW d \in Sessions, NEW k \in Kinds, number'[d][k] # None,
                        ~(k = "master" /\ todo'[d] \in Marks)
                 PROVE  table[number'[d][k]] = <<k, d>>
      BY <1>a DEF Holds
    <2>1. <<k, d>> # <<"master", c>> /\ number'[d][k] = number[d][k]
      BY <1>d
    <2>2. ~(k = "master" /\ todo[d] \in Marks)
      BY <2>1, <1>e
    <2> QED BY <2>1, <2>2 DEF Inv, Holds
  <1>4. ASSUME NEW d \in Sessions PROVE HandlerInv(d)'
    <2>1. CASE d = c
      <3>1. number'[c]["slave"] = number[c]["slave"] /\ number'[c]["conn"] = number[c]["conn"]
        BY <1>d DEF Kinds
      <3>2. number[c]["slave"] # None => rest \in Slaves
        BY <1>h, <1>p, <1>q DEF HandlerInv, Slaves, Marks
      <3>3. phase'[c] = "ending" /\ todo'[c] = rest
        BY <1>a, <1>e, <1>p
      <3> QED BY <2>1, <3>1, <3>2, <3>3, <1>d, <1>r, <1>h, <1>p DEF HandlerInv
    <2>2. CASE d # c
      <3>1. todo'[d] = todo[d] /\ phase'[d] = phase[d]
        BY <2>2, <1>a, <1>e
      <3>2. \A k \in Kinds : number'[d][k] = number[d][k]
        BY <2>2, <1>d
      <3> QED BY <3>1, <3>2 DEF Inv, HandlerInv, Kinds
    <2> QED BY <2>1, <2>2
  <1>5. ASSUME NEW d \in Sessions, NEW g \in Copiers PROVE CopierInv(d, g)'
    <2>1. CopierInv(d, g)
      BY DEF Inv
    <2>2. CASE d = c
      BY <2>1, <2>2, <1>p, <1>a DEF CopierInv
    <2>3. CASE d # c
      <3>1. number'[d]["master"] = number[d]["master"]
        BY <2>3, <1>d DEF Kinds
      <3> QED BY <2>1, <3>1, <1>a DEF CopierInv
    <2> QED BY <2>2, <2>3
  <1> QED BY <1>1, <1>2, <1>3, <1>4, <1>5 DEF Inv

\* The finalizer closes the master of a session that does not do it itself.
LEMMA FinalizeInv ==
    ASSUME Inv, NEW c \in Sessions, Finalize(c)
    PROVE  Inv'
  <1> DEFINE n == number[c]["master"]
  <1>h. HandlerInv(c) /\ TypeOK /\ n \in Numbers /\ phase[c] = "ending"
    BY DEF Inv, TypeOK, Finalize, Dropped, Kinds
  <1>a. /\ table' = [table EXCEPT ![n] = Free]
        /\ number' = [number EXCEPT ![c]["master"] = None]
        /\ UNCHANGED <<phase, todo, copier>>
    BY DEF Finalize
  <1>m. todo[c] \notin Marks
    <2> SUFFICES ASSUME todo[c] \in Marks PROVE FALSE
      OBVIOUS
    <2>1. /\ \A a, b : 1 \in 1 .. Len(<<a, b>>) /\ <<a, b>>[1] = a
          /\ \A a, b, d : 1 \in 1 .. Len(<<a, b, d>>) /\ <<a, b, d>>[1] = a
      OBVIOUS
    <2>2. 1 \in 1 .. Len(todo[c]) /\ todo[c][1] = "mark"
      BY <2>1 DEF Marks
    <2> QED BY <2>2 DEF Finalize, Dropped
  <1>g. table[n] = <<"master", c>>
    BY <1>h, <1>m DEF Inv, Holds, Kinds, Finalize, Dropped
  <1> HIDE DEF n
  <1>b. /\ table' \in [Numbers -> Files] /\ table'[n] = Free
        /\ \A m \in Numbers : m # n => table'[m] = table[m]
    BY <1>h, <1>a DEF TypeOK, Files
  <1>d. /\ number' \in [Sessions -> [Kinds -> Numbers \cup {None}]]
        /\ number'[c]["master"] = None
        /\ \A d \in Sessions, k \in Kinds : <<k, d>> # <<"master", c>> => number'[d][k] = number[d][k]
    BY <1>h, <1>a DEF TypeOK, Kinds
  <1>1. TypeOK'
    BY <1>h, <1>a, <1>b, <1>d DEF TypeOK, Files
  <1>2. Owned'
    <2> SUFFICES ASSUME NEW m \in Numbers, NEW d \in Sessions, NEW k \in Kinds,
                        table'[m] = <<k, d>>
                 PROVE  number'[d][k] = m /\ ~(k = "master" /\ todo[d] \in Marks)
      BY <1>a DEF Owned
    <2>1. m # n
      BY <1>b DEF Free, Kinds
    <2>2. number[d][k] = m /\ ~(k = "master" /\ todo[d] \in Marks)
      BY <2>1, <1>b DEF Inv, Owned
    <2>3. <<k, d>> # <<"master", c>>
      BY <2>1, <2>2 DEF n
    <2> QED BY <2>2, <2>3, <1>d
  <1>3. Holds'
    <2> SUFFICES ASSUME NEW d \in Sessions, NEW k \in Kinds, number'[d][k] # None,
                        ~(k = "master" /\ todo[d] \in Marks)
                 PROVE  table'[number'[d][k]] = <<k, d>>
      BY <1>a DEF Holds
    <2>1. <<k, d>> # <<"master", c>> /\ number'[d][k] = number[d][k] /\ number[d][k] \in Numbers
      BY <1>d, <1>h DEF TypeOK
    <2>2. table[number[d][k]] = <<k, d>>
      BY <2>1 DEF Inv, Holds
    <2>3. number[d][k] # n
      BY <2>1, <2>2, <1>g
    <2> QED BY <2>1, <2>2, <2>3, <1>b
  <1>4. ASSUME NEW d \in Sessions PROVE HandlerInv(d)'
    <2>1. CASE d = c
      <3>1. number'[c]["slave"] = number[c]["slave"] /\ number'[c]["conn"] = number[c]["conn"]
        BY <1>d DEF Kinds
      <3> QED BY <2>1, <3>1, <1>a, <1>d, <1>h DEF HandlerInv
    <2>2. CASE d # c
      <3>1. \A k \in Kinds : number'[d][k] = number[d][k]
        BY <2>2, <1>d
      <3> QED BY <3>1, <1>a DEF Inv, HandlerInv, Kinds
    <2> QED BY <2>1, <2>2
  <1>5. ASSUME NEW d \in Sessions, NEW g \in Copiers PROVE CopierInv(d, g)'
    <2>1. CopierInv(d, g)
      BY DEF Inv
    <2>2. CASE d = c
      BY <2>1, <2>2, <1>h, <1>a DEF CopierInv
    <2>3. CASE d # c
      <3>1. number'[d]["master"] = number[d]["master"]
        BY <2>3, <1>d DEF Kinds
      <3> QED BY <2>1, <3>1, <1>a DEF CopierInv
    <2> QED BY <2>2, <2>3
  <1> QED BY <1>1, <1>2, <1>3, <1>4, <1>5 DEF Inv

\* The goroutines of session c get under way.
LEMMA GoInv ==
    ASSUME Inv, NEW c \in Sessions, Go(c)
    PROVE  Inv'
  <1>h. HandlerInv(c) /\ TypeOK /\ phase[c] = "started" /\ todo[c] = <<>>
    BY DEF Inv, Go
  <1>a. /\ phase' = [phase EXCEPT ![c] = "running"]
        /\ copier' = [copier EXCEPT ![c] = [g \in Copiers |-> At("ready")]]
        /\ UNCHANGED <<table, todo, number>>
    BY DEF Go
  <1>f. At("ready") \in [at : {"off", "ready", "loaded", "inside", "over"},
                         n : Numbers \cup {None}, file : Files] /\ At("ready").at = "ready"
    BY DEF At, Files
  <1>b. /\ phase' \in [Sessions -> Phases] /\ phase'[c] = "running"
        /\ \A d \in Sessions : d # c => phase'[d] = phase[d] /\ copier'[d] = copier[d]
        /\ copier'[c] = [g \in Copiers |-> At("ready")]
    BY <1>h, <1>a DEF TypeOK, Phases
  <1>1. TypeOK'
    <2>1. copier' \in [Sessions -> [Copiers -> [at : {"off", "ready", "loaded", "inside", "over"},
                                                 n : Numbers \cup {None}, file : Files]]]
      BY <1>h, <1>a, <1>f DEF TypeOK
    <2> QED BY <1>h, <1>a, <1>b, <2>1 DEF TypeOK, Phases, Files
  <1>2. Owned' /\ Holds'
    BY <1>a DEF Inv, Owned, Holds
  <1>3. ASSUME NEW d \in Sessions PROVE HandlerInv(d)'
    <2>1. <<"slave">> # <<>>
      OBVIOUS
    <2>2. CASE d = c
      <3>1. \A t \in Slaves : t # <<>>
        BY DEF Slaves
      <3> QED BY <2>2, <3>1, <1>a, <1>b, <1>h DEF HandlerInv
    <2>3. CASE d # c
      BY <2>3, <1>a, <1>b DEF Inv, HandlerInv
    <2> QED BY <2>2, <2>3
  <1>4. ASSUME NEW d \in Sessions, NEW g \in Copiers PROVE CopierInv(d, g)'
    <2>1. CASE d = c
      BY <2>1, <1>b, <1>f DEF CopierInv
    <2>2. CASE d # c
      BY <2>2, <1>a, <1>b DEF Inv, CopierInv
    <2> QED BY <2>1, <2>2
  <1> QED BY <1>1, <1>2, <1>3, <1>4 DEF Inv

\* A step of goroutine g: what it holds afterwards is its session's.
LEMMA GoesInv ==
    ASSUME Inv, NEW c \in Sessions, NEW g \in Copiers, NEW to, Goes(c, g, to),
           to \in [at : {"ready", "loaded", "inside", "over"},
                   n : Numbers \cup {None}, file : Files],
           copier[c][g].at # "off",
           to.at = "loaded" => to.n \in Numbers /\ to.n = number[c]["master"],
           to.at = "inside" /\ phase[c] = "running" => to.file = <<"master", c>>
    PROVE  Inv'
  <1>h. TypeOK
    BY DEF Inv
  <1>a. /\ copier' = [copier EXCEPT ![c][g] = to]
        /\ UNCHANGED <<table, phase, todo, number>>
    BY DEF Goes
  <1>b. /\ copier' \in [Sessions -> [Copiers ->
                          [at : {"off", "ready", "loaded", "inside", "over"},
                           n : Numbers \cup {None}, file : Files]]]
        /\ copier'[c][g] = to
        /\ \A d \in Sessions, f \in Copiers :
              <<d, f>> # <<c, g>> => copier'[d][f] = copier[d][f]
    BY <1>h, <1>a DEF TypeOK
  <1>1. TypeOK'
    BY <1>h, <1>a, <1>b DEF TypeOK, Files
  <1>2. Owned' /\ Holds' /\ \A d \in Sessions : HandlerInv(d)'
    BY <1>a DEF Inv, Owned, Holds, HandlerInv
  <1>3. ASSUME NEW d \in Sessions, NEW f \in Copiers PROVE CopierInv(d, f)'
    <2>1. CASE <<d, f>> = <<c, g>>
      <3>1. phase[c] \in {"running", "ending"}
        BY DEF Inv, CopierInv
      <3> QED BY <2>1, <3>1, <1>a, <1>b DEF CopierInv
    <2>2. CASE <<d, f>> # <<c, g>>
      BY <2>2, <1>a, <1>b DEF Inv, CopierInv
    <2> QED BY <2>1, <2>2
  <1> QED BY <1>1, <1>2, <1>3 DEF Inv

LEMMA CopierStep ==
    ASSUME Inv, NEW c \in Sessions, NEW g \in Copiers,
           Load(c, g) \/ Enter(c, g) \/ Return(c, g)
    PROVE  Inv'
  <1> DEFINE Places == [at : {"ready", "loaded", "inside", "over"},
                        n : Numbers \cup {None}, file : Files]
  <1>h. TypeOK /\ CopierInv(c, g) /\ HandlerInv(c)
    BY DEF Inv
  <1>a. /\ At("over") \in Places /\ At("over").at = "over"
        /\ At("ready") \in Places /\ At("ready").at = "ready"
    BY DEF At, Files
  <1>1. ASSUME Goes(c, g, At("over")), copier[c][g].at # "off" PROVE Inv'
    BY <1>1, <1>a, GoesInv
  <1>2. ASSUME Load(c, g), ~Goes(c, g, At("over")) PROVE Inv'
    <2> DEFINE n  == number[c]["master"]
               to == [at |-> "loaded", n |-> n, file |-> Free]
    <2>1. n \in Numbers /\ Goes(c, g, to) /\ copier[c][g].at # "off"
      BY <1>2, <1>h DEF Load, TypeOK, Kinds
    <2>2. to \in Places /\ to.at = "loaded" /\ to.n = n
      BY <2>1 DEF Files
    <2> HIDE DEF to
    <2> QED BY <2>1, <2>2, GoesInv
  <1>3. ASSUME Enter(c, g), ~Goes(c, g, At("over")) PROVE Inv'
    <2> DEFINE n  == copier[c][g].n
               to == [at |-> "inside", n |-> None, file |-> table[n]]
    <2>1. n \in Numbers /\ Goes(c, g, to) /\ copier[c][g].at # "off"
      BY <1>3, <1>h DEF Enter, CopierInv
    <2>2. table[n] \in Files
      BY <2>1, <1>h DEF TypeOK
    <2>3. to \in Places /\ to.at = "inside" /\ to.file = table[n]
      BY <2>2
    <2>4. ASSUME phase[c] = "running" PROVE table[n] = <<"master", c>>
      <3>1. n = number[c]["master"] /\ todo[c] = <<>> /\ <<>> \notin Marks
        BY <1>3, <1>h, <2>4, Lists DEF CopierInv, HandlerInv, Enter
      <3> QED BY <3>1, <2>1, ServerAssumption DEF Inv, Holds, Kinds, None
    <2> HIDE DEF to
    <2> QED BY <2>1, <2>3, <2>4, GoesInv
  <1>4. ASSUME Return(c, g) PROVE Inv'
    BY <1>4, <1>a, GoesInv DEF Return
  <1>5. Load(c, g) \/ Enter(c, g) => copier[c][g].at # "off"
    BY DEF Load, Enter
  <1> QED BY <1>1, <1>2, <1>3, <1>4, <1>5

\* What the phases and the lists say of the files of a session.
LEMMA StepInv ==
    ASSUME Inv, NEW c \in Sessions,
           \/ Accept(c) \/ Handshake(c) \/ Handler(c) \/ Wait(c) \/ Finalize(c)
           \/ \E g \in Copiers : Load(c, g) \/ Enter(c, g) \/ Return(c, g)
    PROVE  Inv'
  <1>h. HandlerInv(c) /\ TypeOK
    BY DEF Inv
  <1>p. /\ "conn" \in Kinds /\ "master" \in Kinds /\ "slave" \in Kinds
        /\ \A t \in Slaves : t # <<>>
    BY DEF Kinds, Slaves
  <1>q. phase[c] \in {"new", "asked", "upgraded", "ptmx", "running"} =>
           todo[c] = <<>> /\ number[c]["slave"] = None
    BY <1>h, <1>p DEF HandlerInv
  <1>c. <<"conn">> \in {<<"conn">>} \cup Firsts
    OBVIOUS
  <1>1. CASE Accept(c)
    <2>1. number[c]["conn"] = None /\ number[c]["master"] = None
      BY <1>1, <1>h DEF Accept, HandlerInv
    <2> QED BY <1>1, <1>p, <1>q, <2>1, OpenInv DEF Accept
  <1>2. CASE Handshake(c)
    <2>1. CASE Ends(c, <<"conn">>)
      BY <1>2, <2>1, <1>c, <1>q, DefersInv DEF Handshake, Ends
    <2>2. CASE /\ phase' = [phase EXCEPT ![c] = "upgraded"]
               /\ UNCHANGED <<table, todo, number, copier>>
      <3>1. /\ phase' \in [Sessions -> Phases] /\ phase'[c] = "upgraded" /\ phase[c] = "asked"
            /\ \A d \in Sessions : d # c => phase'[d] = phase[d]
        BY <1>2, <2>2, <1>h DEF TypeOK, Phases, Handshake
      <3>2. TypeOK'
        BY <1>h, <2>2, <3>1 DEF TypeOK, Phases, Files
      <3>3. Owned' /\ Holds'
        BY <2>2 DEF Inv, Owned, Holds
      <3>4. ASSUME NEW d \in Sessions PROVE HandlerInv(d)'
        BY <2>2, <3>1 DEF Inv, HandlerInv
      <3>5. ASSUME NEW d \in Sessions, NEW g \in Copiers PROVE CopierInv(d, g)'
        BY <2>2, <3>1 DEF Inv, CopierInv
      <3> QED BY <3>2, <3>3, <3>4, <3>5 DEF Inv
    <2> QED BY <1>2, <2>1, <2>2 DEF Handshake
  <1>3. CASE OpenMaster(c)
    <2>1. CASE Ends(c, <<"conn">>)
      BY <1>3, <2>1, <1>c, <1>q, DefersInv DEF OpenMaster, Ends
    <2>2. CASE Open(c, "master", "ptmx")
      <3>1. number[c]["master"] = None
        BY <1>3, <1>h DEF OpenMaster, HandlerInv
      <3> QED BY <1>3, <2>2, <3>1, <1>p, <1>q, OpenInv DEF OpenMaster
    <2> QED BY <1>3, <2>1, <2>2 DEF OpenMaster
  <1>4. CASE OpenSlave(c)
    <2>1. CASE Ends(c, <<"conn">>)
      BY <1>4, <2>1, <1>c, <1>q, DefersInv DEF OpenSlave, Ends
    <2>2. CASE Open(c, "slave", "pts")
      BY <1>4, <2>2, <1>p, <1>q, OpenInv DEF OpenSlave
    <2> QED BY <1>4, <2>1, <2>2 DEF OpenSlave
  <1>5. CASE Start(c)
    <2>1. CASE Ends(c, <<"master", "mark", "slave", "conn">>)
      BY <1>5, <2>1, DefersInv DEF Start, Ends, Firsts, Slaves
    <2>2. CASE /\ phase' = [phase EXCEPT ![c] = "started"]
               /\ todo' = [todo EXCEPT ![c] = <<"slave">>]
               /\ UNCHANGED <<table, number, copier>>
      BY <1>5, <2>2, DefersInv DEF Start, Slaves
    <2> QED BY <1>5, <2>1, <2>2 DEF Start
  <1>6. CASE Wait(c)
    BY <1>6, <1>q, DefersInv DEF Wait, Ends, Firsts
  <1> QED BY <1>1, <1>2, <1>3, <1>4, <1>5, <1>6, GoInv, CloseInv, MarkInv, FinalizeInv,
             CopierStep DEF Handler

LEMMA NextInv == Inv /\ [Next]_vars => Inv'
  <1> SUFFICES ASSUME Inv, [Next]_vars PROVE Inv'
    OBVIOUS
  <1>1. CASE Next
    BY <1>1, StepInv DEF Next
  <1>2. CASE UNCHANGED vars
    BY <1>2 DEF vars, Inv, TypeOK, Owned, Holds, HandlerInv, CopierInv, Files
  <1> QED BY <1>1, <1>2

-----------------------------------------------------------------------------
(* The theorems *)

LEMMA InvAlways == Spec => []Inv
  BY InitInv, NextInv, PTL DEF Spec

\* Type correctness: the descriptor table, the handlers, what they still have to
\* close and the goroutines keep their types, for any limit of descriptors.
THEOREM ServerTyped == Spec => []TypeOK
  <1>1. Inv => TypeOK
    BY DEF Inv
  <1> QED BY <1>1, InvAlways, PTL

\* However sessions overlap and numbers are reused, no close, panic or finalizer
\* of one session takes the descriptor of another (wsHandler, pty.Start, pty.open).
THEOREM DescriptorsAreOwn == Spec => []OwnDescriptors
  <1>1. Inv => OwnDescriptors
    BY ClosingMarks DEF Inv, Holds, OwnDescriptors
  <1> QED BY <1>1, InvAlways, PTL

\* Until cmd.Wait returns, the goroutines of a session use its own terminal.
THEOREM TerminalIsOwn == Spec => []OwnTerminal
  <1>1. Inv => OwnTerminal
    BY DEF Inv, CopierInv, OwnTerminal
  <1> QED BY <1>1, InvAlways, PTL

\* A handler that has ended leaves no descriptor behind but that of a master that
\* a failing pty.open has dropped, and the finalizer can still find that one.
THEOREM HandlersLeaveNothing == Spec => []NothingLeft
  <1>1. Inv => NothingLeft
    <2> SUFFICES ASSUME Inv, NEW n \in Numbers, NEW c \in Sessions, NEW k \in Kinds,
                        table[n] = <<k, c>>, phase[c] = "ending", todo[c] = <<>>
                 PROVE  k = "master" /\ number[c]["master"] = n
      BY DEF NothingLeft
    <2>1. number[c][k] = n /\ n # None
      BY ServerAssumption DEF Inv, Owned, None
    <2>2. \A t \in Slaves : t # <<>>
      BY DEF Slaves
    <2>3. number[c]["conn"] = None /\ number[c]["slave"] = None
      BY <2>2 DEF Inv, HandlerInv
    <2> QED BY <2>1, <2>3 DEF Kinds
  <1> QED BY <1>1, InvAlways, PTL
=============================================================================
