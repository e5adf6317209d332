-------------------------- MODULE EngineRadarProofs -------------------------
(***************************************************************************)
(* What the engine does to the radar, for every set of groups, values,     *)
(* firmwares and faults: settings reach a stopped radar, a radar that the  *)
(* engine stopped runs again, and the engine is right about which it is.   *)
(* And how long its command queue grows.                                   *)
(*                                                                         *)
(* All rest on the order of the command queue: the stop of an operation    *)
(* comes first, what needs a stopped radar right behind it.                *)
(***************************************************************************)
EXTENDS EngineSafetyProofs, FiniteSetTheorems, FunctionTheorems

\* What each operation may have in the queue or in flight (schedule_(),
\* drive_queue_(), op_failed_()).
Allowed(o) ==
  CASE o = "PROBE" -> {"GET_SWV", "PROBE_DONE"}
    [] o = "PING" -> {"GET_SWV", "PING_END"}
    [] o = "RESTART" -> {"RESET_SYSTEM"}
    [] o = "RUN_CTRL" -> {"START", "STOP", "SAVE", "RUN_DONE", "FAIL_END"}
    [] o = "BOOT_READ" -> {"GET_GROUP", "FIRST_READ", "STOP", "START", "SAVE",
                           "READ_END", "FAIL_END"}
    [] o = "READ" -> {"GET_GROUP", "STOP", "START", "SAVE", "READ_END", "FAIL_END"}
    [] o = "TXN" -> {"STOP", "SET_GROUP", "SAVE", "GET_GROUP", "START", "TXN_END",
                     "FAIL_END"}
    [] o = "FACTORY_RESET" -> {"STOP", "RESET_CFG", "SAVE", "GET_GROUP", "START",
                               "TXN_END", "FAIL_END"}
    [] o = "MODE_SWITCH" -> {"STOP", "SET_RUN_APP", "MODE_WAIT", "GET_SWV",
                             "PROBE_DONE", "START", "SAVE", "FAIL_END"}
    [] OTHER -> {}

\* Commands that need a stopped radar.
Work == {"SET_GROUP", "SET_RUN_APP", "RESET_CFG"}

Ordering == Work \cup {"STOP"}

\* A command outside the error path; gets and sets alone stand for groups.
Proper == {c \in Command : /\ c.groups # {} => c.id \in {"GET_GROUP", "SET_GROUP"}
                           /\ "FAILURE_PATH" \notin c.flags}

\* What is left to do with queue q and command f in flight.
Left(q, f) == Ids(q) \cup (IF f = Nil THEN {} ELSE {f.id})

\* A stop stands at the head, work at the head or behind the stop.
StopFirst(q) ==
  q # <<>> =>
    /\ "STOP" \notin Ids(Tail(q))
    /\ \A w \in Work : w \in Ids(Tail(q)) =>
         Head(q).id = "STOP" /\ w \notin Ids(Tail(Tail(q)))

\* Queue q and command f in flight of operation o, failing or not, waiting for
\* the new app or not.
Orderly(q, f, o, failing, waiting) ==
  /\ Left(q, f) \subseteq Allowed(o)
  /\ StopFirst(q)
  /\ f # Nil =>
       /\ "STOP" \notin Ids(q)
       /\ \A w \in Work : w \in Ids(q) =>
            f.id = "STOP" \/ (f.id = "SET_GROUP" /\ w = "SET_GROUP")
  /\ waiting => o = "MODE_SWITCH" /\ f = Nil /\ Ids(q) \cap Ordering = {}
  /\ failing => "FAIL_END" \in Ids(q) /\ Left(q, f) \subseteq {"START", "SAVE", "FAIL_END"}
  /\ ~failing => q \in Seq(Proper) /\ f \in Proper \cup {Nil}
  /\ "FIRST_READ" \in Ids(q) => Left(q, f) \subseteq {"GET_GROUP", "FIRST_READ"}

OrderInv == Orderly(queue, fly, op, task.failing, mode.waiting)

-----------------------------------------------------------------------------
(* Queues.                                                                 *)

LEMMA ProperCommand == Proper \subseteq Command /\ Nil \notin Proper
  BY NilAssumption DEF Proper

LEMMA IdsHead ==
  ASSUME NEW q \in Seq(Command), q # <<>>
  PROVE  Ids(q) = {Head(q).id} \cup Ids(Tail(q))
  <1>1. /\ Len(q) \in Nat /\ Len(q) # 0 /\ Len(Tail(q)) = Len(q) - 1
        /\ \A i \in 1..Len(Tail(q)) : Tail(q)[i] = q[i + 1]
        /\ Head(q) = q[1]
    BY HeadTailProperties, EmptySeq
  <1>2. \A i \in 1..Len(q) : i = 1 \/ (i - 1 \in 1..Len(Tail(q)) /\ q[i] = Tail(q)[i - 1])
    BY <1>1
  <1>3. Ids(q) \subseteq {Head(q).id} \cup Ids(Tail(q)) BY <1>1, <1>2 DEF Ids
  <1> QED BY <1>3, IdsTail

\* What stands in front of a queue.
LEMMA ConsParts ==
  ASSUME NEW S, NEW c \in S, NEW q \in Seq(S)
  PROVE  /\ <<c>> \o q \in Seq(S) /\ <<c>> \o q # <<>>
         /\ Head(<<c>> \o q) = c /\ Tail(<<c>> \o q) = q
  <1>1. <<c>> \in Seq(S) /\ Len(<<c>>) = 1 OBVIOUS
  <1>2. /\ <<c>> \o q \in Seq(S) /\ Len(<<c>> \o q) = 1 + Len(q)
        /\ \A i \in 1..1 + Len(q) :
             (<<c>> \o q)[i] = IF i <= 1 THEN c ELSE q[i - 1]
    BY <1>1, ConcatProperties
  <1>3. Len(q) \in Nat BY LenProperties
  <1>4. <<c>> \o q # <<>> BY <1>2, <1>3
  <1> DEFINE s == <<c>> \o q
  <1> HIDE DEF s
  <1>5. s \in Seq(S) /\ s # <<>> /\ Len(s) = 1 + Len(q)
          /\ \A i \in 1..1 + Len(q) : s[i] = IF i <= 1 THEN c ELSE q[i - 1]
    BY <1>2, <1>4 DEF s
  <1>6. Head(s) = c BY <1>3, <1>5
  <1>7. Tail(s) = q
    <2>1. /\ Tail(s) \in Seq(S) /\ Len(Tail(s)) = Len(q)
          /\ \A i \in 1..Len(Tail(s)) : Tail(s)[i] = s[i + 1]
      BY <1>3, <1>5, HeadTailProperties
    <2>2. \A i \in 1..Len(q) : Tail(s)[i] = q[i] BY <1>3, <1>5, <2>1
    <2> QED BY <2>1, <2>2, SeqEqual
  <1> QED BY <1>5, <1>6, <1>7 DEF s

\* Without a stop and without work any order will do.
LEMMA CalmFirst ==
  ASSUME NEW q \in Seq(Command), Ids(q) \cap Ordering = {} PROVE StopFirst(q)
  BY IdsTail DEF StopFirst, Ordering

LEMMA ConcatTail ==
  ASSUME NEW S, NEW q \in Seq(S), NEW r \in Seq(S), q # <<>>
  PROVE  /\ q \o r \in Seq(S) /\ q \o r # <<>>
         /\ Head(q \o r) = Head(q) /\ Tail(q \o r) = Tail(q) \o r
  <1> DEFINE h == Head(q)
             t == Tail(q)
  <1>1. /\ h \in S /\ t \in Seq(S) /\ Len(t) = Len(q) - 1 /\ Len(q) \in Nat
        /\ \A i \in 1..Len(t) : t[i] = q[i + 1]
        /\ h = q[1] /\ Len(q) # 0
    BY HeadTailProperties, EmptySeq
  <1> HIDE DEF h, t
  <1>2. /\ <<h>> \in Seq(S) /\ <<h>> \o t \in Seq(S)
        /\ Len(<<h>> \o t) = 1 + Len(t)
        /\ \A i \in 1..1 + Len(t) : (<<h>> \o t)[i] = IF i <= 1 THEN h ELSE t[i - 1]
    <2>1. <<h>> \in Seq(S) /\ Len(<<h>>) = 1 /\ <<h>>[1] = h BY <1>1
    <2>2. \A i \in 1..1 + Len(t) : i <= 1 => i = 1 BY <1>1
    <2> QED BY <1>1, <2>1, <2>2, ConcatProperties
  <1>3. \A i \in 1..Len(q) : (<<h>> \o t)[i] = q[i] BY <1>1, <1>2
  <1>4. <<h>> \o t = q
    <2>1. Len(<<h>> \o t) = Len(q) BY <1>1, <1>2
    <2> QED BY <1>2, <1>3, <2>1, SeqEqual
  <1>5. t \o r \in Seq(S) BY <1>1, ConcatProperties
  <1>6. (<<h>> \o t) \o r = <<h>> \o (t \o r) BY <1>1, <1>2, ConcatAssociative
  <1> DEFINE u == t \o r
  <1> HIDE DEF u
  <1>7. /\ <<h>> \o u \in Seq(S) /\ <<h>> \o u # <<>>
        /\ Head(<<h>> \o u) = h /\ Tail(<<h>> \o u) = u
    BY <1>1, <1>5, ConsParts DEF u
  <1> QED BY <1>4, <1>6, <1>7 DEF h, t, u

\* What is queued behind, neither a stop nor work, keeps the order.
LEMMA AppendFirst ==
  ASSUME NEW q \in Seq(Command), NEW r \in Seq(Command), q # <<>>, StopFirst(q),
         Ids(r) \cap Ordering = {}
  PROVE  StopFirst(q \o r)
  <1> DEFINE t == Tail(q)
             u == Tail(q) \o r
  <1>1. t \in Seq(Command) /\ r \in Seq(Command) OBVIOUS
  <1>2. u \in Seq(Command) /\ Ids(u) = Ids(t) \cup Ids(r)
    BY <1>1, ConcatType, IdsConcat
  <1>3. Head(q \o r) = Head(q) /\ Tail(q \o r) = u BY ConcatTail
  <1>4. "STOP" \notin Ids(t)
        /\ \A w \in Work : w \in Ids(t) => Head(q).id = "STOP" /\ w \notin Ids(Tail(t))
    BY DEF StopFirst
  <1>5. t # <<>> => Tail(u) = Tail(t) \o r /\ Ids(Tail(u)) = Ids(Tail(t)) \cup Ids(r)
    <2> SUFFICES ASSUME t # <<>>
                 PROVE  Tail(u) = Tail(t) \o r /\ Ids(Tail(u)) = Ids(Tail(t)) \cup Ids(r)
      OBVIOUS
    <2>1. Tail(t) \in Seq(Command) BY <1>1
    <2>2. Tail(u) = Tail(t) \o r BY <1>1, ConcatTail
    <2>3. Ids(Tail(t) \o r) = Ids(Tail(t)) \cup Ids(r) BY <2>1, IdsConcat
    <2> QED BY <2>2, <2>3
  <1>6. t = <<>> => Ids(t) = {} BY IdsEmpty
  <1> HIDE DEF t, u
  <1>7. "STOP" \notin Ids(u) BY <1>2, <1>4 DEF Ordering
  <1>8. ASSUME NEW w \in Work, w \in Ids(u)
        PROVE  Head(q).id = "STOP" /\ w \notin Ids(Tail(u))
    <2>1. w \in Ids(t) /\ w \notin Ids(r) BY <1>2, <1>8 DEF Ordering
    <2> QED BY <1>4, <1>5, <1>6, <2>1
  <1> QED BY <1>3, <1>7, <1>8 DEF StopFirst

\* A stop, and a stop with one command of work behind it.
LEMMA StopFirstStop ==
  /\ StopFirst(Stop) /\ Stop # <<>> /\ Ids(Stop) = {"STOP"}
  /\ \A c \in Command : c.id \in Work => StopFirst(Stop \o <<c>>)
  <1> DEFINE stop == Cmd("STOP", Retries, {})
  <1>1. stop \in Command /\ Stop = <<stop>> /\ stop.id = "STOP"
    BY CmdType, RetriesType DEF Stop, WireIds, Cmd
  <1> HIDE DEF stop
  <1>2. Tail(<<stop>>) = <<>> OBVIOUS
  <1>3. StopFirst(<<stop>>) BY <1>2, IdsEmpty DEF StopFirst
  <1>4. ASSUME NEW c \in Command, c.id \in Work PROVE StopFirst(<<stop>> \o <<c>>)
    <2>1. /\ <<c>> \in Seq(Command) /\ Tail(<<c>>) = <<>>
      OBVIOUS
    <2>2. Head(<<stop>> \o <<c>>) = stop /\ Tail(<<stop>> \o <<c>>) = <<c>>
      BY <1>1, <2>1, ConsParts
    <2>3. Ids(<<c>>) = {c.id} BY IdsOne
    <2> QED BY <1>1, <1>4, <2>1, <2>2, <2>3, IdsEmpty DEF StopFirst, Work
  <1> QED BY <1>1, <1>3, <1>4, IdsStop

-----------------------------------------------------------------------------
(* What keeps a queue in order.                                            *)

LEMMA LeftTail ==
  ASSUME NEW q \in Seq(Command), NEW f, q # <<>>
  PROVE  Left(Tail(q), f) \subseteq Left(q, f)
  BY IdsTail DEF Left

\* Nothing is left of an operation.
LEMMA OrderlyNone == Orderly(<<>>, Nil, "NONE", FALSE, FALSE)
  BY IdsEmpty DEF Orderly, Left, StopFirst

\* An operation that starts, not yet failing.
LEMMA OrderlyNew ==
  ASSUME NEW q \in Seq(Proper), NEW o, Ids(q) \subseteq Allowed(o), StopFirst(q),
         "FIRST_READ" \in Ids(q) => Ids(q) \subseteq {"GET_GROUP", "FIRST_READ"}
  PROVE  Orderly(q, Nil, o, FALSE, FALSE)
  BY DEF Orderly, Left

\* What is queued in front when neither a stop nor work is left.
LEMMA OrderlyCalm ==
  ASSUME NEW q \in Seq(Command), NEW o, NEW failing \in BOOLEAN,
         NEW waiting \in BOOLEAN,
         Ids(q) \subseteq Allowed(o), Ids(q) \cap Ordering = {},
         waiting => o = "MODE_SWITCH",
         failing => "FAIL_END" \in Ids(q) /\ Ids(q) \subseteq {"START", "SAVE", "FAIL_END"},
         ~failing => q \in Seq(Proper),
         "FIRST_READ" \in Ids(q) => Ids(q) \subseteq {"GET_GROUP", "FIRST_READ"}
  PROVE  Orderly(q, Nil, o, failing, waiting)
  BY CalmFirst DEF Orderly, Left

\* The command in flight is done and nothing is queued for it.
LEMMA OrderlyDone ==
  ASSUME NEW q, NEW f, NEW o, NEW failing, NEW waiting, f # Nil,
         Orderly(q, f, o, failing, waiting)
  PROVE  /\ Orderly(q, Nil, o, failing, FALSE)
         /\ ~waiting /\ f.id \in Allowed(o)
  BY DEF Orderly, Left

\* The head is worked off.
LEMMA OrderlyTail ==
  ASSUME NEW q \in Seq(Command), NEW o, NEW failing, NEW waiting, q # <<>>,
         Orderly(q, Nil, o, failing, FALSE),
         Head(q).id \notin {"STOP", "FAIL_END"},
         waiting => o = "MODE_SWITCH"
  PROVE  Orderly(Tail(q), Nil, o, failing, waiting)
  <1>1. Tail(q) \in Seq(Command) /\ Ids(q) = {Head(q).id} \cup Ids(Tail(q))
    BY IdsHead
  <1>2. Ids(Tail(q)) \cap Ordering = {}
    BY DEF Orderly, StopFirst, Ordering
  <1>3. ~failing => Tail(q) \in Seq(Proper) BY DEF Orderly
  <1>4. Left(q, Nil) = Ids(q) /\ Left(Tail(q), Nil) = Ids(Tail(q)) BY DEF Left
  <1>5. StopFirst(Tail(q)) BY <1>1, <1>2, CalmFirst
  <1> QED BY <1>1, <1>2, <1>3, <1>4, <1>5 DEF Orderly

\* The failed operation is replaced by the error path.
LEMMA OrderlyFail ==
  ASSUME NEW c, NEW o, {"START", "FAIL_END"} \subseteq Allowed(o)
  PROVE  Orderly(FailQueue(c), Nil, o, TRUE, FALSE)
  <1> DEFINE q == FailQueue(c)
  <1>1. q \in Seq(Command) /\ Ids(q) \subseteq {"START", "FAIL_END"}
    BY FailQueueType, IdsFailQueue
  <1>2. "FAIL_END" \in Ids(q)
    <2>1. WellEnded(q, {"FAIL_END"}) BY EndedFailQueue
    <2> HIDE DEF q
    <2>2. Len(q) \in 1..Len(q) BY <1>1, <2>1, EmptySeq DEF WellEnded
    <2> QED BY <2>1, <2>2 DEF WellEnded, Ids
  <1> HIDE DEF q
  <1>3. Orderly(q, Nil, o, TRUE, FALSE)
    BY <1>1, <1>2, OrderlyCalm DEF Ordering, Work
  <1> QED BY <1>3 DEF q

\* Commands p are queued in front while neither a stop nor work is left.
LEMMA OrderlyAgain ==
  ASSUME NEW q \in Seq(Command), NEW o, NEW failing \in BOOLEAN,
         NEW p \in Seq(Command),
         Orderly(q, Nil, o, failing, FALSE), Ids(q) \cap Ordering = {},
         Ids(p) \subseteq Allowed(o), Ids(p) \cap Ordering = {},
         failing => Ids(p) \subseteq {"START", "SAVE"},
         ~failing => p \in Seq(Proper),
         "FIRST_READ" \in Ids(q) => Ids(p) \subseteq {"GET_GROUP"},
         "FIRST_READ" \notin Ids(p)
  PROVE  Orderly(p \o q, Nil, o, failing, FALSE)
  <1>1. p \o q \in Seq(Command) /\ Ids(p \o q) = Ids(p) \cup Ids(q)
    BY ConcatType, IdsConcat
  <1>2. ~failing => p \o q \in Seq(Proper)
    BY ConcatProperties DEF Orderly
  <1>3. /\ Ids(q) \subseteq Allowed(o)
        /\ failing => "FAIL_END" \in Ids(q) /\ Ids(q) \subseteq {"START", "SAVE", "FAIL_END"}
        /\ "FIRST_READ" \in Ids(q) => Ids(q) \subseteq {"GET_GROUP", "FIRST_READ"}
    BY DEF Orderly, Left
  <1> DEFINE r == p \o q
  <1> HIDE DEF r
  <1>4. Orderly(r, Nil, o, failing, FALSE)
    BY <1>1, <1>2, <1>3, OrderlyCalm DEF r
  <1> QED BY <1>4 DEF r

\* A command in flight other than a stop or a set has no order to keep to.
LEMMA CalmBehind ==
  ASSUME NEW q, NEW f, NEW o, NEW failing, NEW waiting, f # Nil,
         Orderly(q, f, o, failing, waiting), f.id \notin {"STOP", "SET_GROUP"}
  PROVE  Ids(q) \cap Ordering = {}
  BY DEF Orderly, Ordering, Work

\* The head h goes out, group by group.
LEMMA OrderlySend ==
  ASSUME NEW q \in Seq(Command), NEW o, NEW failing \in BOOLEAN, q # <<>>,
         Orderly(q, Nil, o, failing, FALSE), Head(q).id \notin Markers,
         NEW f \in Command, f.id = Head(q).id, f.flags = Head(q).flags,
         NEW rest, rest = <<>> \/ (\E c \in Command : rest = <<c>> /\ c.id = f.id
                                     /\ c.flags = f.flags /\ Head(q).groups # {}),
         f.groups # {} => Head(q).groups # {}
  PROVE  Orderly(rest \o Tail(q), f, o, failing, FALSE)
  <1> DEFINE h == Head(q)
             t == Tail(q)
             r == rest \o t
  <1>1. /\ t \in Seq(Command) /\ h \in Command /\ Ids(q) = {h.id} \cup Ids(t)
        /\ rest \in Seq(Command) /\ Ids(rest) \subseteq {h.id}
    <2>1. rest \in Seq(Command) /\ Ids(rest) \subseteq {h.id}
      <3>1. CASE rest = <<>> BY <3>1, IdsEmpty
      <3>2. ASSUME NEW c \in Command, rest = <<c>>, c.id = f.id
            PROVE  rest \in Seq(Command) /\ Ids(rest) \subseteq {h.id}
        BY <3>2, IdsOne
      <3> QED BY <3>1, <3>2
    <2> QED BY <2>1, IdsHead
  <1>2. r \in Seq(Command) /\ Ids(r) = Ids(rest) \cup Ids(t)
    BY <1>1, ConcatType, IdsConcat
  <1>3. f # Nil BY NilAssumption
  <1>4. rest = <<>> => r = t BY <1>1, ConcatEmptySeq
  <1>5. rest # <<>> => r # <<>> /\ Head(r).id = h.id /\ Tail(r) = t
    <2> SUFFICES ASSUME rest # <<>> PROVE r # <<>> /\ Head(r).id = h.id /\ Tail(r) = t
      OBVIOUS
    <2>1. PICK c \in Command : rest = <<c>> /\ c.id = f.id OBVIOUS
    <2> HIDE DEF t
    <2> QED BY <1>1, <2>1, ConsParts
  <1> HIDE DEF h, t, r
  <1>6. Ids(q) \subseteq Allowed(o) BY DEF Orderly, Left
  <1>7. Left(r, f) \subseteq Ids(q) BY <1>1, <1>2 DEF Left, h
  <1>8. /\ "STOP" \notin Ids(t)
        /\ \A w \in Work : w \in Ids(t) => h.id = "STOP" /\ w \notin Ids(Tail(t))
    BY DEF Orderly, StopFirst, h, t
  <1>9. h.id = "STOP" => rest = <<>>
    <2>1. CASE failing BY <1>1, <2>1 DEF Orderly, Left
    <2>2. CASE ~failing
      <3>1. h \in Proper BY <2>2 DEF Orderly, h
      <3> QED BY <3>1 DEF Proper, h
    <2> QED BY <2>1, <2>2
  <1>10. StopFirst(r)
    <2>1. CASE rest = <<>>
      <3>1. t # <<>> => Ids(Tail(t)) \subseteq Ids(t) BY <1>1, IdsTail
      <3> QED BY <1>4, <1>8, <2>1, <3>1 DEF StopFirst
    <2>2. CASE rest # <<>> BY <1>5, <1>8, <1>9, <2>2 DEF StopFirst
    <2> QED BY <2>1, <2>2
  <1>11. /\ "STOP" \notin Ids(r)
         /\ \A w \in Work : w \in Ids(r) =>
              f.id = "STOP" \/ (f.id = "SET_GROUP" /\ w = "SET_GROUP")
    <2>1. CASE h.id = "STOP" BY <1>4, <1>8, <1>9, <2>1 DEF h
    <2>2. CASE h.id # "STOP"
      <3>1. Ids(r) \cap Ordering \subseteq {h.id} BY <1>1, <1>2, <1>8, <2>2 DEF Ordering
      <3>2. h.id \in Work \ {"SET_GROUP"} => rest = <<>>
        <4>1. CASE failing BY <1>1, <4>1 DEF Orderly, Left, Work
        <4>2. CASE ~failing
          <5>1. h \in Proper BY <4>2 DEF Orderly, h
          <5> QED BY <5>1 DEF Proper, Work, h
        <4> QED BY <4>1, <4>2
      <3> QED BY <1>4, <1>8, <2>2, <3>1, <3>2 DEF Work, Ordering, h
    <2> QED BY <2>1, <2>2
  <1>12. failing => "FAIL_END" \in Ids(r)
    <2>1. h.id # "FAIL_END" BY DEF Markers, EndMarkers, h
    <2> QED BY <1>1, <1>2, <2>1 DEF Orderly
  <1>13. ~failing => r \in Seq(Proper) /\ f \in Proper
    <2> SUFFICES ASSUME ~failing PROVE r \in Seq(Proper) /\ f \in Proper OBVIOUS
    <2>1. h \in Proper /\ t \in Seq(Proper) BY DEF Orderly, h, t
    <2>2. f \in Proper BY <2>1 DEF Proper, h
    <2>3. \A c \in Command : c.id = f.id /\ c.flags = f.flags /\ h.groups # {} => c \in Proper
      BY <2>1 DEF Proper, h
    <2>4. rest \in Seq(Proper)
      <3>1. CASE rest = <<>> BY <3>1
      <3>2. ASSUME NEW c \in Command, rest = <<c>>, c \in Proper
            PROVE  rest \in Seq(Proper)
        BY <3>2
      <3> QED BY <2>3, <3>1, <3>2 DEF h
    <2> QED BY <2>1, <2>2, <2>4, ConcatProperties DEF r
  <1> QED BY <1>2, <1>3, <1>6, <1>7, <1>10, <1>11, <1>12, <1>13
          DEF Orderly, Left, r, t

-----------------------------------------------------------------------------
(* What a finished command does to the queue.                              *)

\* The operation goes on with queue q.
GoesOn(q) == op' = op /\ queue' = q /\ task'.failing = task.failing

\* The operation fails with command c (op_failed_()).
Fails(c) == op' = op /\ ~task.failing /\ queue' = FailQueue(c) /\ task'.failing

\* The link is given up, or the radar restarts.
Dropped == op' = "NONE" /\ queue' = <<>> /\ task'.failing = task.failing

\* A start that was refused because of unsaved changes is sent again.
Again(c) == <<Cmd("SAVE", 1, {}), Cmd("START", 1, c.flags \cup {"START_RETRY"})>>

LEMMA FailsOrNot ==
  ASSUME TypeOK, NEW c, OpFailed(c), op' = op PROVE GoesOn(queue) \/ Fails(c)
  BY DEF OpFailed, GoesOn, Fails, TypeOK, ControlOK, TaskType

\* Error flags and lists of settings leave the error path alone.
LEMMA SameFailing ==
  ASSUME TypeOK
  PROVE  /\ [task EXCEPT !.error = TRUE].failing = task.failing
         /\ [task EXCEPT !.saveError = TRUE].failing = task.failing
         /\ \A s : [task EXCEPT !.setOk = s].failing = task.failing
         /\ \A s : [task EXCEPT !.readOk = s].failing = task.failing
         /\ \A s : [task EXCEPT !.setFail = s, !.error = TRUE].failing = task.failing
  BY DEF TypeOK, ControlOK, TaskType

DoneStep(c, o) ==
  \/ GoesOn(queue)
  \/ Fails(c) /\ c.id \notin {"GET_SWV", "SET_RUN_APP", "RESET_SYSTEM"}
  \/ GoesOn(Again(c) \o queue) /\ c.id = "START" /\ o.result = "UNSAVED"
       /\ "START_RETRY" \notin c.flags
  \/ GoesOn(Tail(queue)) /\ c.id = "SET_RUN_APP" /\ queue # <<>>
       /\ Head(queue).id = "MODE_WAIT"
  \/ Dropped /\ c.id \in {"GET_SWV", "RESET_SYSTEM"}

LEMMA DoneQueue ==
  ASSUME TypeOK, NEW c \in WireCommand, NEW o, OnDone(c, o)
  PROVE  DoneStep(c, o) /\ (mode'.waiting => mode.waiting)
  <1>1. c.id \in WireIds /\ mode \in ModeType
    BY DEF WireCommand, TypeOK, ControlOK
  <1>2. CASE c.id = "GET_SWV"
    <2>1. GetSwvDone(c, o) BY <1>2 DEF OnDone
    <2>2. mode'.waiting => mode.waiting
      BY <1>1, <2>1 DEF GetSwvDone, EnterBackoff, ModeType
    <2> QED BY <1>2, <2>1, <2>2
            DEF GetSwvDone, EnterBackoff, DoneStep, GoesOn, Dropped
  <1>3. CASE c.id = "GET_GROUP"
    <2>1. GetGroupDone(c, o) BY <1>3 DEF OnDone
    <2>2. op' = op /\ mode' = mode BY <2>1 DEF GetGroupDone
    <2>3. PICK g \in c.groups :
            IF o.result = "OK" THEN GetApplied(g, o.val) ELSE GetFailed(c, g, o.result)
      BY <2>1 DEF GetGroupDone
    <2>4. \/ OpFailed(c)
          \/ queue' = queue /\ task' \in {task, [task EXCEPT !.readOk = @ \cup {g}]}
      BY <2>3 DEF GetApplied, GetFailed
    <2>5. CASE OpFailed(c) BY <1>3, <2>2, <2>5, FailsOrNot DEF DoneStep
    <2>6. CASE queue' = queue /\ task' \in {task, [task EXCEPT !.readOk = @ \cup {g}]}
      BY <2>2, <2>6, SameFailing DEF DoneStep, GoesOn
    <2> QED BY <2>2, <2>4, <2>5, <2>6
  <1>4. CASE c.id = "SET_GROUP"
    <2>1. SetGroupDone(c, o) BY <1>4 DEF OnDone
    <2>2. op' = op /\ mode' = mode BY <2>1 DEF SetGroupDone
    <2>3. \/ OpFailed(c)
          \/ queue' = queue /\ task' \in {[task EXCEPT !.setOk = @ \cup c.groups],
               [task EXCEPT !.setFail = @ \cup c.groups, !.error = TRUE]}
      BY <2>1 DEF SetGroupDone
    <2>4. CASE OpFailed(c) BY <1>4, <2>2, <2>4, FailsOrNot DEF DoneStep
    <2>5. CASE queue' = queue /\ task' \in {[task EXCEPT !.setOk = @ \cup c.groups],
               [task EXCEPT !.setFail = @ \cup c.groups, !.error = TRUE]}
      BY <2>2, <2>5, SameFailing DEF DoneStep, GoesOn
    <2> QED BY <2>2, <2>3, <2>4, <2>5
  <1>5. CASE c.id = "SET_RUN_APP"
    <2>1. SetRunAppDone(c, o) BY <1>5 DEF OnDone
    <2>2. mode'.waiting => mode.waiting
      BY <1>1, <2>1 DEF SetRunAppDone, ModeType
    <2>3. op' = op /\ task' \in {task, [task EXCEPT !.error = TRUE]}
      BY <2>1 DEF SetRunAppDone, SetError
    <2>4. \/ queue' = queue
          \/ queue' = Tail(queue) /\ queue # <<>> /\ Head(queue).id = "MODE_WAIT"
      BY <2>1 DEF SetRunAppDone
    <2> QED BY <1>5, <2>2, <2>3, <2>4, SameFailing DEF DoneStep, GoesOn
  <1>6. CASE c.id = "STOP"
    <2>1. StopDone(c, o) BY <1>6 DEF OnDone
    <2>2. op' = op /\ mode' = mode BY <2>1 DEF StopDone
    <2>3. OpFailed(c) \/ UNCHANGED <<queue, task>> BY <2>1 DEF StopDone
    <2> QED BY <1>6, <2>2, <2>3, FailsOrNot DEF DoneStep, GoesOn
  <1>7. CASE c.id = "START"
    <2>1. StartDone(c, o) BY <1>7 DEF OnDone
    <2>2. op' = op /\ mode' = mode BY <2>1 DEF StartDone
    <2>3. \/ OpFailed(c)
          \/ queue' = queue /\ task' \in {task, [task EXCEPT !.error = TRUE]}
          \/ /\ queue' = Again(c) \o queue /\ task' = task
             /\ o.result = "UNSAVED" /\ "START_RETRY" \notin c.flags
      BY <2>1 DEF StartDone, SetError, Again
    <2> QED BY <1>7, <2>2, <2>3, FailsOrNot, SameFailing DEF DoneStep, GoesOn
  <1>8. CASE c.id = "SAVE"
    <2>1. SaveDone(c, o) BY <1>8 DEF OnDone
    <2>2. op' = op /\ mode' = mode BY <2>1 DEF SaveDone
    <2>3. \/ OpFailed(c)
          \/ queue' = queue /\ task' \in {task, [task EXCEPT !.error = TRUE],
               [task EXCEPT !.saveError = TRUE]}
      BY <2>1 DEF SaveDone, SetError
    <2> QED BY <1>8, <2>2, <2>3, FailsOrNot, SameFailing DEF DoneStep, GoesOn
  <1>9. CASE c.id = "RESET_CFG"
    <2>1. ResetCfgDone(c, o) BY <1>9 DEF OnDone
    <2>2. op' = op /\ mode' = mode BY <2>1 DEF ResetCfgDone
    <2>3. \/ OpFailed(c)
          \/ queue' = queue /\ task' \in {task, [task EXCEPT !.error = TRUE]}
      BY <2>1 DEF ResetCfgDone, SetError
    <2> QED BY <1>9, <2>2, <2>3, FailsOrNot, SameFailing DEF DoneStep, GoesOn
  <1>10. CASE c.id = "RESET_SYSTEM"
    <2>1. ResetSystemDone(c, o) BY <1>10 DEF OnDone
    <2>2. mode'.waiting => mode.waiting
      BY <1>1, <2>1 DEF ResetSystemDone, ModeType
    <2> QED BY <1>10, <2>1, <2>2 DEF ResetSystemDone, DoneStep, Dropped
  <1> QED BY <1>1, <1>2, <1>3, <1>4, <1>5, <1>6, <1>7, <1>8, <1>9, <1>10 DEF WireIds

\* Operations with a command that may fail end in the error path.
LEMMA AllowedFail ==
  ASSUME NEW o, NEW id \in WireIds \cap Allowed(o),
         id \notin {"GET_SWV", "SET_RUN_APP", "RESET_SYSTEM"}
  PROVE  {"START", "SAVE", "FAIL_END"} \subseteq Allowed(o)
  BY DEF Allowed, WireIds

LEMMA AgainType ==
  ASSUME NEW c \in Command
  PROVE  /\ Again(c) \in Seq(Command) /\ Ids(Again(c)) = {"SAVE", "START"}
         /\ c \in Proper => Again(c) \in Seq(Proper)
  <1> DEFINE a == Cmd("SAVE", 1, {})
             b == Cmd("START", 1, c.flags \cup {"START_RETRY"})
  <1>1. c.flags \cup {"START_RETRY"} \in SUBSET Flags BY DEF Command, Flags
  <1>2. a \in Command /\ b \in Command BY <1>1, CmdType, RetriesType DEF WireIds
  <1>3. a.id = "SAVE" /\ b.id = "START" BY DEF Cmd
  <1>4. a \in Proper /\ (c \in Proper => b \in Proper)
    BY <1>2 DEF Proper, Cmd
  <1> HIDE DEF a, b
  <1>5. Len(<<a, b>>) = 2 /\ <<a, b>>[1] = a /\ <<a, b>>[2] = b OBVIOUS
  <1>6. Ids(<<a, b>>) = {"SAVE", "START"}
    <2>1. \A i \in 1..2 : i = 1 \/ i = 2 OBVIOUS
    <2> QED BY <1>3, <1>5, <2>1 DEF Ids
  <1> QED BY <1>2, <1>4, <1>6 DEF Again, a, b

LEMMA OrderDone ==
  ASSUME TypeOK, OrderInv, fly # Nil, NEW o, Complete(fly, o),
         o.result = "MALFORMED" => fly.id = "GET_GROUP"
  PROVE  OrderInv'
  <1> DEFINE f == fly
  <1>1. /\ f \in WireCommand /\ f \in Command /\ f.id \in WireIds
        /\ queue \in Seq(Command) /\ task.failing \in BOOLEAN
        /\ mode.waiting \in BOOLEAN
    BY DEF TypeOK, WireOK, ControlOK, WireCommand, TaskType, ModeType
  <1>2. Orderly(queue, f, op, task.failing, mode.waiting) BY DEF OrderInv
  <1>3. /\ Orderly(queue, Nil, op, task.failing, FALSE)
        /\ ~mode.waiting /\ f.id \in Allowed(op)
    BY <1>2, OrderlyDone
  <1>4. fly' = Nil BY DEF Complete
  <1>5. f.id \notin {"STOP", "SET_GROUP"} => Ids(queue) \cap Ordering = {}
    BY <1>2, CalmBehind
  <1>6. ~task.failing => f \in Proper BY <1>2 DEF Orderly
  <1>7. CASE o.result = "MALFORMED" /\ "REPARSE" \notin f.flags
    <2> DEFINE again == [f EXCEPT !.flags = @ \cup {"REPARSE"}]
    <2>1. queue' = <<again>> \o queue /\ UNCHANGED <<op, task, mode>>
      BY <1>7 DEF Complete
    <2>2. f.id = "GET_GROUP" BY <1>7
    <2>3. /\ again \in Command /\ again.id = "GET_GROUP"
          /\ f \in Proper => again \in Proper
      BY <1>1, <2>2 DEF Command, Flags, Proper
    <2>4. ~task.failing BY <1>2, <2>2 DEF Orderly, Left
    <2> HIDE DEF again
    <2>5. <<again>> \in Seq(Command) /\ Ids(<<again>>) = {"GET_GROUP"}
            /\ <<again>> \in Seq(Proper)
      BY <1>6, <2>3, <2>4, IdsOne
    <2>6. Ids(<<again>>) \cap Ordering = {} /\ Ids(queue) \cap Ordering = {}
      BY <1>5, <2>2, <2>5 DEF Ordering, Work
    <2>7. Ids(<<again>>) \subseteq Allowed(op) /\ "FIRST_READ" \notin Ids(<<again>>)
      BY <1>3, <2>2, <2>5
    <2>8. Orderly(<<again>> \o queue, Nil, op, task.failing, FALSE)
      BY <1>1, <1>3, <2>4, <2>5, <2>6, <2>7, OrderlyAgain
    <2>9. op' = op /\ task' = task /\ mode' = mode BY <2>1
    <2>10. mode.waiting = FALSE BY <1>1, <1>3
    <2> QED BY <1>4, <2>1, <2>8, <2>9, <2>10 DEF OrderInv
  <1>8. CASE ~(o.result = "MALFORMED" /\ "REPARSE" \notin f.flags)
    <2>1. OnDone(f, o) BY <1>8 DEF Complete
    <2>2. DoneStep(f, o) /\ mode'.waiting = FALSE
      <3>1. DoneStep(f, o) /\ (mode'.waiting => mode.waiting) BY <1>1, <2>1, DoneQueue
      <3> QED BY <1>3, <3>1
    <2>3. CASE GoesOn(queue) BY <1>3, <1>4, <2>2, <2>3 DEF GoesOn, OrderInv
    <2>4. CASE Fails(f) /\ f.id \notin {"GET_SWV", "SET_RUN_APP", "RESET_SYSTEM"}
      <3>1. {"START", "FAIL_END"} \subseteq Allowed(op)
        BY <1>1, <1>3, <2>4, AllowedFail
      <3>2. Orderly(FailQueue(f), Nil, op, TRUE, FALSE) BY <3>1, OrderlyFail
      <3> QED BY <1>4, <2>2, <2>4, <3>2 DEF Fails, OrderInv
    <2>5. CASE GoesOn(Again(f) \o queue) /\ f.id = "START"
      <3>1. /\ Again(f) \in Seq(Command) /\ Ids(Again(f)) = {"SAVE", "START"}
            /\ ~task.failing => Again(f) \in Seq(Proper)
        BY <1>1, <1>6, AgainType
      <3>2. {"SAVE", "START"} \subseteq Allowed(op)
        BY <1>1, <1>3, <2>5, AllowedFail
      <3>3. "FIRST_READ" \notin Ids(queue) BY <1>2, <2>5, <1>4, NilAssumption DEF Orderly, Left
      <3>4. Ids(Again(f)) \cap Ordering = {} /\ Ids(queue) \cap Ordering = {}
        BY <1>5, <2>5, <3>1 DEF Ordering, Work
      <3>5. /\ Ids(Again(f)) \subseteq {"START", "SAVE"} /\ "FIRST_READ" \notin Ids(Again(f))
            /\ Ids(Again(f)) \subseteq Allowed(op)
        BY <3>1, <3>2
      <3> HIDE DEF f
      <3>6. Orderly(Again(f) \o queue, Nil, op, task.failing, FALSE)
        BY <1>1, <1>3, <3>1, <3>3, <3>4, <3>5, OrderlyAgain
      <3> QED BY <1>4, <2>2, <2>5, <3>6 DEF GoesOn, OrderInv
    <2>6. CASE GoesOn(Tail(queue)) /\ f.id = "SET_RUN_APP" /\ queue # <<>>
                 /\ Head(queue).id = "MODE_WAIT"
      <3>1. Orderly(Tail(queue), Nil, op, task.failing, FALSE)
        BY <1>1, <1>3, <2>6, OrderlyTail
      <3> QED BY <1>4, <2>2, <2>6, <3>1 DEF GoesOn, OrderInv
    <2>7. CASE Dropped /\ f.id \in {"GET_SWV", "RESET_SYSTEM"}
      <3>1. ~task.failing BY <1>2, <2>7 DEF Orderly, Left
      <3>2. task'.failing = FALSE BY <1>1, <2>7, <3>1 DEF Dropped
      <3> QED BY <1>4, <2>2, <2>7, <3>2, OrderlyNone DEF Dropped, OrderInv
    <2> QED BY <2>2, <2>3, <2>4, <2>5, <2>6, <2>7 DEF DoneStep
  <1> QED BY <1>7, <1>8

-----------------------------------------------------------------------------
(* Pieces of the queues that schedule_() builds.                           *)

\* Commands that schedule_() queues: none is a repeated start.
Fresh == {c \in Proper : "START_RETRY" \notin c.flags}

LEMMA FreshCmd ==
  ASSUME NEW id \in WireIds \cup Markers, NEW n \in 0..Retries,
         NEW fs \in SUBSET Flags, {"FAILURE_PATH", "START_RETRY"} \cap fs = {}
  PROVE  Cmd(id, n, fs) \in Fresh /\ <<Cmd(id, n, fs)>> \in Seq(Fresh)
  BY CmdType DEF Fresh, Proper, Cmd

LEMMA FreshMarker ==
  ASSUME NEW id \in Markers
  PROVE  Marker(id) \in Seq(Fresh) /\ Ids(Marker(id)) = {id} /\ id \notin Ordering
  BY FreshCmd, RetriesType, IdsMarker DEF Marker, Markers, EndMarkers, Ordering, Work

LEMMA FreshStop == Stop \in Seq(Fresh)
  BY FreshCmd, RetriesType DEF Stop, WireIds

LEMMA FreshStart ==
  ASSUME NEW fs \in SUBSET Flags, {"FAILURE_PATH", "START_RETRY"} \cap fs = {}
  PROVE  Start(fs) \in Seq(Fresh)
  BY FreshCmd, RetriesType DEF Start, WireIds

\* A batch of gets or sets is one command, or none.
LEMMA FreshBatch ==
  ASSUME NEW id \in {"GET_GROUP", "SET_GROUP"}, NEW gs \in SUBSET Groups,
         NEW n \in 0..Retries
  PROVE  /\ Batch(id, gs, n) \in Seq(Fresh)
         /\ gs # {} => \E c \in Fresh : c.id = id /\ Batch(id, gs, n) = <<c>>
  <1> DEFINE c == [Cmd(id, n, {}) EXCEPT !.groups = gs]
  <1>1. c \in Fresh /\ c.id = id BY DEF Cmd, Command, Fresh, Proper, WireIds
  <1>2. gs # {} => Batch(id, gs, n) = <<c>> BY DEF Batch
  <1>3. gs = {} => Batch(id, gs, n) = <<>> BY DEF Batch
  <1> HIDE DEF c
  <1>4. <<>> \in Seq(Fresh) /\ <<c>> \in Seq(Fresh) BY <1>1
  <1>5. Batch(id, gs, n) \in Seq(Fresh) BY <1>2, <1>3, <1>4
  <1>6. gs # {} => \E d \in Fresh : d.id = id /\ Batch(id, gs, n) = <<d>>
    BY <1>1, <1>2
  <1> QED BY <1>5, <1>6

LEMMA FreshGets ==
  ASSUME NEW gs \in SUBSET Groups
  PROVE  Gets(gs) \in Seq(Fresh) /\ Ids(Gets(gs)) \cap Ordering = {}
  <1>1. /\ Batch("GET_GROUP", gs \ Probe, Retries) \in Seq(Fresh)
        /\ Batch("GET_GROUP", gs \cap Probe, 0) \in Seq(Fresh)
    BY FreshBatch, RetriesType
  <1>2. Gets(gs) \in Seq(Fresh) BY <1>1, ConcatProperties DEF Gets
  <1> QED BY <1>2, IdsGets DEF Ordering, Work

LEMMA FreshReadBack ==
  ASSUME NEW gs \in SUBSET Groups
  PROVE  ReadBack(gs) \in Seq(Fresh) /\ Ids(ReadBack(gs)) \cap Ordering = {}
  <1> DEFINE start == IF belief.userStopped THEN <<>> ELSE Start({})
             gets == Gets(Readable(gs))
  <1>1. start \in Seq(Fresh) BY FreshStart
  <1>2. gets \in Seq(Fresh) BY FreshGets, ReadableType
  <1>3. ReadBack(gs) \in {gets \o start, start \o gets} BY DEF ReadBack
  <1> HIDE DEF start, gets
  <1>4. ReadBack(gs) \in Seq(Fresh) BY <1>1, <1>2, <1>3, ConcatProperties
  <1> QED BY <1>4, IdsReadBack DEF Ordering, Work

\* A queue q of operation o, so far.
Begun(q, o) ==
  /\ q \in Seq(Fresh) /\ q # <<>> /\ StopFirst(q) /\ Ids(q) \subseteq Allowed(o)
  /\ "FIRST_READ" \notin Ids(q)

LEMMA SeqFresh == Seq(Fresh) \subseteq Seq(Proper) /\ Seq(Fresh) \subseteq Seq(Command)
  <1>1. Fresh \subseteq Proper BY DEF Fresh
  <1> QED BY <1>1, SeqMonotonic, ProperCommand

LEMMA BegunWith ==
  ASSUME NEW q \in Seq(Fresh), NEW o, q # <<>>, Ids(q) \subseteq Allowed(o),
         Ids(q) \cap Ordering = {}, "FIRST_READ" \notin Ids(q)
  PROVE  Begun(q, o)
  BY SeqFresh, CalmFirst DEF Begun

LEMMA BegunStop ==
  ASSUME NEW o, "STOP" \in Allowed(o) PROVE Begun(Stop, o)
  BY FreshStop, StopFirstStop DEF Begun

LEMMA BegunAnd ==
  ASSUME NEW q, NEW o, Begun(q, o), NEW r \in Seq(Fresh),
         Ids(r) \subseteq Allowed(o), Ids(r) \cap Ordering = {},
         "FIRST_READ" \notin Ids(r)
  PROVE  Begun(q \o r, o)
  <1>1. q \in Seq(Fresh) /\ q \in Seq(Command) /\ r \in Seq(Command)
    BY SeqFresh DEF Begun
  <1>2. q \o r \in Seq(Fresh) /\ q \o r # <<>>
    BY <1>1, ConcatTail DEF Begun
  <1>3. Ids(q \o r) = Ids(q) \cup Ids(r) BY <1>1, IdsConcat
  <1>4. StopFirst(q \o r) BY <1>1, AppendFirst DEF Begun
  <1> DEFINE s == q \o r
  <1> HIDE DEF s
  <1>5. Begun(s, o) BY <1>2, <1>3, <1>4 DEF Begun, s
  <1> QED BY <1>5 DEF s

LEMMA BegunOrderly ==
  ASSUME NEW q, NEW o, Begun(q, o) PROVE Orderly(q, Nil, o, FALSE, FALSE)
  BY OrderlyNew, SeqFresh DEF Begun

\* A stop with one command of work behind it.
LEMMA BegunWork ==
  ASSUME NEW c \in Fresh, c.id \in Work, NEW o, {"STOP", c.id} \subseteq Allowed(o)
  PROVE  Begun(Stop \o <<c>>, o)
  <1>1. c \in Command /\ <<c>> \in Seq(Fresh) /\ <<c>> \in Seq(Command)
    BY ProperCommand DEF Fresh
  <1>2. StopFirst(Stop \o <<c>>) BY <1>1, StopFirstStop
  <1>3. Stop \o <<c>> \in Seq(Fresh) /\ Stop \o <<c>> # <<>>
    BY <1>1, FreshStop, StopFirstStop, ConcatTail
  <1>4. Ids(Stop \o <<c>>) = Ids(Stop) \cup Ids(<<c>>) BY <1>1, StopType, IdsConcat
  <1>5. Ids(<<c>>) = {c.id} BY IdsOne
  <1> QED BY <1>2, <1>3, <1>4, <1>5, IdsStop DEF Begun, Work

-----------------------------------------------------------------------------
(* Every step keeps the queue in order.                                    *)

\* A step queues a new operation, or leaves the queue alone.
NewQueue ==
  Begun(queue', op') /\ fly' = Nil /\ task'.failing = FALSE /\ mode'.waiting = FALSE
SameQueue ==
  /\ UNCHANGED <<op, queue, fly>>
  /\ task'.failing = task.failing /\ mode'.waiting = mode.waiting

LEMMA OrderInit == ASSUME Init PROVE OrderInv
  BY OrderlyNone DEF Init, OrderInv, BootTask, BootMode

LEMMA OrderFrame ==
  ASSUME OrderInv, UNCHANGED <<op, queue, fly>>, task'.failing = task.failing,
         mode'.waiting = mode.waiting
  PROVE  OrderInv'
  BY DEF OrderInv

LEMMA OrderOver ==
  ASSUME op' = "NONE", queue' = <<>>, fly' = Nil, task'.failing = FALSE,
         mode'.waiting = FALSE
  PROVE  OrderInv'
  BY OrderlyNone DEF OrderInv

LEMMA OrderBegun ==
  ASSUME Begun(queue', op'), fly' = Nil, task'.failing = FALSE, mode'.waiting = FALSE
  PROVE  OrderInv'
  BY BegunOrderly DEF OrderInv

\* Between operations, and at the marker that ends one, nothing has failed.
LEMMA OrderIdle ==
  ASSUME TypeOK, EndInv, OrderInv, Dry, op = "NONE"
  PROVE  task.failing = FALSE /\ mode.waiting = FALSE /\ fly = Nil
  BY IdsEmpty DEF TypeOK, ControlOK, TaskType, ModeType, EndInv, OrderInv, Orderly, Dry

LEMMA OrderMarker ==
  ASSUME TypeOK, EndInv, OrderInv, NEW id \in EndMarkers \ {"FAIL_END"}, AtMarker(id)
  PROVE  /\ task.failing = FALSE /\ mode.waiting = FALSE /\ fly = Nil
         /\ Tail(queue) = <<>> /\ Ids(queue) = {id} /\ id \in EndsOf(op)
  <1>1. /\ Tail(queue) = <<>> /\ fly = Nil /\ ~mode.waiting /\ id \in EndsOf(op)
    BY AheadMarker
  <1>2. queue # <<>> /\ Head(queue).id = id BY DEF AtMarker
  <1>3. Ids(queue) = {id}
    BY <1>1, <1>2, IdsHead, IdsEmpty DEF TypeOK, ControlOK
  <1>4. task.failing \in BOOLEAN /\ mode.waiting \in BOOLEAN
    BY DEF TypeOK, ControlOK, TaskType, ModeType
  <1>5. ~task.failing
    BY <1>3 DEF OrderInv, Orderly
  <1> QED BY <1>1, <1>3, <1>4, <1>5

LEMMA OrderUser == ASSUME TypeOK, OrderInv, UserNext PROVE OrderInv'
  <1>1. CASE EspReboot
    BY <1>1, OrderlyNone DEF EspReboot, OrderInv, BootTask, BootMode
  <1>2. CASE ~EspReboot
    <2>1. task \in TaskType /\ mode \in ModeType BY DEF TypeOK, ControlOK
    <2>2. UNCHANGED <<op, queue, fly>>
      BY <1>2 DEF UserNext, SetDesired, SetWorkMode, RequestRefresh, RequestRestart,
                  RequestFactoryReset, RequestRunning, Request, RadarPowerCycle
    <2>3. task' \in {task, [task EXCEPT !.error = TRUE]}
      BY <1>2 DEF UserNext, SetDesired, SetWorkMode, RequestRefresh, RequestRestart,
                  RequestFactoryReset, RequestRunning, Request, RadarPowerCycle
    <2>4. \/ mode' = mode \/ mode' = [mode EXCEPT !.shown = mode.reported]
          \/ \E m \in Modes : mode' = [mode EXCEPT !.want = m, !.shown = m]
      BY <1>2 DEF UserNext, SetDesired, SetWorkMode, RequestRefresh, RequestRestart,
                  RequestFactoryReset, RequestRunning, Request, RadarPowerCycle
    <2>5. mode'.waiting = mode.waiting BY <2>1, <2>4 DEF ModeType
    <2>6. task'.failing = task.failing BY <2>3, SameFailing
    <2> QED BY <2>2, <2>5, <2>6, OrderFrame
  <1> QED BY <1>1, <1>2

LEMMA OrderSend == ASSUME TypeOK, OrderInv, Send PROVE OrderInv'
  <1> DEFINE h == Head(queue)
             g == CHOOSE g \in h.groups : TRUE
             one == [h EXCEPT !.groups = {g}]
             more == [h EXCEPT !.groups = @ \ {g}]
             rest == IF h.groups = {} \/ h.groups = {g} THEN <<>> ELSE <<more>>
  <1>1. /\ queue \in Seq(Command) /\ queue # <<>> /\ h \in Command
        /\ Tail(queue) \in Seq(Command) /\ task.failing \in BOOLEAN
        /\ mode.waiting = FALSE /\ fly = Nil /\ h.id \notin Markers
    BY DEF Send, Draining, TypeOK, ControlOK, TaskType, ModeType
  <1>2. UNCHANGED <<op, task, mode>> BY DEF Send
  <1>3. /\ h.groups # {} => g \in h.groups /\ g \in Groups
        /\ h.groups \in SUBSET Groups
    BY <1>1 DEF Command
  <1>4. /\ one \in Command \/ h.groups = {}
        /\ one.id = h.id /\ one.flags = h.flags /\ one.groups = {g}
        /\ more \in Command /\ more.id = h.id /\ more.flags = h.flags
    <2> HIDE DEF g, h
    <2> QED BY <1>1, <1>3 DEF Command
  <1>5. queue' = rest \o Tail(queue)
    <2>1. CASE h.groups = {}
      <3>1. queue' = Tail(queue) BY <2>1 DEF Send
      <3> QED BY <1>1, <2>1, <3>1, ConcatEmptySeq
    <2>2. CASE h.groups # {} BY <2>2 DEF Send
    <2> QED BY <2>1, <2>2
  <1>6. /\ fly' \in Command /\ fly'.id = h.id /\ fly'.flags = h.flags
        /\ fly'.groups # {} => h.groups # {}
    BY <1>1, <1>4 DEF Send
  <1>7. Orderly(queue, Nil, op, task.failing, FALSE) BY <1>1 DEF OrderInv
  <1> HIDE DEF one, more, g
  <1>8. \/ rest = <<>>
        \/ \E c \in Command : rest = <<c>> /\ c.id = fly'.id /\ c.flags = fly'.flags
                                /\ h.groups # {}
    BY <1>4, <1>6
  <1> HIDE DEF rest
  <1>9. Orderly(rest \o Tail(queue), fly', op, task.failing, FALSE)
    BY <1>1, <1>6, <1>7, <1>8, OrderlySend
  <1> QED BY <1>1, <1>2, <1>5, <1>9 DEF OrderInv

LEMMA OrderTimeout == ASSUME TypeOK, OrderInv, Timeout PROVE OrderInv'
  <1>1. fly # Nil /\ fly \in WireCommand /\ fly \in Command
    BY DEF Timeout, TypeOK, WireOK, WireCommand
  <1>2. CASE fly.id \notin NoReply /\ fly.retries > 0
    <2>1. fly' = [fly EXCEPT !.retries = @ - 1] /\ UNCHANGED <<op, queue, task, mode>>
      BY <1>2 DEF Timeout
    <2>2. fly' \in Command /\ fly'.id = fly.id /\ (fly \in Proper => fly' \in Proper)
      BY <1>1, <1>2, <2>1, RetriesType DEF Command, Proper
    <2>3. fly' # Nil BY <2>2, NilAssumption
    <2> QED BY <1>1, <2>1, <2>2, <2>3 DEF OrderInv, Orderly, Left
  <1>3. CASE ~(fly.id \notin NoReply /\ fly.retries > 0)
    <2>1. PICK r \in {"OK", "TIMEOUT"} : Complete(fly, Out(radar, r))
      BY <1>3 DEF Timeout
    <2>2. Out(radar, r).result # "MALFORMED" BY DEF Out
    <2> QED BY <1>1, <2>1, <2>2, OrderDone
  <1> QED BY <1>2, <1>3

\* Only the answer to a get is ever unreadable.
LEMMA MalformedGet ==
  ASSUME TypeOK, NEW c \in WireCommand, NEW o \in Outcomes(c), o.result = "MALFORMED"
  PROVE  c.id = "GET_GROUP"
  <1>1. c.id \in WireIds BY DEF WireCommand
  <1>2. c.id # "SET_GROUP"
    <2>1. SUFFICES ASSUME c.id = "SET_GROUP" PROVE FALSE OBVIOUS
    <2>2. PICK g \in Groups : o \in SetOutcomes(g)
      BY <2>1 DEF Outcomes, WireCommand, Command
    <2> QED BY <2>2, SetFields DEF TypeOK, WireOK
  <1>3. c.id \notin {"GET_SWV", "STOP", "RESET_SYSTEM"} BY DEF Outcomes, Out
  <1>4. c.id # "START" BY DEF Outcomes, StartOutcomes, Out
  <1>5. c.id \notin {"SAVE", "RESET_CFG", "SET_RUN_APP"}
    BY SaveFields, ResetCfgFields, SetRunAppFields DEF Outcomes, TypeOK, WireOK
  <1> QED BY <1>1, <1>2, <1>3, <1>4, <1>5 DEF WireIds

LEMMA LearntWaiting ==
  ASSUME TypeOK, NEW m
  PROVE  LearntMode(m).waiting = mode.waiting
  BY DEF LearntMode, TypeOK, ControlOK, ModeType

LEMMA OrderWire == ASSUME TypeOK, OrderInv, WireNext PROVE OrderInv'
  <1>1. CASE Send BY <1>1, OrderSend
  <1>2. CASE Answer
    <2>1. PICK o \in Outcomes(fly) : Complete(fly, o) BY <1>2 DEF Answer
    <2>2. fly # Nil /\ fly \in WireCommand BY <1>2 DEF Answer, TypeOK, WireOK
    <2> QED BY <2>1, <2>2, MalformedGet, OrderDone
  <1>3. CASE CarriedOut \/ CommandLost
    BY <1>3, OrderFrame DEF CarriedOut, CommandLost
  <1>4. CASE Timeout BY <1>4, OrderTimeout
  <1>5. CASE Sentence
    <2>1. mode' \in {mode, LearntMode(radar.app)} BY <1>5 DEF Sentence
    <2>2. mode'.waiting = mode.waiting BY <2>1, LearntWaiting
    <2> QED BY <1>5, <2>2, OrderFrame DEF Sentence
  <1> QED BY <1>1, <1>2, <1>3, <1>4, <1>5 DEF WireNext

LEMMA FirstReadQueue == ASSUME TypeOK, EndInv, OrderInv, FirstRead PROVE NewQueue
  <1> DEFINE some == Gets(Readable(Groups \ {RangeGroup}))
             all == Gets(Readable(Groups))
             recovery == IF RecoveryStart THEN Start({"RECOVERY"}) ELSE <<>>
             start == IF belief.userStopped THEN <<>> ELSE Start({})
             end == Marker("READ_END")
  <1>1. /\ task.failing = FALSE /\ mode.waiting = FALSE /\ fly = Nil
        /\ Tail(queue) = <<>> /\ "FIRST_READ" \in EndsOf(op)
    BY OrderMarker DEF FirstRead, EndMarkers
  <1>2. op = "BOOT_READ" BY <1>1 DEF EndsOf
  <1>3. /\ some \in Seq(Fresh) /\ all \in Seq(Fresh) /\ end \in Seq(Fresh)
        /\ Ids(some) \subseteq {"GET_GROUP"} /\ Ids(all) \subseteq {"GET_GROUP"}
        /\ Ids(end) = {"READ_END"} /\ end # <<>>
    BY FreshGets, IdsGets, ReadableType, FreshMarker DEF Markers, EndMarkers, Marker
  <1>4. /\ recovery \in Seq(Fresh) /\ start \in Seq(Fresh)
        /\ Ids(recovery) \subseteq {"START"} /\ Ids(start) \subseteq {"START"}
    <2>1. Start({"RECOVERY"}) \in Seq(Fresh) /\ Start({}) \in Seq(Fresh)
      BY FreshStart DEF Flags
    <2> QED BY <2>1, IdsStart, IdsEmpty
  <1>5. \/ queue' = <<>> \o some \o recovery \o end
        \/ queue' = <<>> \o Stop \o all \o start \o end
    BY <1>1 DEF FirstRead
  <1>6. <<>> \o some = some /\ <<>> \o Stop = Stop
    BY <1>3, FreshStop, ConcatEmptySeq
  <1>7. {"GET_GROUP", "START", "STOP", "READ_END"} \subseteq Allowed(op)
    BY <1>2 DEF Allowed
  <1> HIDE DEF some, all, recovery, start, end
  <1>8. Begun(queue', op)
    <2>1. CASE queue' = some \o recovery \o end
      <3> DEFINE p == some \o recovery
      <3>1. p \in Seq(Fresh) /\ Ids(p) \subseteq {"GET_GROUP", "START"}
        BY <1>3, <1>4, ConcatProperties, SeqFresh, IdsConcat
      <3> HIDE DEF p
      <3>2. p \o end \in Seq(Fresh) /\ Ids(p \o end) \subseteq {"GET_GROUP", "START", "READ_END"}
        BY <1>3, <3>1, ConcatProperties, SeqFresh, IdsConcat
      <3>3. p \o end # <<>>
        <4>1. "READ_END" \in Ids(p \o end) BY <1>3, <3>1, SeqFresh, IdsConcat
        <4> QED BY <4>1, IdsEmpty
      <3> QED BY <1>7, <2>1, <3>2, <3>3, BegunWith DEF p, Ordering, Work
    <2>2. CASE queue' = Stop \o all \o start \o end
      <3>1. Begun(Stop, op) BY <1>7, BegunStop
      <3>2. Begun(Stop \o all, op)
        BY <1>3, <1>7, <3>1, BegunAnd DEF Ordering, Work
      <3>3. Begun(Stop \o all \o start, op)
        BY <1>4, <1>7, <3>2, BegunAnd DEF Ordering, Work
      <3>4. Begun(Stop \o all \o start \o end, op)
        BY <1>3, <1>7, <3>3, BegunAnd DEF Ordering, Work
      <3> QED BY <2>2, <3>4
    <2> QED BY <1>5, <1>6, <2>1, <2>2
  <1>9. op' = op /\ fly' = fly /\ task'.failing = task.failing /\ mode'.waiting = mode.waiting
    BY DEF FirstRead, TypeOK, ControlOK, TaskType, ModeType
  <1> QED BY <1>1, <1>8, <1>9 DEF NewQueue

LEMMA OrderFirstRead == ASSUME TypeOK, EndInv, OrderInv, FirstRead PROVE OrderInv'
  BY FirstReadQueue, OrderBegun DEF NewQueue

LEMMA OrderProbeDone == ASSUME TypeOK, EndInv, OrderInv, ProbeDone PROVE OrderInv'
  <1> DEFINE p == Gets({RangeGroup})
             end == Marker("FIRST_READ")
  <1>1. mode.waiting = FALSE /\ fly = Nil /\ Tail(queue) = <<>>
    BY OrderMarker DEF ProbeDone, EndMarkers
  <1>2. /\ p \in Seq(Fresh) /\ Ids(p) \subseteq {"GET_GROUP"}
        /\ end \in Seq(Fresh) /\ Ids(end) = {"FIRST_READ"}
    <2>1. {RangeGroup} \in SUBSET Groups BY GroupAssumption
    <2>2. "FIRST_READ" \in Markers BY DEF Markers, EndMarkers
    <2> QED BY <2>1, <2>2, FreshGets, IdsGets, FreshMarker
  <1>3. queue' = <<>> \o p \o end BY <1>1 DEF ProbeDone
  <1> HIDE DEF p, end
  <1>4. queue' = p \o end BY <1>2, <1>3, ConcatEmptySeq
  <1> DEFINE q == p \o end
  <1>5. q \in Seq(Fresh) /\ Ids(q) \subseteq {"GET_GROUP", "FIRST_READ"}
    BY <1>2, ConcatProperties, SeqFresh, IdsConcat
  <1> HIDE DEF q
  <1>6. StopFirst(q) BY <1>5, SeqFresh, CalmFirst DEF Ordering, Work
  <1>7. Orderly(q, Nil, "BOOT_READ", FALSE, FALSE)
    BY <1>5, <1>6, SeqFresh, OrderlyNew DEF Allowed
  <1>8. /\ op' = "BOOT_READ" /\ fly' = fly /\ task'.failing = FALSE
        /\ mode'.waiting = mode.waiting
    BY DEF ProbeDone, TypeOK, ControlOK, TaskType, ModeType
  <1> QED BY <1>1, <1>4, <1>7, <1>8 DEF OrderInv, q

\* The start that follows a mode-switch wait without a report.
LEMMA OrderExpired == ASSUME TypeOK, OrderInv, ModeWaitExpired PROVE OrderInv'
  <1> DEFINE start == <<Cmd("START", 1, {"RECOVERY"})>>
  <1>1. /\ queue \in Seq(Command) /\ task.failing \in BOOLEAN /\ mode.waiting
    BY DEF ModeWaitExpired, TypeOK, ControlOK, TaskType
  <1>2. op = "MODE_SWITCH" /\ fly = Nil /\ Ids(queue) \cap Ordering = {}
    BY <1>1 DEF OrderInv, Orderly
  <1>3. Orderly(queue, Nil, op, task.failing, FALSE)
    BY <1>2 DEF OrderInv, Orderly
  <1>4. start \in Seq(Proper) /\ start \in Seq(Command) /\ Ids(start) = {"START"}
    BY FreshCmd, SeqFresh, CmdType, RetriesType, IdsCmd DEF WireIds, Flags
  <1>5. /\ queue' = start \o queue /\ UNCHANGED <<op, fly, task>>
    BY DEF ModeWaitExpired
  <1>6. mode'.waiting = FALSE
    <2>1. \E m \in {mode, LearntMode("PRESENCE")} : mode' = [m EXCEPT !.waiting = FALSE]
      BY DEF ModeWaitExpired
    <2>2. mode \in ModeType /\ LearntMode("PRESENCE") \in ModeType
      BY LearntType DEF TypeOK, ControlOK, Modes
    <2> QED BY <2>1, <2>2 DEF ModeType
  <1>7. "FIRST_READ" \notin Ids(queue) /\ "START" \in Allowed(op)
    BY <1>2, <1>3 DEF Orderly, Left, Allowed
  <1> HIDE DEF start
  <1>8. Ids(start) \cap Ordering = {} BY <1>4 DEF Ordering, Work
  <1>9. Ids(start) \subseteq Allowed(op) /\ Ids(start) \subseteq {"START", "SAVE"}
          /\ "FIRST_READ" \notin Ids(start)
    BY <1>4, <1>7
  <1>10. Orderly(start \o queue, Nil, op, task.failing, FALSE)
    BY <1>1, <1>2, <1>3, <1>4, <1>7, <1>8, <1>9, OrderlyAgain
  <1>11. op' = op /\ fly' = Nil /\ task' = task BY <1>2, <1>5
  <1> QED BY <1>5, <1>6, <1>10, <1>11 DEF OrderInv

LEMMA OrderDrive == ASSUME TypeOK, EndInv, OrderInv, DriveNext PROVE OrderInv'
  <1>1. /\ mode \in ModeType /\ task \in TaskType /\ queue \in Seq(Command)
        /\ task.failing \in BOOLEAN /\ mode.waiting \in BOOLEAN
    BY DEF TypeOK, ControlOK, TaskType, ModeType
  <1>2. CASE SkipSave
    <2>1. /\ fly = Nil /\ mode.waiting = FALSE /\ queue # <<>>
          /\ Head(queue).id = "SAVE" /\ queue' = Tail(queue)
      BY <1>1, <1>2 DEF SkipSave, Skippable
    <2>2. Orderly(Tail(queue), Nil, op, task.failing, FALSE)
      BY <1>1, <2>1, OrderlyTail DEF OrderInv
    <2> QED BY <1>2, <2>1, <2>2 DEF SkipSave, OrderInv
  <1>3. CASE ProbeDone BY <1>3, OrderProbeDone
  <1>4. CASE FirstRead BY <1>4, OrderFirstRead
  <1>5. ASSUME NEW id \in EndMarkers \ {"FAIL_END"}, AtMarker(id),
               op' = "NONE", queue' = Tail(queue), fly' = fly,
               mode'.waiting = mode.waiting, task'.failing = task.failing
        PROVE  OrderInv'
    <2>1. /\ task.failing = FALSE /\ mode.waiting = FALSE /\ fly = Nil
          /\ Tail(queue) = <<>>
      BY <1>5, OrderMarker
    <2> QED BY <1>5, <2>1, OrderOver
  <1>6. CASE ReadEnd
    <2>1. task'.failing = task.failing BY <1>1, <1>6 DEF ReadEnd, TaskType
    <2> QED BY <1>5, <1>6, <2>1 DEF ReadEnd, EndMarkers
  <1>7. CASE BootReadEnd
    <2>1. PICK silent \in BOOLEAN, reports \in BOOLEAN : FinishBootRead(silent, reports)
      BY <1>7 DEF BootReadEnd
    <2>2. task'.failing = task.failing BY <1>1, <2>1 DEF FinishBootRead, TaskType
    <2>3. mode'.waiting = mode.waiting
      <3>1. PICK m \in {mode, LearntMode("PRESENCE")} :
              mode' = [m EXCEPT
                         !.shown = IF HasModes THEN m.reported ELSE @,
                         !.pending = FALSE, !.rejected = @ /\ ~mode.pending]
        BY <2>1 DEF FinishBootRead
      <3>2. m \in ModeType BY <1>1, LearntType DEF Modes
      <3>3. mode'.waiting = m.waiting BY <3>1, <3>2 DEF ModeType
      <3> QED BY <3>3, LearntWaiting
    <2> QED BY <1>5, <1>7, <2>2, <2>3 DEF BootReadEnd, EndMarkers
  <1>8. CASE TxnEnd
    <2>1. task'.failing = task.failing /\ mode'.waiting = mode.waiting
      BY <1>1, <1>8 DEF TxnEnd, TaskType, ModeType
    <2> QED BY <1>5, <1>8, <2>1 DEF TxnEnd, EndMarkers
  <1>9. CASE RunDone BY <1>5, <1>9 DEF RunDone, EndMarkers
  <1>10. CASE FailEnd
    <2>1. task'.failing = FALSE /\ mode'.waiting = FALSE
      BY <1>1, <1>10 DEF FailEnd, EnterBackoff, TaskType, ModeType
    <2> QED BY <1>10, <2>1, OrderOver DEF FailEnd, EnterBackoff, AtMarker
  <1>11. CASE PingEnd BY <1>5, <1>11 DEF PingEnd, EndMarkers
  <1>12. CASE ModeWait
    <2>1. /\ fly = Nil /\ mode.waiting = FALSE /\ queue # <<>>
          /\ Head(queue).id = "MODE_WAIT" /\ queue' = Tail(queue)
      BY <1>1, <1>12 DEF ModeWait, AtMarker
    <2>2. Orderly(queue, Nil, op, task.failing, FALSE) BY <2>1 DEF OrderInv
    <2>3. "MODE_WAIT" \in Allowed(op)
      BY <1>1, <2>1, <2>2, IdsTail DEF Orderly, Left
    <2>4. op = "MODE_SWITCH" BY <2>3 DEF Allowed
    <2>5. Orderly(Tail(queue), Nil, op, task.failing, TRUE)
      BY <1>1, <2>1, <2>2, <2>4, OrderlyTail
    <2>6. mode'.waiting = TRUE BY <1>1, <1>12 DEF ModeWait, ModeType
    <2> QED BY <1>12, <2>1, <2>5, <2>6 DEF ModeWait, OrderInv
  <1>13. CASE ModeWaitSeen
    <2>1. mode'.waiting = FALSE /\ UNCHANGED <<op, queue, fly, task>>
      BY <1>1, <1>13 DEF ModeWaitSeen, ModeType
    <2> QED BY <2>1 DEF OrderInv, Orderly
  <1>14. CASE ModeWaitExpired BY <1>14, OrderExpired
  <1> QED BY <1>2, <1>3, <1>4, <1>6, <1>7, <1>8, <1>9, <1>10, <1>11, <1>12, <1>13,
             <1>14 DEF DriveNext

LEMMA ScheduleQueue ==
  ASSUME TypeOK, EndInv, OrderInv, ScheduleNext PROVE NewQueue \/ SameQueue
  <1>1. /\ mode \in ModeType /\ task \in TaskType
        /\ task.failing \in BOOLEAN /\ mode.waiting \in BOOLEAN
    BY DEF TypeOK, ControlOK, TaskType, ModeType
  <1>2. CASE StartProbe
    <2> DEFINE p == <<Cmd("GET_SWV", Retries, {})>>
    <2>1. mode.waiting = FALSE /\ fly = Nil
      <3>1. op = "NONE"
        BY <1>2 DEF StartProbe, Dry, EndInv, WellEnded
      <3> QED BY <1>2, <3>1, OrderIdle DEF StartProbe
    <2>2. /\ p \in Seq(Fresh) /\ Ids(p) = {"GET_SWV"} /\ p # <<>>
      BY FreshCmd, RetriesType, IdsCmd DEF WireIds
    <2>3. /\ Marker("PROBE_DONE") \in Seq(Fresh)
          /\ Ids(Marker("PROBE_DONE")) = {"PROBE_DONE"}
      BY FreshMarker DEF Markers, EndMarkers
    <2>4. queue' = p \o Marker("PROBE_DONE") /\ op' = "PROBE" /\ fly' = fly /\ mode' = mode
      BY <1>2 DEF StartProbe
    <2> HIDE DEF p
    <2>5. Begun(p, "PROBE") BY <2>2, BegunWith DEF Allowed, Ordering, Work
    <2>6. Begun(p \o Marker("PROBE_DONE"), "PROBE")
      BY <2>3, <2>5, BegunAnd DEF Allowed, Ordering, Work
    <2>7. task'.failing = FALSE BY <1>1, <1>2 DEF StartProbe, TaskType
    <2> QED BY <2>1, <2>4, <2>6, <2>7 DEF NewQueue
  <1>3. ASSUME Idle PROVE task.failing = FALSE /\ mode.waiting = FALSE /\ fly = Nil
    BY <1>3, OrderIdle DEF Idle
  <1>4. CASE StartRestart
    <2> DEFINE p == <<Cmd("RESET_SYSTEM", 0, {})>>
    <2>1. p \in Seq(Fresh) /\ Ids(p) = {"RESET_SYSTEM"} /\ p # <<>>
      BY FreshCmd, RetriesType, IdsCmd DEF WireIds
    <2>2. queue' = p /\ op' = "RESTART" /\ UNCHANGED <<fly, mode, task>> /\ Idle
      BY <1>4 DEF StartRestart
    <2> HIDE DEF p
    <2>3. Begun(p, "RESTART") BY <2>1, BegunWith DEF Allowed, Ordering, Work
    <2> QED BY <1>3, <2>2, <2>3 DEF NewQueue
  <1>5. CASE FactoryRefused
    <2>1. task'.failing = task.failing BY <1>5, SameFailing DEF FactoryRefused, SetError
    <2> QED BY <1>5, <2>1 DEF FactoryRefused, SameQueue
  <1>6. CASE StartFactoryReset
    <2> DEFINE reset == Cmd("RESET_CFG", Retries, {})
               save == Cmd("SAVE", 1, {})
               back == ReadBack(Groups)
               end == Marker("TXN_END")
    <2>1. /\ reset \in Fresh /\ reset.id = "RESET_CFG"
          /\ save \in Fresh /\ save.id = "SAVE"
      BY FreshCmd, RetriesType DEF WireIds, Cmd
    <2>2. /\ back \in Seq(Fresh) /\ Ids(back) \cap Ordering = {}
          /\ Ids(back) \subseteq {"GET_GROUP", "START"}
      BY FreshReadBack, IdsReadBack
    <2>3. end \in Seq(Fresh) /\ Ids(end) = {"TXN_END"}
      BY FreshMarker DEF Markers, EndMarkers
    <2>4. /\ queue' = Stop \o <<reset, save>> \o back \o end /\ op' = "FACTORY_RESET"
          /\ fly' = fly /\ Idle
      BY <1>6 DEF StartFactoryReset
    <2> HIDE DEF reset, save, back, end
    <2>5. Begun(Stop \o <<reset>>, "FACTORY_RESET")
      BY <2>1, BegunWork DEF Allowed, Work
    <2>6. Begun(Stop \o <<reset, save>>, "FACTORY_RESET")
      <3>1. <<save>> \in Seq(Fresh) /\ <<reset>> \in Seq(Fresh) BY <2>1
      <3>2. Ids(<<save>>) = {"SAVE"} BY <2>1, IdsOne
      <3>3. Begun((Stop \o <<reset>>) \o <<save>>, "FACTORY_RESET")
        BY <2>5, <3>1, <3>2, BegunAnd DEF Allowed, Ordering, Work
      <3>4. <<reset, save>> = <<reset>> \o <<save>>
        BY <2>1 DEF reset, save
      <3>5. (Stop \o <<reset>>) \o <<save>> = Stop \o (<<reset>> \o <<save>>)
        BY <3>1, FreshStop, ConcatAssociative
      <3> QED BY <3>3, <3>4, <3>5
    <2>7. Begun(Stop \o <<reset, save>> \o back, "FACTORY_RESET")
      BY <2>2, <2>6, BegunAnd DEF Allowed
    <2>8. Begun(Stop \o <<reset, save>> \o back \o end, "FACTORY_RESET")
      BY <2>3, <2>7, BegunAnd DEF Allowed, Ordering, Work
    <2>9. task'.failing = FALSE /\ mode'.waiting = mode.waiting
      BY <1>1, <1>6 DEF StartFactoryReset, BeginTxn, TaskType, ModeType
    <2> QED BY <1>3, <2>4, <2>8, <2>9 DEF NewQueue
  <1>7. CASE StartRun
    <2>1. PICK p \in {Start({}), Stop} : queue' = p \o Marker("RUN_DONE")
      BY <1>7 DEF StartRun
    <2>2. Begun(Start({}), "RUN_CTRL")
      <3>1. Start({}) # <<>> BY DEF Start
      <3> QED BY <3>1, FreshStart, IdsStart, BegunWith DEF Allowed, Ordering, Work
    <2>3. Begun(Stop, "RUN_CTRL") BY BegunStop DEF Allowed
    <2>4. /\ Marker("RUN_DONE") \in Seq(Fresh)
          /\ Ids(Marker("RUN_DONE")) = {"RUN_DONE"}
      BY FreshMarker DEF Markers, EndMarkers
    <2>5. Begun(p, "RUN_CTRL") BY <2>2, <2>3
    <2>6. Begun(p \o Marker("RUN_DONE"), "RUN_CTRL")
      BY <2>4, <2>5, BegunAnd DEF Allowed, Ordering, Work
    <2>7. op' = "RUN_CTRL" /\ UNCHANGED <<fly, mode, task>> /\ Idle
      BY <1>7 DEF StartRun
    <2> QED BY <1>3, <2>1, <2>6, <2>7 DEF NewQueue
  <1>8. CASE StartTxn
    <2> DEFINE dirty == {g \in Groups : want[g] # Nil}
               kept == {g \in dirty : Applicable(g)}
               sent == {g \in kept : Usable(g)}
               sets == Batch("SET_GROUP", sent, Retries)
               save == <<Cmd("SAVE", 1, {"OPTIONAL_SAVE"})>>
               back == ReadBack(sent)
               end == Marker("TXN_END")
    <2>1. task'.failing = FALSE /\ UNCHANGED <<fly, mode>> /\ Idle
      <3> DEFINE error == kept # dirty
      <3>1. \/ task' = [BeginTxn(task) EXCEPT !.error = error, !.setFail = kept]
            \/ task' = [BeginTxn(task) EXCEPT !.error = error, !.setFail = kept \ sent,
                          !.stopped = TRUE, !.restart = ~belief.userStopped]
        BY <1>8 DEF StartTxn
      <3> HIDE DEF error, kept, sent
      <3>2. task'.failing = FALSE BY <1>1, <3>1 DEF BeginTxn, TaskType
      <3> QED BY <1>8, <3>2 DEF StartTxn, MayApply
    <2>2. CASE sent = {}
      <3>1. UNCHANGED <<op, queue>> BY <1>8, <2>2 DEF StartTxn
      <3> QED BY <1>3, <2>1, <3>1 DEF SameQueue
    <2>3. CASE sent # {}
      <3>1. op' = "TXN" /\ queue' = Stop \o sets \o save \o back \o end
        BY <1>8, <2>3 DEF StartTxn
      <3>2. sent \in SUBSET Groups OBVIOUS
      <3> HIDE DEF sent
      <3>3. PICK c \in Fresh : c.id = "SET_GROUP" /\ sets = <<c>>
        BY <2>3, <3>2, FreshBatch, RetriesType
      <3>4. save \in Seq(Fresh) /\ Ids(save) = {"SAVE"}
        BY FreshCmd, RetriesType, IdsCmd DEF WireIds, Flags
      <3>5. /\ back \in Seq(Fresh) /\ Ids(back) \cap Ordering = {}
            /\ Ids(back) \subseteq {"GET_GROUP", "START"}
        BY <3>2, FreshReadBack, IdsReadBack
      <3>6. end \in Seq(Fresh) /\ Ids(end) = {"TXN_END"}
        BY FreshMarker DEF Markers, EndMarkers
      <3> HIDE DEF sets, save, back, end
      <3>7. Begun(Stop \o <<c>>, "TXN") BY <3>3, BegunWork DEF Work, Allowed
      <3>8. Begun(Stop \o sets \o save, "TXN")
        BY <3>3, <3>4, <3>7, BegunAnd DEF Allowed, Ordering, Work
      <3>9. Begun(Stop \o sets \o save \o back, "TXN")
        BY <3>5, <3>8, BegunAnd DEF Allowed
      <3>10. Begun(Stop \o sets \o save \o back \o end, "TXN")
        BY <3>6, <3>9, BegunAnd DEF Allowed, Ordering, Work
      <3> QED BY <1>3, <2>1, <3>1, <3>10 DEF NewQueue
    <2> QED BY <2>2, <2>3
  <1>9. CASE SwitchNothing
    <2>1. task'.failing = task.failing /\ mode'.waiting = mode.waiting
      BY <1>1, <1>9 DEF SwitchNothing, TaskType, ModeType
    <2> QED BY <1>9, <2>1 DEF SwitchNothing, SameQueue
  <1>10. CASE StartModeSwitch
    <2> DEFINE c == Cmd("SET_RUN_APP", Retries, {})
               wait == Marker("MODE_WAIT")
               ask == <<Cmd("GET_SWV", Retries, {})>>
               end == Marker("PROBE_DONE")
    <2>1. c \in Fresh /\ c.id = "SET_RUN_APP"
      BY FreshCmd, RetriesType DEF WireIds, Cmd
    <2>2. /\ wait \in Seq(Fresh) /\ Ids(wait) = {"MODE_WAIT"}
          /\ end \in Seq(Fresh) /\ Ids(end) = {"PROBE_DONE"}
      <3>1. {"MODE_WAIT", "PROBE_DONE"} \subseteq Markers BY DEF Markers, EndMarkers
      <3> QED BY <3>1, FreshMarker
    <2>3. ask \in Seq(Fresh) /\ Ids(ask) = {"GET_SWV"}
      BY FreshCmd, RetriesType, IdsCmd DEF WireIds
    <2>4. /\ queue' = Stop \o <<c>> \o wait \o ask \o end /\ op' = "MODE_SWITCH"
          /\ fly' = fly /\ Idle
      BY <1>10 DEF StartModeSwitch, MayApply
    <2> HIDE DEF c, wait, ask, end
    <2>5. Begun(Stop \o <<c>>, "MODE_SWITCH")
      BY <2>1, BegunWork DEF Work, Allowed
    <2>6. Begun(Stop \o <<c>> \o wait, "MODE_SWITCH")
      BY <2>2, <2>5, BegunAnd DEF Allowed, Ordering, Work
    <2>7. Begun(Stop \o <<c>> \o wait \o ask, "MODE_SWITCH")
      BY <2>3, <2>6, BegunAnd DEF Allowed, Ordering, Work
    <2>8. Begun(Stop \o <<c>> \o wait \o ask \o end, "MODE_SWITCH")
      BY <2>2, <2>7, BegunAnd DEF Allowed, Ordering, Work
    <2>9. task'.failing = FALSE /\ mode'.waiting = mode.waiting
      BY <1>1, <1>10 DEF StartModeSwitch, TaskType, ModeType
    <2> QED BY <1>3, <2>4, <2>8, <2>9 DEF NewQueue
  <1>11. CASE ReadsDropped BY <1>11 DEF ReadsDropped, SameQueue
  <1>12. CASE StartRefresh \/ StartModeRead
    <2> DEFINE end == Marker("READ_END")
    <2>1. PICK st : StartRead(st) BY <1>12 DEF StartRefresh, StartModeRead
    <2>2. /\ Gets(Readable(Groups)) \in Seq(Fresh)
          /\ Ids(Gets(Readable(Groups))) \subseteq {"GET_GROUP"}
          /\ ReadBack(Groups) \in Seq(Fresh)
          /\ Ids(ReadBack(Groups)) \cap Ordering = {}
          /\ Ids(ReadBack(Groups)) \subseteq {"GET_GROUP", "START"}
      BY FreshGets, IdsGets, ReadableType, FreshReadBack, IdsReadBack
    <2>3. end \in Seq(Fresh) /\ Ids(end) = {"READ_END"} /\ end # <<>>
      BY FreshMarker DEF Markers, EndMarkers, Marker
    <2>4. /\ queue' = (IF belief.requiresStop THEN Stop \o ReadBack(Groups)
                       ELSE Gets(Readable(Groups))) \o end
          /\ op' = "READ" /\ fly' = fly
      BY <2>1 DEF StartRead
    <2> HIDE DEF end
    <2>5. Begun(queue', "READ")
      <3>1. CASE belief.requiresStop
        <4>1. Begun(Stop, "READ") BY BegunStop DEF Allowed
        <4>2. Begun(Stop \o ReadBack(Groups), "READ")
          BY <2>2, <4>1, BegunAnd DEF Allowed
        <4>3. Begun(Stop \o ReadBack(Groups) \o end, "READ")
          BY <2>3, <4>2, BegunAnd DEF Allowed, Ordering, Work
        <4> QED BY <2>4, <3>1, <4>3
      <3>2. CASE ~belief.requiresStop
        <4> DEFINE p == Gets(Readable(Groups))
        <4>1. queue' = p \o end BY <2>4, <3>2
        <4>2. p \in Seq(Fresh) /\ Ids(p) \subseteq {"GET_GROUP"} BY <2>2
        <4> HIDE DEF p
        <4>3. /\ p \o end \in Seq(Fresh) /\ Ids(p \o end) = Ids(p) \cup {"READ_END"}
          BY <2>3, <4>2, ConcatProperties, SeqFresh, IdsConcat
        <4>4. p \o end # <<>> BY <4>3, IdsEmpty
        <4> QED BY <4>1, <4>2, <4>3, <4>4, BegunWith DEF Allowed, Ordering, Work
      <3> QED BY <3>1, <3>2
    <2>6. task'.failing = FALSE BY <1>1, <2>1 DEF StartRead, TaskType
    <2>7. mode'.waiting = mode.waiting /\ Idle
      BY <1>1, <1>12 DEF StartRefresh, StartModeRead, ModeType
    <2> QED BY <1>3, <2>4, <2>5, <2>6, <2>7 DEF NewQueue
  <1> QED BY <1>2, <1>4, <1>5, <1>6, <1>7, <1>8, <1>9, <1>10, <1>11, <1>12
          DEF ScheduleNext

LEMMA OrderSchedule == ASSUME TypeOK, EndInv, OrderInv, ScheduleNext PROVE OrderInv'
  BY ScheduleQueue, OrderBegun, OrderFrame DEF NewQueue, SameQueue

LEMMA CheckQueue ==
  ASSUME TypeOK, EndInv, OrderInv, CheckNext PROVE NewQueue \/ SameQueue
  <1>1. ASSUME Idle PROVE task.failing = FALSE /\ mode.waiting = FALSE /\ fly = Nil
    BY <1>1, OrderIdle DEF Idle
  <1>2. CASE CheckReport
    <2> DEFINE p == Start({"RECOVERY"})
    <2>1. /\ UNCHANGED <<fly, mode, task>> /\ Idle
      BY <1>2 DEF CheckReport, Quiet
    <2>2. CASE belief.userStopped
      <3>1. UNCHANGED <<op, queue>> BY <1>2, <2>2 DEF CheckReport
      <3> QED BY <2>1, <3>1 DEF SameQueue
    <2>3. CASE ~belief.userStopped
      <3>1. op' = "RUN_CTRL" /\ queue' = p \o Marker("RUN_DONE")
        BY <1>2, <2>3 DEF CheckReport
      <3>2. p \in Seq(Fresh) /\ Ids(p) = {"START"} /\ p # <<>>
        BY FreshStart, IdsStart DEF Flags, Start
      <3>3. /\ Marker("RUN_DONE") \in Seq(Fresh)
            /\ Ids(Marker("RUN_DONE")) = {"RUN_DONE"}
        BY FreshMarker DEF Markers, EndMarkers
      <3> HIDE DEF p
      <3>4. Begun(p, "RUN_CTRL") BY <3>2, BegunWith DEF Allowed, Ordering, Work
      <3>5. Begun(p \o Marker("RUN_DONE"), "RUN_CTRL")
        BY <3>3, <3>4, BegunAnd DEF Allowed, Ordering, Work
      <3> QED BY <1>1, <2>1, <3>1, <3>5 DEF NewQueue
    <2> QED BY <2>2, <2>3
  <1>3. CASE CheckLink
    <2> DEFINE p == <<Cmd("GET_SWV", 1, {})>>
    <2>1. /\ UNCHANGED <<fly, mode, task>> /\ Idle /\ op' = "PING"
          /\ queue' = p \o Marker("PING_END")
      BY <1>3 DEF CheckLink, Quiet
    <2>2. p \in Seq(Fresh) /\ Ids(p) = {"GET_SWV"} /\ p # <<>>
      BY FreshCmd, RetriesType, IdsCmd DEF WireIds
    <2>3. /\ Marker("PING_END") \in Seq(Fresh)
          /\ Ids(Marker("PING_END")) = {"PING_END"}
      BY FreshMarker DEF Markers, EndMarkers
    <2> HIDE DEF p
    <2>4. Begun(p, "PING") BY <2>2, BegunWith DEF Allowed, Ordering, Work
    <2>5. Begun(p \o Marker("PING_END"), "PING")
      BY <2>3, <2>4, BegunAnd DEF Allowed, Ordering, Work
    <2> QED BY <1>1, <2>1, <2>5 DEF NewQueue
  <1>4. CASE ConfirmExpired
    <2>1. mode'.waiting = mode.waiting
      BY <1>4 DEF ConfirmExpired, TypeOK, ControlOK, ModeType
    <2> QED BY <1>4, <2>1 DEF ConfirmExpired, SameQueue
  <1> QED BY <1>2, <1>3, <1>4 DEF CheckNext

LEMMA OrderCheck == ASSUME TypeOK, EndInv, OrderInv, CheckNext PROVE OrderInv'
  BY CheckQueue, OrderBegun, OrderFrame DEF NewQueue, SameQueue

LEMMA OrderNext == ASSUME TypeOK, EndInv, OrderInv, [Next]_vars PROVE OrderInv'
  <1>1. ASSUME UNCHANGED vars PROVE OrderInv'
    BY <1>1, OrderFrame DEF vars
  <1> QED BY <1>1, OrderUser, OrderWire, OrderDrive, OrderSchedule, OrderCheck DEF Next

-----------------------------------------------------------------------------
(* How much the queue holds.                                               *)

\* What a command sequence takes up, if command c takes up F[c].
Spread(F, q) == UNION {{i} \X F[q[i]] : i \in DOMAIN q}

LEMMA SpreadIn ==
  ASSUME NEW F, NEW q \in Seq(Command), NEW i, NEW x
  PROVE  <<i, x>> \in Spread(F, q) <=> i \in 1..Len(q) /\ x \in F[q[i]]
  <1>1. DOMAIN q = 1..Len(q) OBVIOUS
  <1> QED BY <1>1 DEF Spread

LEMMA SpreadPair ==
  ASSUME NEW F, NEW q, NEW p \in Spread(F, q)
  PROVE  p = <<p[1], p[2]>>
  BY DEF Spread

LEMMA SpreadFinite ==
  ASSUME NEW U, IsFiniteSet(U), NEW F \in [Command -> SUBSET U], NEW q \in Seq(Command)
  PROVE  /\ IsFiniteSet(Spread(F, q)) /\ Cardinality(Spread(F, q)) \in Nat
         /\ \A c \in Command : IsFiniteSet(F[c]) /\ Cardinality(F[c]) \in Nat
  <1>1. Len(q) \in Nat /\ \A i \in 1..Len(q) : q[i] \in Command OBVIOUS
  <1>2. IsFiniteSet(1..Len(q)) BY <1>1, FS_Interval
  <1>3. IsFiniteSet((1..Len(q)) \X U) BY <1>2, FS_Product
  <1>4. Spread(F, q) \subseteq (1..Len(q)) \X U
    <2>1. DOMAIN q = 1..Len(q) OBVIOUS
    <2> QED BY <1>1, <2>1 DEF Spread
  <1>5. IsFiniteSet(Spread(F, q)) BY <1>3, <1>4, FS_Subset
  <1>6. \A c \in Command : IsFiniteSet(F[c]) BY FS_Subset
  <1> QED BY <1>5, <1>6, FS_CardinalityType

LEMMA SpreadOne ==
  ASSUME NEW U, IsFiniteSet(U), NEW F \in [Command -> SUBSET U], NEW c \in Command
  PROVE  Cardinality(Spread(F, <<c>>)) = Cardinality(F[c])
  <1> DEFINE S == F[c]
             T == Spread(F, <<c>>)
             f == [x \in S |-> <<1, x>>]
  <1>1. <<c>> \in Seq(Command) /\ Len(<<c>>) = 1 /\ <<c>>[1] = c OBVIOUS
  <1>2. \A i, x : <<i, x>> \in T <=> i \in 1..1 /\ x \in F[<<c>>[i]]
    BY <1>1, SpreadIn
  <1>3. \A i, x : <<i, x>> \in T <=> i = 1 /\ x \in S
    <2>1. \A i : i \in 1..1 <=> i = 1 OBVIOUS
    <2>2. F[<<c>>[1]] = S BY <1>1
    <2> HIDE DEF S, T
    <2> QED BY <1>2, <2>1, <2>2
  <1>4. \A p \in T : p = <<p[1], p[2]>> BY SpreadPair
  <1>5. IsFiniteSet(S) BY SpreadFinite, <1>1
  <1> HIDE DEF S, T
  <1>6. f \in Bijection(S, T)
    <2>1. f \in [S -> T] BY <1>3
    <2>2. \A x, y \in S : f[x] = f[y] => x = y OBVIOUS
    <2>3. \A p \in T : \E x \in S : f[x] = p
      <3> TAKE p \in T
      <3>1. p = <<1, p[2]>> /\ p[2] \in S BY <1>3, <1>4
      <3> QED BY <3>1
    <2> QED BY <2>1, <2>2, <2>3, Fun_IsBij
  <1>7. ExistsBijection(S, T) BY <1>6 DEF ExistsBijection
  <1> QED BY <1>5, <1>7, FS_Bijection DEF S, T

LEMMA SpreadConcat ==
  ASSUME NEW U, IsFiniteSet(U), NEW F \in [Command -> SUBSET U],
         NEW q \in Seq(Command), NEW r \in Seq(Command)
  PROVE  Cardinality(Spread(F, q \o r)) =
           Cardinality(Spread(F, q)) + Cardinality(Spread(F, r))
  <1> DEFINE Q == Spread(F, q)
             R == Spread(F, r)
             A == Spread(F, q \o r)
             B == {p \in A : p[1] > Len(q)}
             f == [p \in R |-> <<p[1] + Len(q), p[2]>>]
  <1>1. /\ Len(q) \in Nat /\ Len(r) \in Nat /\ q \o r \in Seq(Command)
        /\ Len(q \o r) = Len(q) + Len(r)
        /\ \A i \in 1..Len(q) + Len(r) :
             (q \o r)[i] = IF i <= Len(q) THEN q[i] ELSE r[i - Len(q)]
    BY ConcatProperties, LenProperties
  <1>2. IsFiniteSet(Q) /\ IsFiniteSet(R) /\ IsFiniteSet(A)
    BY <1>1, SpreadFinite
  <1>3. \A i, x : <<i, x>> \in Q <=> i \in 1..Len(q) /\ x \in F[q[i]] BY SpreadIn
  <1>4. \A i, x : <<i, x>> \in R <=> i \in 1..Len(r) /\ x \in F[r[i]] BY SpreadIn
  <1>5. \A i, x : <<i, x>> \in A <=> i \in 1..Len(q \o r) /\ x \in F[(q \o r)[i]]
    BY <1>1, SpreadIn
  <1>6. /\ \A p \in Q : p = <<p[1], p[2]>>
        /\ \A p \in R : p = <<p[1], p[2]>>
        /\ \A p \in A : p = <<p[1], p[2]>>
    BY SpreadPair
  <1> DEFINE n == Len(q)
             m == Len(r)
             s == q \o r
  <1>7. \A i, x : <<i, x>> \in A <=>
           \/ i \in 1..n /\ x \in F[q[i]]
           \/ i - n \in 1..m /\ i \in Int /\ i > n /\ x \in F[r[i - n]]
    <2> HIDE DEF A, s, n, m
    <2>1. /\ n \in Nat /\ m \in Nat
          /\ \A i \in 1..n + m : s[i] = IF i <= n THEN q[i] ELSE r[i - n]
          /\ \A i, x : <<i, x>> \in A <=> i \in 1..n + m /\ x \in F[s[i]]
      BY <1>1, <1>5 DEF n, m, s
    <2> TAKE i, x
    <2>2. CASE i \in 1..n + m /\ i <= n
      BY <2>1, <2>2
    <2>3. CASE i \in 1..n + m /\ ~(i <= n)
      <3>1. i - n \in 1..m /\ i > n /\ i \notin 1..n BY <2>1, <2>3
      <3>2. s[i] = r[i - n] BY <2>1, <2>3
      <3> QED BY <2>1, <2>3, <3>1, <3>2
    <2>4. CASE i \notin 1..n + m
      <3>1. i \notin 1..n /\ ~(i \in Int /\ i - n \in 1..m) BY <2>1, <2>4
      <3> QED BY <2>1, <2>4, <3>1
    <2> QED BY <2>2, <2>3, <2>4
  <1>8. n \in Nat /\ m \in Nat BY <1>1
  <1>9. B = {p \in A : p[1] > n} OBVIOUS
  <1>10. f = [p \in R |-> <<p[1] + n, p[2]>>] OBVIOUS
  <1>11. \A i, x : <<i, x>> \in Q <=> i \in 1..n /\ x \in F[q[i]] BY <1>3
  <1>12. \A i, x : <<i, x>> \in R <=> i \in 1..m /\ x \in F[r[i]] BY <1>4
  <1> HIDE DEF Q, R, A, B, f, n, m, s
  <1>13. Q \subseteq A /\ B \subseteq A /\ A = Q \cup B /\ Q \cap B = {}
    <2>1. \A p \in Q : p \in A /\ ~(p[1] > n)
      <3> TAKE p \in Q
      <3>1. p = <<p[1], p[2]>> BY <1>6
      <3>2. p[1] \in 1..n /\ p[2] \in F[q[p[1]]] BY <1>11, <3>1
      <3> QED BY <1>7, <1>8, <3>1, <3>2
    <2>2. \A p \in A : ~(p[1] > n) => p \in Q
      <3> TAKE p \in A
      <3>1. p = <<p[1], p[2]>> BY <1>6
      <3> QED BY <1>7, <1>11, <3>1
    <2> QED BY <1>9, <2>1, <2>2
  <1>14. f \in Bijection(R, B)
    <2>1. ASSUME NEW p \in R
          PROVE  /\ p[1] \in 1..m /\ p[2] \in F[r[p[1]]] /\ p = <<p[1], p[2]>>
                 /\ f[p] = <<p[1] + n, p[2]>> /\ f[p] \in B
      <3>1. p = <<p[1], p[2]>> BY <1>6
      <3>2. p[1] \in 1..m /\ p[2] \in F[r[p[1]]] BY <1>12, <3>1
      <3>3. f[p] = <<p[1] + n, p[2]>> BY <1>10
      <3>4. p[1] + n \in Int /\ p[1] + n > n /\ (p[1] + n) - n = p[1] BY <1>8, <3>2
      <3>5. f[p] \in A BY <1>7, <3>2, <3>3, <3>4
      <3>6. f[p][1] = p[1] + n BY <3>3
      <3> QED BY <1>9, <3>1, <3>2, <3>3, <3>4, <3>5, <3>6
    <2>2. f \in [R -> B] BY <1>10, <2>1
    <2>3. ASSUME NEW p \in R, NEW t \in R, f[p] = f[t] PROVE p = t
      <3>1. /\ p[1] \in 1..m /\ p = <<p[1], p[2]>> /\ f[p] = <<p[1] + n, p[2]>>
            /\ t[1] \in 1..m /\ t = <<t[1], t[2]>> /\ f[t] = <<t[1] + n, t[2]>>
        BY <2>1
      <3>2. p[1] + n = t[1] + n /\ p[2] = t[2]
        <4>1. <<p[1] + n, p[2]>> = <<t[1] + n, t[2]>> BY <2>3, <3>1
        <4> QED BY <4>1
      <3>3. p[1] = t[1] BY <1>8, <3>1, <3>2
      <3> QED BY <3>1, <3>2, <3>3
    <2>4. ASSUME NEW b \in B PROVE \E p \in R : f[p] = b
      <3>1. b \in A /\ b[1] > n /\ b = <<b[1], b[2]>> BY <1>6, <1>9
      <3>2. b[1] - n \in 1..m /\ b[1] \in Int /\ b[2] \in F[r[b[1] - n]]
        BY <1>7, <1>8, <3>1
      <3> DEFINE p == <<b[1] - n, b[2]>>
      <3>3. p \in R BY <1>12, <3>2
      <3>4. f[p] = <<(b[1] - n) + n, b[2]>> BY <1>10, <3>3
      <3>5. (b[1] - n) + n = b[1] BY <1>8, <3>2
      <3> QED BY <3>1, <3>3, <3>4, <3>5
    <2> QED BY <2>2, <2>3, <2>4, Fun_IsBij
  <1>15. IsFiniteSet(B) /\ Cardinality(B) = Cardinality(R)
    <2>1. ExistsBijection(R, B) BY <1>14 DEF ExistsBijection
    <2> QED BY <1>2, <2>1, FS_Bijection
  <1>16. Cardinality(Q) \in Nat /\ Cardinality(R) \in Nat BY <1>2, FS_CardinalityType
  <1>17. Cardinality(A) = Cardinality(Q) + Cardinality(B) - Cardinality(Q \cap B)
    BY <1>2, <1>13, <1>15, FS_Union
  <1>18. Cardinality(A) = Cardinality(Q) + Cardinality(R)
    <2>1. Cardinality(Q \cap B) = 0 BY <1>13, FS_EmptySet
    <2>2. Cardinality(A) = Cardinality(Q) + Cardinality(R) - 0 BY <1>15, <1>17, <2>1
    <2> QED BY <1>16, <2>2
  <1> QED BY <1>18 DEF Q, R, A

\* Gets and sets alone stand for groups (enqueue_gets_(), start_txn_()).
Sized == {c \in Command : c.groups # {} => c.id \in {"GET_GROUP", "SET_GROUP"}}

\* Commands that may put another one in the queue: a start that is not yet repeated
\* comes back behind a save, a mode-switch wait may end in a start.
Growing ==
  {c \in Command : c.id = "MODE_WAIT" \/ (c.id = "START" /\ "START_RETRY" \notin c.flags)}

SizeOf == [c \in Command |-> IF c.groups = {} THEN {Nil} ELSE c.groups]
ExtraOf == [c \in Command |-> IF c \in Growing THEN {Nil} ELSE {}]

\* The entries of the code's queue that a command sequence stands for, and the
\* entries that may still come with it.
Size(q) == Cardinality(Spread(SizeOf, q))
Extra(q) == Cardinality(Spread(ExtraOf, q))

GroupCount == Cardinality(Groups)

LEMMA SizeSlots == ASSUME NEW q \in Seq(Command) PROVE Size(q) = Cardinality(Slots(q))
  <1>1. \A i \in DOMAIN q : q[i] \in Command OBVIOUS
  <1>2. \A i \in DOMAIN q : SizeOf[q[i]] = IF q[i].groups = {} THEN {Nil} ELSE q[i].groups
    BY <1>1 DEF SizeOf
  <1>3. Spread(SizeOf, q) = Slots(q) BY <1>2 DEF Spread, Slots
  <1> QED BY <1>3 DEF Size

LEMMA SizeOfType ==
  ASSUME IsFiniteSet(Groups)
  PROVE  /\ IsFiniteSet(Groups \cup {Nil})
         /\ SizeOf \in [Command -> SUBSET (Groups \cup {Nil})]
         /\ ExtraOf \in [Command -> SUBSET (Groups \cup {Nil})]
         /\ GroupCount \in Nat /\ GroupCount >= 1
  <1>1. IsFiniteSet(Groups \cup {Nil}) BY FS_AddElement
  <1>2. SizeOf \in [Command -> SUBSET (Groups \cup {Nil})] BY DEF SizeOf, Command
  <1>3. ExtraOf \in [Command -> SUBSET (Groups \cup {Nil})] BY DEF ExtraOf
  <1>4. GroupCount \in Nat BY FS_CardinalityType DEF GroupCount
  <1>5. GroupCount # 0 BY FS_EmptySet, GroupAssumption DEF GroupCount
  <1> QED BY <1>1, <1>2, <1>3, <1>4, <1>5

LEMMA SizeType ==
  ASSUME IsFiniteSet(Groups), NEW q \in Seq(Command)
  PROVE  Size(q) \in Nat /\ Extra(q) \in Nat
  BY SizeOfType, SpreadFinite DEF Size, Extra

LEMMA SizeNone == Size(<<>>) = 0 /\ Extra(<<>>) = 0
  <1>1. \A F : Spread(F, <<>>) = {} BY DEF Spread
  <1> QED BY <1>1, FS_EmptySet DEF Size, Extra

LEMMA SizeConcat ==
  ASSUME IsFiniteSet(Groups), NEW q \in Seq(Command), NEW r \in Seq(Command)
  PROVE  Size(q \o r) = Size(q) + Size(r) /\ Extra(q \o r) = Extra(q) + Extra(r)
  BY SizeOfType, SpreadConcat DEF Size, Extra

LEMMA SizeOne ==
  ASSUME IsFiniteSet(Groups), NEW c \in Command
  PROVE  /\ Size(<<c>>) = IF c.groups = {} THEN 1 ELSE Cardinality(c.groups)
         /\ Size(<<c>>) >= 1
         /\ Extra(<<c>>) = IF c \in Growing THEN 1 ELSE 0
  <1>1. Size(<<c>>) = Cardinality(SizeOf[c]) /\ Extra(<<c>>) = Cardinality(ExtraOf[c])
    BY SizeOfType, SpreadOne DEF Size, Extra
  <1>2. Cardinality({Nil}) = 1 BY FS_Singleton
  <1>3. Extra(<<c>>) = IF c \in Growing THEN 1 ELSE 0 BY <1>1, <1>2, FS_EmptySet DEF ExtraOf
  <1>4. Size(<<c>>) = IF c.groups = {} THEN 1 ELSE Cardinality(c.groups)
    BY <1>1, <1>2 DEF SizeOf
  <1>5. c.groups # {} => Cardinality(c.groups) >= 1
    <2>1. IsFiniteSet(c.groups) BY FS_Subset DEF Command
    <2> QED BY <2>1, FS_EmptySet, FS_CardinalityType
  <1> QED BY <1>3, <1>4, <1>5

-----------------------------------------------------------------------------
(* The size of the queues that schedule_() builds.                         *)

\* The entries of q are at most a, and at most b more may come.
FitsIn(q, a, b) == q \in Seq(Sized) /\ Size(q) <= a /\ Extra(q) <= b

LEMMA PlainCommand ==
  /\ Sized \subseteq Command /\ Seq(Sized) \subseteq Seq(Command) /\ Proper \subseteq Sized
  /\ \A c \in Growing \cap Sized : c.groups = {}
  <1>1. Sized \subseteq Command /\ Proper \subseteq Sized BY DEF Sized, Proper
  <1>2. Seq(Sized) \subseteq Seq(Command) BY <1>1, SeqMonotonic
  <1> QED BY <1>1, <1>2 DEF Sized, Growing

LEMMA FitAnd ==
  ASSUME IsFiniteSet(Groups), NEW q, NEW r, NEW a \in Nat, NEW b \in Nat,
         NEW c \in Nat, NEW d \in Nat, FitsIn(q, a, b), FitsIn(r, c, d)
  PROVE  FitsIn(q \o r, a + c, b + d)
  <1>1. q \in Seq(Command) /\ r \in Seq(Command) BY PlainCommand DEF FitsIn
  <1>2. q \o r \in Seq(Sized) BY ConcatProperties DEF FitsIn
  <1>3. Size(q \o r) = Size(q) + Size(r) /\ Extra(q \o r) = Extra(q) + Extra(r)
    BY <1>1, SizeConcat
  <1>4. /\ Size(q) \in Nat /\ Extra(q) \in Nat /\ Size(r) \in Nat /\ Extra(r) \in Nat
    BY <1>1, SizeType
  <1>5. Size(q) + Size(r) <= a + c /\ Extra(q) + Extra(r) <= b + d BY <1>4 DEF FitsIn
  <1> QED BY <1>2, <1>3, <1>5 DEF FitsIn

LEMMA FitMore ==
  ASSUME IsFiniteSet(Groups), NEW q, NEW a \in Nat, NEW b \in Nat, FitsIn(q, a, b),
         NEW c \in Nat, NEW d \in Nat, a <= c, b <= d
  PROVE  FitsIn(q, c, d)
  <1>1. Size(q) \in Nat /\ Extra(q) \in Nat BY PlainCommand, SizeType DEF FitsIn
  <1> QED BY <1>1 DEF FitsIn

LEMMA FitNone == ASSUME IsFiniteSet(Groups) PROVE FitsIn(<<>>, 0, 0)
  BY SizeNone DEF FitsIn

\* One command without groups.
LEMMA FitCmd ==
  ASSUME IsFiniteSet(Groups), NEW id \in WireIds \cup Markers, NEW n \in 0..Retries,
         NEW fs \in SUBSET Flags
  PROVE  /\ FitsIn(<<Cmd(id, n, fs)>>, 1, 1)
         /\ id \notin {"START", "MODE_WAIT"} => FitsIn(<<Cmd(id, n, fs)>>, 1, 0)
  <1> DEFINE c == Cmd(id, n, fs)
  <1>1. c \in Command /\ c.groups = {} /\ c.id = id BY CmdType DEF Cmd
  <1> HIDE DEF c
  <1>2. <<c>> \in Seq(Sized) BY <1>1 DEF Sized
  <1>3. Size(<<c>>) = 1 /\ Extra(<<c>>) = IF c \in Growing THEN 1 ELSE 0 BY <1>1, SizeOne
  <1>4. id \notin {"START", "MODE_WAIT"} => c \notin Growing BY <1>1 DEF Growing
  <1> QED BY <1>2, <1>3, <1>4 DEF FitsIn, c

LEMMA FitParts ==
  ASSUME IsFiniteSet(Groups)
  PROVE  /\ FitsIn(Stop, 1, 0)
         /\ \A id \in EndMarkers : FitsIn(Marker(id), 1, 0)
         /\ FitsIn(Marker("MODE_WAIT"), 1, 1)
         /\ \A fs \in SUBSET Flags : FitsIn(Start(fs), 1, 1)
  <1>1. FitsIn(Stop, 1, 0) BY FitCmd, RetriesType DEF Stop, WireIds
  <1>2. ASSUME NEW id \in EndMarkers PROVE FitsIn(Marker(id), 1, 0)
    <2>1. id \in Markers /\ id \notin {"START", "MODE_WAIT"} BY DEF Markers, EndMarkers
    <2> QED BY <2>1, FitCmd, RetriesType DEF Marker
  <1>3. FitsIn(Marker("MODE_WAIT"), 1, 1) BY FitCmd, RetriesType DEF Marker, Markers
  <1>4. \A fs \in SUBSET Flags : FitsIn(Start(fs), 1, 1)
    BY FitCmd, RetriesType DEF Start, WireIds
  <1> QED BY <1>1, <1>2, <1>3, <1>4

LEMMA FitBatch ==
  ASSUME IsFiniteSet(Groups), NEW id \in {"GET_GROUP", "SET_GROUP"},
         NEW gs \in SUBSET Groups, NEW n \in 0..Retries
  PROVE  FitsIn(Batch(id, gs, n), Cardinality(gs), 0) /\ Cardinality(gs) \in Nat
  <1> DEFINE c == [Cmd(id, n, {}) EXCEPT !.groups = gs]
  <1>1. IsFiniteSet(gs) /\ Cardinality(gs) \in Nat BY FS_Subset, FS_CardinalityType
  <1>2. CASE gs = {}
    BY <1>2, FitNone, FS_EmptySet DEF Batch
  <1>3. CASE gs # {}
    <2>1. c \in Command /\ c.groups = gs /\ c.id = id BY DEF Cmd, Command, WireIds
    <2>2. Batch(id, gs, n) = <<c>> BY <1>3 DEF Batch
    <2> HIDE DEF c
    <2>3. <<c>> \in Seq(Sized) BY <2>1 DEF Sized
    <2>4. c \notin Growing BY <2>1 DEF Growing
    <2>5. Size(<<c>>) = Cardinality(gs) /\ Extra(<<c>>) = 0 BY <1>3, <2>1, <2>4, SizeOne
    <2> QED BY <1>1, <2>2, <2>3, <2>5 DEF FitsIn
  <1> QED BY <1>1, <1>2, <1>3

\* The gets of the probe groups stand in a batch of their own.
LEMMA FitGets ==
  ASSUME IsFiniteSet(Groups), NEW gs \in SUBSET Groups
  PROVE  FitsIn(Gets(gs), Cardinality(gs), 0) /\ Cardinality(gs) <= GroupCount
  <1> DEFINE a == gs \ Probe
             b == gs \cap Probe
  <1>1. IsFiniteSet(gs) /\ Cardinality(gs) <= GroupCount BY FS_Subset DEF GroupCount
  <1>2. IsFiniteSet(a) /\ IsFiniteSet(b) BY <1>1, FS_Subset
  <1>3. gs = a \cup b /\ a \cap b = {} OBVIOUS
  <1>4. Cardinality(gs) = Cardinality(a) + Cardinality(b)
    <2>1. Cardinality(a \cup b) = Cardinality(a) + Cardinality(b) - Cardinality(a \cap b)
      BY <1>2, FS_Union
    <2>2. Cardinality(a \cap b) = 0 BY <1>3, FS_EmptySet
    <2>3. Cardinality(a) \in Nat /\ Cardinality(b) \in Nat BY <1>2, FS_CardinalityType
    <2> HIDE DEF a, b
    <2> QED BY <1>3, <2>1, <2>2, <2>3
  <1>5. /\ FitsIn(Batch("GET_GROUP", a, Retries), Cardinality(a), 0)
        /\ FitsIn(Batch("GET_GROUP", b, 0), Cardinality(b), 0)
        /\ Cardinality(a) \in Nat /\ Cardinality(b) \in Nat
    <2>1. a \in SUBSET Groups /\ b \in SUBSET Groups OBVIOUS
    <2> QED BY <2>1, FitBatch, RetriesType
  <1>6. Gets(gs) = Batch("GET_GROUP", a, Retries) \o Batch("GET_GROUP", b, 0) BY DEF Gets
  <1> HIDE DEF a, b
  <1>7. FitsIn(Gets(gs), Cardinality(a) + Cardinality(b), 0 + 0) BY <1>5, <1>6, FitAnd
  <1> QED BY <1>1, <1>4, <1>7

LEMMA FitReadBack ==
  ASSUME IsFiniteSet(Groups), NEW gs \in SUBSET Groups
  PROVE  FitsIn(ReadBack(gs), GroupCount + 1, 1)
  <1> DEFINE start == IF belief.userStopped THEN <<>> ELSE Start({})
             gets == Gets(Readable(gs))
  <1>1. GroupCount \in Nat BY SizeOfType
  <1>2. FitsIn(start, 1, 1)
    <2>1. FitsIn(<<>>, 1, 1) BY FitNone, FitMore
    <2>2. FitsIn(Start({}), 1, 1) BY FitParts
    <2> QED BY <2>1, <2>2
  <1>3. FitsIn(gets, GroupCount, 0)
    <2> DEFINE rs == Readable(gs)
    <2>1. rs \in SUBSET Groups BY ReadableType
    <2> HIDE DEF rs
    <2>2. FitsIn(Gets(rs), Cardinality(rs), 0) /\ Cardinality(rs) <= GroupCount
      BY <2>1, FitGets
    <2>3. Cardinality(rs) \in Nat BY <2>1, FS_Subset, FS_CardinalityType
    <2> QED BY <1>1, <2>2, <2>3, FitMore DEF rs
  <1>4. ReadBack(gs) \in {gets \o start, start \o gets} BY DEF ReadBack
  <1> HIDE DEF start, gets
  <1>5. FitsIn(gets \o start, GroupCount + 1, 0 + 1) BY <1>1, <1>2, <1>3, FitAnd
  <1>6. FitsIn(start \o gets, 1 + GroupCount, 1 + 0) BY <1>1, <1>2, <1>3, FitAnd
  <1> DEFINE p == gets \o start
             r == start \o gets
  <1>7. ReadBack(gs) = p \/ ReadBack(gs) = r BY <1>4
  <1>8. FitsIn(p, GroupCount + 1, 1) BY <1>5
  <1>9. FitsIn(r, GroupCount + 1, 1)
    <2>1. FitsIn(r, 1 + GroupCount, 1) BY <1>6
    <2> HIDE DEF r
    <2> QED BY <1>1, <2>1 DEF FitsIn
  <1> HIDE DEF p, r
  <1> QED BY <1>7, <1>8, <1>9

-----------------------------------------------------------------------------
(* What keeps the queue small: the commands in hand, the one in flight first, *)
(* and what may still come with them.                                      *)

Held(q, f) == IF f = Nil THEN q ELSE <<f>> \o q

\* A mode-switch wait ends in one more start at worst.
Waits == IF mode.waiting THEN 2 ELSE 0

\* Only the stop in front of an operation leaves no room for what may come.
Fits(h, w) ==
  /\ h \in Seq(Sized) /\ Size(h) <= 2 * GroupCount + 4
  /\ Size(h) + Extra(h) + w <= 2 * GroupCount + 5
  /\ "STOP" \notin Ids(h) => Size(h) + Extra(h) + w <= 2 * GroupCount + 4

FitInv == Fits(Held(queue, fly), Waits)

LEMMA FitsNew ==
  ASSUME IsFiniteSet(Groups), NEW q, NEW a \in Nat, FitsIn(q, a, 1),
         a <= 2 * GroupCount + 3 \/ (a <= 2 * GroupCount + 4 /\ "STOP" \in Ids(q))
  PROVE  Fits(q, 0)
  <1> DEFINE m == Size(q)
             n == Extra(q)
  <1>1. GroupCount \in Nat BY SizeOfType
  <1>2. m \in Nat /\ n \in Nat /\ q \in Seq(Sized)
    BY SizeType, PlainCommand DEF FitsIn
  <1>3. m <= a /\ n <= 1 BY DEF FitsIn
  <1> HIDE DEF m, n
  <1>4. m <= 2 * GroupCount + 4 /\ m + n + 0 <= 2 * GroupCount + 5 BY <1>1, <1>2, <1>3
  <1>5. "STOP" \notin Ids(q) => m + n + 0 <= 2 * GroupCount + 4 BY <1>1, <1>2, <1>3
  <1> QED BY <1>2, <1>4, <1>5 DEF Fits, m, n

LEMMA FitsNone == ASSUME IsFiniteSet(Groups) PROVE Fits(<<>>, 0)
  <1>1. FitsIn(<<>>, 0, 1) BY FitNone, FitMore
  <1>2. 0 <= 2 * GroupCount + 3 BY SizeOfType
  <1> QED BY <1>1, <1>2, FitsNew

\* The size of a queue with a command in front.
LEMMA SizeCons ==
  ASSUME IsFiniteSet(Groups), NEW c \in Command, NEW q \in Seq(Command)
  PROVE  /\ Size(<<c>> \o q) = Size(<<c>>) + Size(q)
         /\ Extra(<<c>> \o q) = Extra(<<c>>) + Extra(q)
         /\ Size(<<c>>) \in Nat /\ Size(q) \in Nat
         /\ Extra(<<c>>) \in Nat /\ Extra(q) \in Nat
         /\ Ids(<<c>> \o q) = {c.id} \cup Ids(q)
  <1>1. <<c>> \in Seq(Command) OBVIOUS
  <1> QED BY <1>1, SizeConcat, SizeType, IdsConcat, IdsOne

LEMMA PlainCons ==
  ASSUME NEW c \in Command, NEW q \in Seq(Command)
  PROVE  <<c>> \o q \in Seq(Sized) <=> c \in Sized /\ q \in Seq(Sized)
  <1>1. <<c>> \o q # <<>> /\ Head(<<c>> \o q) = c /\ Tail(<<c>> \o q) = q BY ConsParts
  <1>2. ASSUME <<c>> \o q \in Seq(Sized) PROVE c \in Sized /\ q \in Seq(Sized)
    <2> DEFINE s == <<c>> \o q
    <2>1. s \in Seq(Sized) /\ s # <<>> /\ Head(s) = c /\ Tail(s) = q BY <1>1, <1>2
    <2> HIDE DEF s
    <2>2. Head(s) \in Sized /\ Tail(s) \in Seq(Sized) BY <2>1
    <2> QED BY <2>1, <2>2
  <1>3. ASSUME c \in Sized, q \in Seq(Sized) PROVE <<c>> \o q \in Seq(Sized)
    <2>1. <<c>> \in Seq(Sized) BY <1>3
    <2> QED BY <1>3, <2>1, ConcatProperties
  <1> QED BY <1>2, <1>3

\* A command is done: there is room for one more, unless it was the stop.
LEMMA FitsDrop ==
  ASSUME IsFiniteSet(Groups), NEW c \in Command, NEW q \in Seq(Command),
         Fits(<<c>> \o q, 0)
  PROVE  Fits(q, 0)
  <1> DEFINE m == Size(<<c>>)
             n == Extra(<<c>>)
             k == Size(q)
             l == Extra(q)
  <1>1. /\ GroupCount \in Nat /\ m \in Nat /\ n \in Nat /\ k \in Nat /\ l \in Nat
        /\ m >= 1
    BY SizeOfType, SizeCons, SizeOne
  <1>2. q \in Seq(Sized) BY PlainCons DEF Fits
  <1>3. m + k <= 2 * GroupCount + 4 /\ (m + k) + (n + l) + 0 <= 2 * GroupCount + 5
    BY SizeCons DEF Fits
  <1> HIDE DEF m, n, k, l
  <1>4. k <= 2 * GroupCount + 4 /\ k + l + 0 <= 2 * GroupCount + 4
        /\ k + l + 0 <= 2 * GroupCount + 5
    BY <1>1, <1>3
  <1> QED BY <1>2, <1>4 DEF Fits, k, l

\* Commands of the same kind take the same room.
LEMMA FitsAlike ==
  ASSUME IsFiniteSet(Groups), NEW c \in Command, NEW d \in Command,
         NEW q \in Seq(Command), d.id = c.id, d.groups = c.groups,
         c \in Growing <=> d \in Growing, Fits(<<c>> \o q, 0)
  PROVE  Fits(<<d>> \o q, 0)
  <1>1. Size(<<d>>) = Size(<<c>>) /\ Extra(<<d>>) = Extra(<<c>>) BY SizeOne
  <1>2. /\ Size(<<d>> \o q) = Size(<<c>> \o q) /\ Extra(<<d>> \o q) = Extra(<<c>> \o q)
        /\ Ids(<<d>> \o q) = Ids(<<c>> \o q)
    BY <1>1, SizeCons
  <1>3. <<d>> \o q \in Seq(Sized)
    <2>1. c \in Sized => d \in Sized BY DEF Sized
    <2> QED BY <2>1, PlainCons DEF Fits
  <1> QED BY <1>2, <1>3 DEF Fits

\* A refused start comes back behind a save.
LEMMA FitsAgain ==
  ASSUME IsFiniteSet(Groups), NEW c \in Command, NEW q \in Seq(Command),
         c.id = "START", "START_RETRY" \notin c.flags, "STOP" \notin Ids(q),
         Fits(<<c>> \o q, 0)
  PROVE  Fits(Again(c) \o q, 0)
  <1> DEFINE a == Cmd("SAVE", 1, {})
             b == Cmd("START", 1, c.flags \cup {"START_RETRY"})
             t == <<b>> \o q
  <1>1. c.flags \cup {"START_RETRY"} \in SUBSET Flags BY DEF Command, Flags
  <1>2. /\ a \in Command /\ a.id = "SAVE" /\ a.groups = {}
        /\ b \in Command /\ b.id = "START" /\ b.groups = {} /\ "START_RETRY" \in b.flags
    BY <1>1, CmdType, RetriesType DEF WireIds, Cmd
  <1> HIDE DEF a, b
  <1>3. a \in Sized /\ b \in Sized /\ a \notin Growing /\ b \notin Growing
    BY <1>2 DEF Sized, Growing
  <1>4. c \in Sized /\ q \in Seq(Sized) BY PlainCons DEF Fits
  <1>5. c \in Growing /\ c.groups = {} BY <1>4, PlainCommand DEF Growing
  <1>6. /\ Size(<<a>>) = 1 /\ Size(<<b>>) = 1 /\ Size(<<c>>) = 1
        /\ Extra(<<a>>) = 0 /\ Extra(<<b>>) = 0 /\ Extra(<<c>>) = 1
    BY <1>2, <1>3, <1>5, SizeOne
  <1>7. t \in Seq(Command) /\ t \in Seq(Sized)
    <2>1. <<b>> \in Seq(Command) BY <1>2
    <2> QED BY <1>2, <1>3, <1>4, <2>1, PlainCons, ConcatProperties
  <1>8. /\ Size(t) = 1 + Size(q) /\ Extra(t) = Extra(q) /\ Ids(t) = {"START"} \cup Ids(q)
        /\ Size(q) \in Nat /\ Extra(q) \in Nat
    BY <1>2, <1>6, SizeCons
  <1> HIDE DEF t
  <1>9. /\ Size(<<a>> \o t) = 1 + (1 + Size(q)) /\ Extra(<<a>> \o t) = 0 + Extra(q)
        /\ Ids(<<a>> \o t) = {"SAVE"} \cup ({"START"} \cup Ids(q))
    <2>1. /\ Size(<<a>> \o t) = Size(<<a>>) + Size(t)
          /\ Extra(<<a>> \o t) = Extra(<<a>>) + Extra(t)
          /\ Ids(<<a>> \o t) = {a.id} \cup Ids(t)
      BY <1>2, <1>7, SizeCons
    <2> QED BY <1>2, <1>6, <1>8, <2>1
  <1>10. <<a>> \o t \in Seq(Sized) BY <1>2, <1>3, <1>7, PlainCons
  <1>11. "STOP" \notin Ids(<<c>> \o q)
    <2>1. Ids(<<c>> \o q) = {c.id} \cup Ids(q) BY SizeCons
    <2> QED BY <2>1
  <1> DEFINE m == Size(q)
             n == Extra(q)
             s == <<a>> \o t
  <1>12. (1 + m) + (1 + n) + 0 <= 2 * GroupCount + 4
    <2>1. Size(<<c>> \o q) = 1 + m /\ Extra(<<c>> \o q) = 1 + n BY <1>6, SizeCons
    <2> HIDE DEF m, n
    <2> QED BY <1>11, <2>1 DEF Fits
  <1>13. GroupCount \in Nat /\ m \in Nat /\ n \in Nat BY <1>8, SizeOfType
  <1>14. /\ Size(s) = 1 + (1 + m) /\ Extra(s) = 0 + n /\ s \in Seq(Sized)
    BY <1>9, <1>10
  <1> HIDE DEF m, n, s
  <1>15. Fits(s, 0)
    <2>1. /\ 1 + (1 + m) <= 2 * GroupCount + 4
          /\ (1 + (1 + m)) + (0 + n) + 0 <= 2 * GroupCount + 4
          /\ (1 + (1 + m)) + (0 + n) + 0 <= 2 * GroupCount + 5
      BY <1>12, <1>13
    <2> QED BY <1>14, <2>1 DEF Fits
  <1>16. Again(c) \o q = <<a>> \o t
    <2>1. Again(c) = <<a>> \o <<b>>
      BY <1>2 DEF Again, a, b
    <2>2. <<a>> \in Seq(Command) /\ <<b>> \in Seq(Command) BY <1>2
    <2>3. (<<a>> \o <<b>>) \o q = <<a>> \o (<<b>> \o q) BY <2>2, ConcatAssociative
    <2> QED BY <2>1, <2>3 DEF t
  <1> QED BY <1>15, <1>16 DEF s

\* A wait begins.
LEMMA FitsWait ==
  ASSUME IsFiniteSet(Groups), NEW c \in Command, NEW q \in Seq(Command),
         c.id = "MODE_WAIT", Fits(<<c>> \o q, 0)
  PROVE  Fits(q, 2)
  <1>1. c \in Sized /\ q \in Seq(Sized) BY PlainCons DEF Fits
  <1>2. c \in Growing /\ c.groups = {} BY <1>1, PlainCommand DEF Growing
  <1>3. Size(<<c>>) = 1 /\ Extra(<<c>>) = 1 BY <1>2, SizeOne
  <1> DEFINE m == Size(q)
             n == Extra(q)
             s == <<c>> \o q
  <1>4. /\ Size(s) = 1 + m /\ Extra(s) = 1 + n /\ Ids(s) = {"MODE_WAIT"} \cup Ids(q)
        /\ m \in Nat /\ n \in Nat /\ GroupCount \in Nat
    BY <1>3, SizeCons, SizeOfType
  <1>5. Fits(s, 0) OBVIOUS
  <1> HIDE DEF m, n, s
  <1>6. /\ 1 + m <= 2 * GroupCount + 4 /\ (1 + m) + (1 + n) + 0 <= 2 * GroupCount + 5
        /\ "STOP" \notin Ids(q) => (1 + m) + (1 + n) + 0 <= 2 * GroupCount + 4
    BY <1>4, <1>5 DEF Fits
  <1>7. /\ m <= 2 * GroupCount + 4 /\ m + n + 2 <= 2 * GroupCount + 5
        /\ "STOP" \notin Ids(q) => m + n + 2 <= 2 * GroupCount + 4
    BY <1>4, <1>6
  <1> QED BY <1>1, <1>7 DEF Fits, m, n

\* A wait ends without a report: the radar is started.
LEMMA FitsExpired ==
  ASSUME IsFiniteSet(Groups), NEW c \in Command, NEW q \in Seq(Command),
         c.id = "START", c.groups = {}, "STOP" \notin Ids(q), Fits(q, 2)
  PROVE  Fits(<<c>> \o q, 0)
  <1>1. c \in Sized /\ q \in Seq(Sized) BY DEF Fits, Sized
  <1>2. Size(<<c>>) = 1 /\ Extra(<<c>>) <= 1 BY SizeOne
  <1> DEFINE m == Size(q)
             n == Extra(q)
             e == Extra(<<c>>)
             s == <<c>> \o q
  <1>3. /\ Size(s) = 1 + m /\ Extra(s) = e + n /\ e <= 1 /\ e \in Nat
        /\ m \in Nat /\ n \in Nat /\ GroupCount \in Nat
    BY <1>2, SizeCons, SizeOfType
  <1>4. m + n + 2 <= 2 * GroupCount + 4 BY DEF Fits
  <1>5. s \in Seq(Sized) BY <1>1, PlainCons
  <1> HIDE DEF m, n, e, s
  <1>6. /\ 1 + m <= 2 * GroupCount + 4 /\ (1 + m) + (e + n) + 0 <= 2 * GroupCount + 4
        /\ (1 + m) + (e + n) + 0 <= 2 * GroupCount + 5
    BY <1>3, <1>4
  <1>7. Fits(s, 0) BY <1>3, <1>5, <1>6 DEF Fits
  <1> QED BY <1>7 DEF s

\* A report ends the wait.
LEMMA FitsSeen ==
  ASSUME IsFiniteSet(Groups), NEW q, Fits(q, 2) PROVE Fits(q, 0)
  <1> DEFINE m == Size(q)
             n == Extra(q)
  <1>1. m \in Nat /\ n \in Nat /\ GroupCount \in Nat
    BY SizeType, SizeOfType, PlainCommand DEF Fits
  <1>2. /\ m + n + 2 <= 2 * GroupCount + 5
        /\ "STOP" \notin Ids(q) => m + n + 2 <= 2 * GroupCount + 4
    BY DEF Fits
  <1> HIDE DEF m, n
  <1>3. /\ m + n + 0 <= 2 * GroupCount + 5
        /\ "STOP" \notin Ids(q) => m + n + 0 <= 2 * GroupCount + 4
    BY <1>1, <1>2
  <1> QED BY <1>3 DEF Fits, m, n

\* A command goes out for one of its groups, the rest stays in front.
LEMMA FitsSplit ==
  ASSUME IsFiniteSet(Groups), NEW h \in Command, NEW q \in Seq(Command),
         NEW one \in Command, NEW more \in Command, NEW g \in h.groups,
         one.id = h.id, one.groups = {g}, more.id = h.id, more.groups = h.groups \ {g},
         h.groups # {g}, Fits(<<h>> \o q, 0)
  PROVE  Fits(<<one>> \o (<<more>> \o q), 0)
  <1> DEFINE t == <<more>> \o q
  <1>1. h \in Sized /\ q \in Seq(Sized) BY PlainCons DEF Fits
  <1>2. /\ one \in Sized /\ more \in Sized
        /\ h \notin Growing /\ one \notin Growing /\ more \notin Growing
    BY <1>1 DEF Sized, Growing
  <1>3. /\ Size(<<h>>) = Cardinality(h.groups) /\ Extra(<<h>>) = 0
        /\ Size(<<one>>) = Cardinality({g}) /\ Extra(<<one>>) = 0
        /\ Size(<<more>>) = Cardinality(h.groups \ {g}) /\ Extra(<<more>>) = 0
    BY <1>2, SizeOne
  <1>4. Size(<<h>>) = Size(<<one>>) + Size(<<more>>)
    <2>1. IsFiniteSet(h.groups) /\ Cardinality(h.groups) \in Nat
      BY FS_Subset, FS_CardinalityType DEF Command
    <2>2. Cardinality({g}) = 1 BY FS_Singleton
    <2>3. Cardinality(h.groups \ {g}) = Cardinality(h.groups) - 1
      BY <2>1, FS_RemoveElement
    <2> QED BY <1>3, <2>1, <2>2, <2>3
  <1>5. t \in Seq(Command) /\ t \in Seq(Sized)
    <2>1. <<more>> \in Seq(Command) OBVIOUS
    <2> QED BY <1>1, <1>2, <2>1, PlainCons, ConcatProperties
  <1>6. /\ Size(t) = Size(<<more>>) + Size(q) /\ Extra(t) = 0 + Extra(q)
        /\ Ids(t) = {h.id} \cup Ids(q)
        /\ Size(q) \in Nat /\ Extra(q) \in Nat /\ Size(<<more>>) \in Nat
    BY <1>3, SizeCons
  <1> HIDE DEF t
  <1>7. /\ Size(<<one>> \o t) = Size(<<one>>) + Size(t) /\ Size(<<one>>) \in Nat
        /\ Extra(<<one>> \o t) = 0 + Extra(t) /\ Ids(<<one>> \o t) = {h.id} \cup Ids(t)
    BY <1>3, <1>5, SizeCons
  <1>8. /\ Size(<<one>> \o t) = Size(<<h>>) + Size(q)
        /\ Extra(<<one>> \o t) = Extra(<<h>>) + Extra(q)
        /\ Ids(<<one>> \o t) = {h.id} \cup Ids(q)
    BY <1>3, <1>4, <1>6, <1>7
  <1>9. /\ Size(<<one>> \o t) = Size(<<h>> \o q) /\ Extra(<<one>> \o t) = Extra(<<h>> \o q)
        /\ Ids(<<one>> \o t) = Ids(<<h>> \o q)
    BY <1>8, SizeCons
  <1>10. <<one>> \o t \in Seq(Sized) BY <1>2, <1>5, PlainCons
  <1>11. Fits(<<one>> \o t, 0) BY <1>9, <1>10 DEF Fits
  <1> QED BY <1>11 DEF t

-----------------------------------------------------------------------------
(* Every step keeps the queue small.                                       *)

LEMMA HeadCons ==
  ASSUME NEW q \in Seq(Command), q # <<>>
  PROVE  /\ q = <<Head(q)>> \o Tail(q) /\ Head(q) \in Command /\ Tail(q) \in Seq(Command)
         /\ Ids(Tail(q)) \subseteq Ids(q)
  <1> DEFINE h == Head(q)
             t == Tail(q)
             s == <<h>> \o t
  <1>1. /\ Len(q) \in Nat /\ Len(q) # 0 /\ Len(t) = Len(q) - 1 /\ t \in Seq(Command)
        /\ \A i \in 1..Len(t) : t[i] = q[i + 1]
        /\ h = q[1] /\ h \in Command
    BY HeadTailProperties, EmptySeq
  <1>2. <<h>> \in Seq(Command) /\ Len(<<h>>) = 1 /\ <<h>>[1] = h BY <1>1
  <1>3. /\ s \in Seq(Command) /\ Len(s) = 1 + Len(t)
        /\ \A i \in 1..1 + Len(t) : s[i] = IF i <= 1 THEN <<h>>[i] ELSE t[i - 1]
    BY <1>1, <1>2, ConcatProperties
  <1> HIDE DEF h, t, s
  <1>4. \A i \in 1..Len(q) : s[i] = q[i] BY <1>1, <1>2, <1>3
  <1>5. Len(s) = Len(q) BY <1>1, <1>3
  <1>6. s = q BY <1>3, <1>4, <1>5, SeqEqual
  <1> QED BY <1>1, <1>6, IdsTail DEF h, t, s

LEMMA FitParting ==
  ASSUME TypeOK
  PROVE  /\ queue \in Seq(Command) /\ Held(queue, Nil) = queue
         /\ fly # Nil => fly \in Command /\ Held(queue, fly) = <<fly>> \o queue
         /\ Waits = IF mode.waiting THEN 2 ELSE 0
  BY DEF TypeOK, ControlOK, WireOK, WireCommand, Held, Waits

LEMMA FitOver ==
  ASSUME Fits(queue', 0), fly' = Nil, ~mode'.waiting PROVE FitInv'
  BY DEF FitInv, Held, Waits

LEMMA FitFrame ==
  ASSUME FitInv, UNCHANGED <<queue, fly>>, mode'.waiting = mode.waiting PROVE FitInv'
  BY DEF FitInv, Held, Waits

\* The head of the queue is worked off.
LEMMA FitTail ==
  ASSUME IsFiniteSet(Groups), TypeOK, FitInv, fly = Nil, fly' = Nil, queue # <<>>,
         queue' = Tail(queue), ~mode.waiting, ~mode'.waiting
  PROVE  FitInv'
  <1>1. queue \in Seq(Command) /\ Fits(queue, 0) BY FitParting DEF FitInv
  <1>2. /\ queue = <<Head(queue)>> \o Tail(queue) /\ Head(queue) \in Command
        /\ Tail(queue) \in Seq(Command)
    BY <1>1, HeadCons
  <1>3. Fits(<<Head(queue)>> \o Tail(queue), 0) BY <1>1, <1>2
  <1>4. Fits(Tail(queue), 0) BY <1>2, <1>3, FitsDrop
  <1> QED BY <1>4, FitOver

LEMMA FitSend == ASSUME IsFiniteSet(Groups), TypeOK, FitInv, Send PROVE FitInv'
  <1> DEFINE h == Head(queue)
             t == Tail(queue)
             g == CHOOSE g \in h.groups : TRUE
             one == [h EXCEPT !.groups = {g}]
             more == [h EXCEPT !.groups = @ \ {g}]
  <1>1. /\ queue \in Seq(Command) /\ queue # <<>> /\ fly = Nil /\ ~mode.waiting
        /\ mode' = mode
    BY FitParting DEF Send
  <1>2. queue = <<h>> \o t /\ h \in Command /\ t \in Seq(Command) BY <1>1, HeadCons
  <1>3. Fits(<<h>> \o t, 0) BY <1>1, <1>2, FitParting DEF FitInv
  <1>4. ASSUME NEW f \in Command, NEW q, fly' = f, queue' = q, Fits(<<f>> \o q, 0)
        PROVE  FitInv'
    <2>1. f # Nil BY NilAssumption
    <2> QED BY <1>1, <1>4, <2>1 DEF FitInv, Held, Waits
  <1>5. CASE h.groups = {}
    <2>1. fly' = h /\ queue' = t BY <1>5 DEF Send
    <2> HIDE DEF h, t
    <2> QED BY <1>2, <1>3, <1>4, <2>1
  <1>6. CASE h.groups # {}
    <2>1. /\ fly' = one
          /\ queue' = (IF h.groups = {g} THEN <<>> ELSE <<more>>) \o t
      BY <1>6 DEF Send
    <2>2. g \in h.groups /\ g \in Groups BY <1>2, <1>6 DEF Command
    <2> HIDE DEF g, h, t
    <2>3. /\ one \in Command /\ one.id = h.id /\ one.groups = {g} /\ one.flags = h.flags
          /\ more \in Command /\ more.id = h.id /\ more.groups = h.groups \ {g}
      BY <1>2, <2>2 DEF Command
    <2> HIDE DEF one, more
    <2>4. CASE h.groups = {g}
      <3>1. queue' = t BY <1>2, <2>1, <2>4, ConcatEmptySeq
      <3>2. h \in Growing <=> one \in Growing BY <1>2, <2>3 DEF Growing
      <3>3. Fits(<<one>> \o t, 0) BY <1>2, <1>3, <2>3, <2>4, <3>2, FitsAlike
      <3> QED BY <1>4, <2>1, <2>3, <3>1, <3>3
    <2>5. CASE h.groups # {g}
      <3>1. queue' = <<more>> \o t BY <2>1, <2>5
      <3>2. Fits(<<one>> \o (<<more>> \o t), 0) BY <1>2, <1>3, <2>2, <2>3, <2>5, FitsSplit
      <3> QED BY <1>4, <2>1, <2>3, <3>1, <3>2
    <2> QED BY <2>4, <2>5
  <1> QED BY <1>5, <1>6

\* What is left after a failure.
LEMMA FitsFailed == ASSUME IsFiniteSet(Groups), NEW c PROVE Fits(FailQueue(c), 0)
  <1> DEFINE start == IF task.stopped /\ task.restart /\ c.id \notin {"START", "STOP"}
                      THEN <<Cmd("START", 1, {"FAILURE_PATH"})>> ELSE <<>>
             end == Marker("FAIL_END")
  <1>1. FitsIn(start, 1, 1)
    <2>1. FitsIn(<<>>, 1, 1) BY FitNone, FitMore
    <2>2. FitsIn(<<Cmd("START", 1, {"FAILURE_PATH"})>>, 1, 1)
      BY FitCmd, RetriesType DEF WireIds, Flags
    <2> QED BY <2>1, <2>2
  <1>2. FitsIn(end, 1, 0) BY FitParts DEF EndMarkers
  <1>3. FailQueue(c) = start \o end BY DEF FailQueue
  <1> HIDE DEF start, end
  <1>4. FitsIn(start \o end, 1 + 1, 1 + 0) BY <1>1, <1>2, FitAnd
  <1> DEFINE q == start \o end
  <1>5. FitsIn(q, 2, 1) BY <1>4
  <1> HIDE DEF q
  <1>6. 2 <= 2 * GroupCount + 3 BY SizeOfType
  <1>7. Fits(q, 0) BY <1>5, <1>6, FitsNew
  <1> QED BY <1>3, <1>7 DEF q

LEMMA FitDone ==
  ASSUME IsFiniteSet(Groups), TypeOK, OrderInv, FitInv, fly # Nil, NEW o, Complete(fly, o),
         o.result = "MALFORMED" => fly.id = "GET_GROUP"
  PROVE  FitInv'
  <1> DEFINE f == fly
  <1>1. /\ f \in WireCommand /\ f \in Command /\ queue \in Seq(Command)
        /\ Held(queue, f) = <<f>> \o queue
    BY FitParting DEF TypeOK, WireOK, WireCommand
  <1>2. ~mode.waiting /\ "STOP" \notin Ids(queue) BY DEF OrderInv, Orderly
  <1>3. Fits(<<f>> \o queue, 0) BY <1>1, <1>2 DEF FitInv, Waits
  <1>4. fly' = Nil BY DEF Complete
  <1>5. CASE o.result = "MALFORMED" /\ "REPARSE" \notin f.flags
    <2> DEFINE again == [f EXCEPT !.flags = @ \cup {"REPARSE"}]
    <2>1. queue' = <<again>> \o queue /\ mode' = mode BY <1>5 DEF Complete
    <2>2. f.id = "GET_GROUP" BY <1>5
    <2> HIDE DEF f
    <2>3. again \in Command /\ again.id = f.id /\ again.groups = f.groups
      BY <1>1 DEF Command, Flags
    <2> HIDE DEF again
    <2>4. f \in Growing <=> again \in Growing BY <2>2, <2>3 DEF Growing
    <2>5. Fits(<<again>> \o queue, 0) BY <1>1, <1>3, <2>3, <2>4, FitsAlike
    <2> QED BY <1>2, <1>4, <2>1, <2>5, FitOver
  <1>6. CASE ~(o.result = "MALFORMED" /\ "REPARSE" \notin f.flags)
    <2>1. OnDone(f, o) BY <1>6 DEF Complete
    <2>2. DoneStep(f, o) /\ ~mode'.waiting BY <1>1, <1>2, <2>1, DoneQueue
    <2>3. Fits(queue, 0) BY <1>1, <1>3, FitsDrop
    <2>4. CASE GoesOn(queue) BY <1>4, <2>2, <2>3, <2>4, FitOver DEF GoesOn
    <2>5. CASE Fails(f) BY <1>4, <2>2, <2>5, FitsFailed, FitOver DEF Fails
    <2>6. CASE GoesOn(Again(f) \o queue) /\ f.id = "START" /\ "START_RETRY" \notin f.flags
      <3> HIDE DEF f
      <3>1. Fits(Again(f) \o queue, 0) BY <1>1, <1>2, <1>3, <2>6, FitsAgain
      <3> QED BY <1>4, <2>2, <2>6, <3>1, FitOver DEF GoesOn
    <2>7. CASE GoesOn(Tail(queue)) /\ queue # <<>>
      <3>1. /\ queue = <<Head(queue)>> \o Tail(queue) /\ Head(queue) \in Command
            /\ Tail(queue) \in Seq(Command)
        BY <1>1, <2>7, HeadCons
      <3>2. Fits(<<Head(queue)>> \o Tail(queue), 0) BY <2>3, <3>1
      <3>3. Fits(Tail(queue), 0) BY <3>1, <3>2, FitsDrop
      <3> QED BY <1>4, <2>2, <2>7, <3>3, FitOver DEF GoesOn
    <2>8. CASE Dropped BY <1>4, <2>2, <2>8, FitsNone, FitOver DEF Dropped
    <2> QED BY <2>2, <2>4, <2>5, <2>6, <2>7, <2>8 DEF DoneStep
  <1> QED BY <1>5, <1>6

LEMMA FitWire ==
  ASSUME IsFiniteSet(Groups), TypeOK, OrderInv, FitInv, WireNext PROVE FitInv'
  <1>1. CASE Send BY <1>1, FitSend
  <1>2. CASE Answer
    <2>1. PICK o \in Outcomes(fly) : Complete(fly, o) BY <1>2 DEF Answer
    <2>2. fly # Nil /\ fly \in WireCommand BY <1>2 DEF Answer, TypeOK, WireOK
    <2>3. o.result = "MALFORMED" => fly.id = "GET_GROUP" BY <2>2, MalformedGet
    <2> QED BY <2>1, <2>2, <2>3, FitDone
  <1>3. CASE CarriedOut \/ CommandLost BY <1>3, FitFrame DEF CarriedOut, CommandLost
  <1>4. CASE Timeout
    <2>1. fly # Nil /\ fly \in Command BY <1>4, FitParting DEF Timeout
    <2>2. CASE fly.id \notin NoReply /\ fly.retries > 0
      <3>1. fly' = [fly EXCEPT !.retries = @ - 1] /\ UNCHANGED <<queue, mode>>
        BY <1>4, <2>2 DEF Timeout
      <3>2. /\ fly' \in Command /\ fly'.id = fly.id /\ fly'.groups = fly.groups
            /\ fly'.flags = fly.flags
        <4>1. fly.retries - 1 \in 0..Retries BY <2>1, <2>2, RetriesType DEF Command
        <4> QED BY <2>1, <3>1, <4>1 DEF Command
      <3>3. fly \in Growing <=> fly' \in Growing BY <2>1, <3>2 DEF Growing
      <3>4. ~mode.waiting BY <2>1 DEF OrderInv, Orderly
      <3>5. Fits(<<fly>> \o queue, 0) BY <2>1, <3>4, FitParting DEF FitInv
      <3>6. Fits(<<fly'>> \o queue, 0)
        BY <2>1, <3>2, <3>3, <3>5, FitParting, FitsAlike
      <3>7. fly' # Nil BY <3>2, NilAssumption
      <3> QED BY <3>1, <3>4, <3>6, <3>7 DEF FitInv, Held, Waits
    <2>3. CASE ~(fly.id \notin NoReply /\ fly.retries > 0)
      <3>1. PICK r \in {"OK", "TIMEOUT"} : Complete(fly, Out(radar, r))
        BY <1>4, <2>3 DEF Timeout
      <3>2. Out(radar, r).result # "MALFORMED" BY DEF Out
      <3> QED BY <2>1, <3>1, <3>2, FitDone
    <2> QED BY <2>2, <2>3
  <1>5. CASE Sentence
    <2>1. mode' \in {mode, LearntMode(radar.app)} BY <1>5 DEF Sentence
    <2>2. mode'.waiting = mode.waiting BY <2>1, LearntWaiting
    <2> QED BY <1>5, <2>2, FitFrame DEF Sentence
  <1> QED BY <1>1, <1>2, <1>3, <1>4, <1>5 DEF WireNext

LEMMA FitUser == ASSUME IsFiniteSet(Groups), TypeOK, FitInv, UserNext PROVE FitInv'
  <1>1. CASE EspReboot
    BY <1>1, FitsNone, FitOver DEF EspReboot, BootMode
  <1>2. CASE ~EspReboot
    <2>1. UNCHANGED <<queue, fly>>
      BY <1>2 DEF UserNext, SetDesired, SetWorkMode, RequestRefresh, RequestRestart,
                  RequestFactoryReset, RequestRunning, Request, RadarPowerCycle
    <2>2. \/ mode' = mode \/ mode' = [mode EXCEPT !.shown = mode.reported]
          \/ \E m \in Modes : mode' = [mode EXCEPT !.want = m, !.shown = m]
      BY <1>2 DEF UserNext, SetDesired, SetWorkMode, RequestRefresh, RequestRestart,
                  RequestFactoryReset, RequestRunning, Request, RadarPowerCycle
    <2>3. mode'.waiting = mode.waiting BY <2>2 DEF TypeOK, ControlOK, ModeType
    <2> QED BY <2>1, <2>3, FitFrame
  <1> QED BY <1>1, <1>2

\* A queue that leaves room for what may come with it.
Roomy(q) ==
  \E a \in Nat : /\ FitsIn(q, a, 1)
                 /\ a <= 2 * GroupCount + 3 \/ (a <= 2 * GroupCount + 4 /\ "STOP" \in Ids(q))

LEMMA RoomyFits == ASSUME IsFiniteSet(Groups), NEW q, Roomy(q) PROVE Fits(q, 0)
  BY FitsNew DEF Roomy

\* The read-back parts of the queues, over any groups.
LEMMA FitReads ==
  ASSUME IsFiniteSet(Groups)
  PROVE  /\ \A gs \in SUBSET Groups : FitsIn(Gets(gs), GroupCount, 0)
         /\ \A gs \in SUBSET Groups : FitsIn(Gets(Readable(gs)), GroupCount, 0)
         /\ \A gs \in SUBSET Groups : FitsIn(Batch("SET_GROUP", gs, Retries), GroupCount, 0)
         /\ GroupCount \in Nat /\ GroupCount >= 1
  <1>1. GroupCount \in Nat /\ GroupCount >= 1 BY SizeOfType
  <1>2. ASSUME NEW gs \in SUBSET Groups
        PROVE  /\ Cardinality(gs) \in Nat /\ Cardinality(gs) <= GroupCount
               /\ FitsIn(Gets(gs), GroupCount, 0)
               /\ FitsIn(Batch("SET_GROUP", gs, Retries), GroupCount, 0)
    <2>1. /\ FitsIn(Gets(gs), Cardinality(gs), 0) /\ Cardinality(gs) <= GroupCount
          /\ FitsIn(Batch("SET_GROUP", gs, Retries), Cardinality(gs), 0)
          /\ Cardinality(gs) \in Nat
      BY FitGets, FitBatch, RetriesType
    <2> QED BY <1>1, <2>1, FitMore
  <1>3. \A gs \in SUBSET Groups : Readable(gs) \in SUBSET Groups BY ReadableType
  <1> QED BY <1>1, <1>2, <1>3

LEMMA FitProbeDone ==
  ASSUME IsFiniteSet(Groups), TypeOK, EndInv, OrderInv, ProbeDone PROVE FitInv'
  <1> DEFINE p == Gets({RangeGroup})
             end == Marker("FIRST_READ")
  <1>1. mode.waiting = FALSE /\ fly = Nil /\ Tail(queue) = <<>>
    BY OrderMarker DEF ProbeDone, EndMarkers
  <1>2. queue' = <<>> \o p \o end BY <1>1 DEF ProbeDone
  <1>3. FitsIn(p, GroupCount, 0) /\ FitsIn(end, 1, 0) /\ GroupCount \in Nat
    BY FitReads, FitParts, GroupAssumption DEF EndMarkers
  <1>4. fly' = Nil /\ ~mode'.waiting
    BY <1>1 DEF ProbeDone, TypeOK, ControlOK, ModeType
  <1> HIDE DEF p, end
  <1>5. FitsIn(<<>> \o p, 0 + GroupCount, 0 + 0) BY <1>3, FitNone, FitAnd
  <1> DEFINE r == <<>> \o p
  <1>6. FitsIn(r, GroupCount, 0) BY <1>3, <1>5 DEF FitsIn
  <1> HIDE DEF r
  <1>7. FitsIn(r \o end, GroupCount + 1, 0 + 0) BY <1>3, <1>6, FitAnd
  <1> DEFINE q == r \o end
  <1>8. FitsIn(q, GroupCount + 1, 0) BY <1>7
  <1> HIDE DEF q
  <1>9. FitsIn(q, GroupCount + 1, 1) BY <1>3, <1>8, FitMore
  <1>10. Fits(q, 0) BY <1>3, <1>9, FitsNew
  <1> QED BY <1>2, <1>4, <1>10, FitOver DEF q, r

LEMMA FitJoin ==
  ASSUME IsFiniteSet(Groups), NEW q, NEW r, NEW a \in Nat, NEW b \in Nat,
         NEW c \in Nat, NEW d \in Nat, FitsIn(q, a, b), FitsIn(r, c, d),
         NEW m \in Nat, NEW n \in Nat, a + c <= m, b + d <= n
  PROVE  FitsIn(q \o r, m, n)
  <1>1. FitsIn(q \o r, a + c, b + d) BY FitAnd
  <1>2. a + c \in Nat /\ b + d \in Nat OBVIOUS
  <1> QED BY <1>1, <1>2, FitMore

\* What the queues are made of.
LEMMA FitPieces ==
  ASSUME IsFiniteSet(Groups)
  PROVE  /\ FitsIn(<<>>, 0, 0) /\ FitsIn(Stop, 1, 0) /\ FitsIn(Start({}), 1, 1)
         /\ FitsIn(Start({"RECOVERY"}), 1, 1)
         /\ \A id \in EndMarkers : FitsIn(Marker(id), 1, 0)
         /\ FitsIn(Marker("MODE_WAIT"), 1, 1)
         /\ \A gs \in SUBSET Groups : FitsIn(ReadBack(gs), GroupCount + 1, 1)
  <1>1. {"RECOVERY"} \in SUBSET Flags /\ {} \in SUBSET Flags BY DEF Flags
  <1> QED BY <1>1, FitNone, FitParts, FitReadBack

LEMMA FitFirstRead ==
  ASSUME IsFiniteSet(Groups), TypeOK, EndInv, OrderInv, FirstRead PROVE FitInv'
  <1> DEFINE some == Gets(Readable(Groups \ {RangeGroup}))
             all == Gets(Readable(Groups))
             recovery == IF RecoveryStart THEN Start({"RECOVERY"}) ELSE <<>>
             start == IF belief.userStopped THEN <<>> ELSE Start({})
             end == Marker("READ_END")
  <1>1. fly' = Nil /\ ~mode'.waiting BY FirstReadQueue DEF NewQueue
  <1>2. Tail(queue) = <<>> BY OrderMarker DEF FirstRead, EndMarkers
  <1>3. \/ queue' = <<>> \o some \o recovery \o end
        \/ queue' = <<>> \o Stop \o all \o start \o end
    BY <1>2 DEF FirstRead
  <1>4. /\ FitsIn(some, GroupCount, 0) /\ FitsIn(all, GroupCount, 0)
        /\ GroupCount \in Nat /\ GroupCount >= 1
    BY FitReads
  <1>5. FitsIn(end, 1, 0) /\ FitsIn(Stop, 1, 0) /\ FitsIn(<<>>, 0, 0)
    BY FitPieces DEF EndMarkers
  <1>6. FitsIn(recovery, 1, 1) /\ FitsIn(start, 1, 1)
    <2>1. FitsIn(<<>>, 1, 1) BY <1>5, FitMore
    <2> QED BY <2>1, FitPieces
  <1> HIDE DEF some, all, recovery, start, end
  <1>7. Fits(queue', 0)
    <2>1. CASE queue' = <<>> \o some \o recovery \o end
      <3> DEFINE p == <<>> \o some
                 r == p \o recovery
                 q == r \o end
      <3>1. FitsIn(p, GroupCount, 0) BY <1>4, <1>5, FitJoin
      <3> HIDE DEF p
      <3>2. FitsIn(r, GroupCount + 1, 1) BY <1>4, <1>6, <3>1, FitJoin
      <3> HIDE DEF r
      <3>3. FitsIn(q, GroupCount + 2, 1) BY <1>4, <1>5, <3>2, FitJoin
      <3> HIDE DEF q
      <3>4. Fits(q, 0) BY <1>4, <3>3, FitsNew
      <3> QED BY <2>1, <3>4 DEF p, r, q
    <2>2. CASE queue' = <<>> \o Stop \o all \o start \o end
      <3> DEFINE p == <<>> \o Stop
                 r == p \o all
                 s == r \o start
                 q == s \o end
      <3>1. FitsIn(p, 1, 0) BY <1>5, FitJoin
      <3> HIDE DEF p
      <3>2. FitsIn(r, GroupCount + 1, 0) BY <1>4, <3>1, FitJoin
      <3> HIDE DEF r
      <3>3. FitsIn(s, GroupCount + 2, 1) BY <1>4, <1>6, <3>2, FitJoin
      <3> HIDE DEF s
      <3>4. FitsIn(q, GroupCount + 3, 1) BY <1>4, <1>5, <3>3, FitJoin
      <3> HIDE DEF q
      <3>5. Fits(q, 0) BY <1>4, <3>4, FitsNew
      <3> QED BY <2>2, <3>5 DEF p, r, s, q
    <2> QED BY <1>3, <2>1, <2>2
  <1> QED BY <1>1, <1>7, FitOver

LEMMA FitExpired ==
  ASSUME IsFiniteSet(Groups), TypeOK, OrderInv, FitInv, ModeWaitExpired PROVE FitInv'
  <1> DEFINE c == Cmd("START", 1, {"RECOVERY"})
  <1>1. queue \in Seq(Command) /\ mode.waiting /\ fly' = fly /\ queue' = <<c>> \o queue
    BY FitParting DEF ModeWaitExpired
  <1>2. fly = Nil /\ Ids(queue) \cap Ordering = {} BY <1>1 DEF OrderInv, Orderly
  <1>3. Fits(queue, 2) BY <1>1, <1>2, FitParting DEF FitInv
  <1>4. c \in Command /\ c.id = "START" /\ c.groups = {}
    BY CmdType, RetriesType DEF Cmd, WireIds, Flags
  <1>5. ~mode'.waiting
    <2>1. \E m \in {mode, LearntMode("PRESENCE")} : mode' = [m EXCEPT !.waiting = FALSE]
      BY DEF ModeWaitExpired
    <2>2. mode \in ModeType /\ LearntMode("PRESENCE") \in ModeType
      BY LearntType DEF TypeOK, ControlOK, Modes
    <2> QED BY <2>1, <2>2 DEF ModeType
  <1> HIDE DEF c
  <1>6. "STOP" \notin Ids(queue) BY <1>2 DEF Ordering
  <1>7. Fits(<<c>> \o queue, 0) BY <1>1, <1>3, <1>4, <1>6, FitsExpired
  <1> QED BY <1>1, <1>2, <1>5, <1>7, FitOver

LEMMA FitDrive ==
  ASSUME IsFiniteSet(Groups), TypeOK, EndInv, OrderInv, FitInv, DriveNext PROVE FitInv'
  <1>1. mode \in ModeType /\ task \in TaskType /\ queue \in Seq(Command)
    BY DEF TypeOK, ControlOK
  <1>2. CASE SkipSave
    BY <1>2, FitTail DEF SkipSave
  <1>3. CASE ProbeDone BY <1>3, FitProbeDone
  <1>4. CASE FirstRead BY <1>4, FitFirstRead
  <1>5. ASSUME NEW id \in EndMarkers \ {"FAIL_END"}, AtMarker(id),
               queue' = Tail(queue), fly' = fly, mode'.waiting = mode.waiting
        PROVE  FitInv'
    <2>1. mode.waiting = FALSE /\ fly = Nil /\ Tail(queue) = <<>> BY <1>5, OrderMarker
    <2> QED BY <1>5, <2>1, FitsNone, FitOver
  <1>6. CASE ReadEnd BY <1>5, <1>6 DEF ReadEnd, EndMarkers
  <1>7. CASE BootReadEnd
    <2>1. PICK silent \in BOOLEAN, reports \in BOOLEAN : FinishBootRead(silent, reports)
      BY <1>7 DEF BootReadEnd
    <2>2. mode'.waiting = mode.waiting
      <3>1. PICK m \in {mode, LearntMode("PRESENCE")} :
              mode' = [m EXCEPT
                         !.shown = IF HasModes THEN m.reported ELSE @,
                         !.pending = FALSE, !.rejected = @ /\ ~mode.pending]
        BY <2>1 DEF FinishBootRead
      <3>2. m \in ModeType BY <1>1, LearntType DEF Modes
      <3>3. mode'.waiting = m.waiting BY <3>1, <3>2 DEF ModeType
      <3> QED BY <3>3, LearntWaiting
    <2> QED BY <1>5, <1>7, <2>2 DEF BootReadEnd, EndMarkers
  <1>8. CASE TxnEnd
    <2>1. mode'.waiting = mode.waiting BY <1>1, <1>8 DEF TxnEnd, ModeType
    <2> QED BY <1>5, <1>8, <2>1 DEF TxnEnd, EndMarkers
  <1>9. CASE RunDone BY <1>5, <1>9 DEF RunDone, EndMarkers
  <1>10. CASE FailEnd
    <2>1. ~mode'.waiting BY <1>1, <1>10 DEF FailEnd, EnterBackoff, ModeType
    <2> QED BY <1>10, <2>1, FitsNone, FitOver DEF FailEnd, EnterBackoff, AtMarker
  <1>11. CASE PingEnd BY <1>5, <1>11 DEF PingEnd, EndMarkers
  <1>12. CASE ModeWait
    <2>1. /\ fly = Nil /\ ~mode.waiting /\ queue # <<>> /\ fly' = fly
          /\ Head(queue).id = "MODE_WAIT" /\ queue' = Tail(queue)
      BY <1>12 DEF ModeWait, AtMarker
    <2>2. /\ queue = <<Head(queue)>> \o Tail(queue) /\ Head(queue) \in Command
          /\ Tail(queue) \in Seq(Command)
      BY <1>1, <2>1, HeadCons
    <2>3. Fits(queue, 0) BY <2>1, FitParting DEF FitInv
    <2>4. Fits(<<Head(queue)>> \o Tail(queue), 0) BY <2>2, <2>3
    <2>5. Fits(Tail(queue), 2) BY <2>1, <2>2, <2>4, FitsWait
    <2>6. mode'.waiting = TRUE BY <1>1, <1>12 DEF ModeWait, ModeType
    <2> QED BY <2>1, <2>5, <2>6 DEF FitInv, Held, Waits
  <1>13. CASE ModeWaitSeen
    <2>1. ~mode'.waiting /\ UNCHANGED <<queue, fly>> /\ mode.waiting
      BY <1>1, <1>13 DEF ModeWaitSeen, ModeType
    <2>2. fly = Nil BY <2>1 DEF OrderInv, Orderly
    <2>3. Fits(queue, 2) BY <2>1, <2>2, FitParting DEF FitInv
    <2> QED BY <2>1, <2>2, <2>3, FitsSeen, FitOver
  <1>14. CASE ModeWaitExpired BY <1>14, FitExpired
  <1> QED BY <1>2, <1>3, <1>4, <1>6, <1>7, <1>8, <1>9, <1>10, <1>11, <1>12, <1>13,
             <1>14 DEF DriveNext

\* What schedule_() queues leaves room, whatever comes with it.
LEMMA ScheduleRoom ==
  ASSUME IsFiniteSet(Groups), TypeOK, ScheduleNext
  PROVE  queue' = queue \/ Roomy(queue')
  <1>1. /\ FitsIn(<<>>, 0, 0) /\ FitsIn(Stop, 1, 0) /\ FitsIn(Start({}), 1, 1)
        /\ GroupCount \in Nat /\ GroupCount >= 1
    BY FitPieces, FitReads
  <1>2. CASE StartProbe
    <2> DEFINE p == <<Cmd("GET_SWV", Retries, {})>>
               end == Marker("PROBE_DONE")
               q == p \o end
    <2>1. FitsIn(p, 1, 0) BY FitCmd, RetriesType DEF WireIds
    <2>2. FitsIn(end, 1, 0) BY FitPieces DEF EndMarkers
    <2>3. queue' = q BY <1>2 DEF StartProbe
    <2> HIDE DEF p, end
    <2>4. FitsIn(q, 2, 1) BY <2>1, <2>2, FitJoin
    <2> HIDE DEF q
    <2>5. 2 <= 2 * GroupCount + 3 BY <1>1
    <2> QED BY <2>3, <2>4, <2>5 DEF Roomy
  <1>3. CASE StartRestart
    <2> DEFINE q == <<Cmd("RESET_SYSTEM", 0, {})>>
    <2>1. FitsIn(q, 1, 1) BY FitCmd, RetriesType DEF WireIds
    <2>2. queue' = q BY <1>3 DEF StartRestart
    <2> HIDE DEF q
    <2>3. 1 <= 2 * GroupCount + 3 BY <1>1
    <2> QED BY <2>1, <2>2, <2>3 DEF Roomy
  <1>4. CASE StartFactoryReset
    <2> DEFINE a == Cmd("RESET_CFG", Retries, {})
               b == Cmd("SAVE", 1, {})
               reset == <<a, b>>
               back == ReadBack(Groups)
               end == Marker("TXN_END")
    <2>1. FitsIn(reset, 2, 0)
      <3>1. FitsIn(<<a>>, 1, 0) /\ FitsIn(<<b>>, 1, 0)
        BY FitCmd, RetriesType DEF WireIds
      <3>2. reset = <<a>> \o <<b>> OBVIOUS
      <3> HIDE DEF a, b, reset
      <3> DEFINE r == <<a>> \o <<b>>
      <3>3. FitsIn(r, 2, 0) BY <3>1, FitJoin
      <3> QED BY <3>2, <3>3
    <2>2. FitsIn(back, GroupCount + 1, 1) BY FitPieces
    <2>3. FitsIn(end, 1, 0) BY FitPieces DEF EndMarkers
    <2>4. queue' = Stop \o reset \o back \o end BY <1>4 DEF StartFactoryReset
    <2> HIDE DEF a, b, reset, back, end
    <2> DEFINE r == Stop \o reset
               s == r \o back
               q == s \o end
               t == reset \o back
               u == t \o end
    <2>5. FitsIn(r, 3, 0) BY <1>1, <2>1, FitJoin
    <2>6. "STOP" \in Ids(q)
      <3>1. /\ Stop \in Seq(Command) /\ reset \in Seq(Command) /\ back \in Seq(Command)
            /\ end \in Seq(Command)
        BY <1>1, <2>1, <2>2, <2>3, PlainCommand DEF FitsIn
      <3>2. r \in Seq(Command) /\ Ids(r) = Ids(Stop) \cup Ids(reset)
        BY <3>1, IdsConcat, ConcatProperties
      <3> HIDE DEF r
      <3>3. s \in Seq(Command) /\ Ids(s) = Ids(r) \cup Ids(back)
        BY <3>1, <3>2, IdsConcat, ConcatProperties
      <3> HIDE DEF s
      <3>4. Ids(q) = Ids(s) \cup Ids(end) BY <3>1, <3>3, IdsConcat
      <3> QED BY <3>2, <3>3, <3>4, IdsStop
    <2>7. queue' = q BY <2>4
    <2> HIDE DEF r
    <2>8. FitsIn(s, GroupCount + 4, 1) BY <1>1, <2>2, <2>5, FitJoin
    <2> HIDE DEF s
    <2>9. FitsIn(q, GroupCount + 5, 1) BY <1>1, <2>3, <2>8, FitJoin
    <2> HIDE DEF q
    <2>10. GroupCount + 5 <= 2 * GroupCount + 4 /\ GroupCount + 5 \in Nat BY <1>1
    <2> QED BY <2>6, <2>7, <2>9, <2>10 DEF Roomy
  <1>5. CASE StartRun
    <2> DEFINE end == Marker("RUN_DONE")
    <2>1. PICK p \in {Start({}), Stop} : queue' = p \o end BY <1>5 DEF StartRun
    <2>2. FitsIn(end, 1, 0) BY FitPieces DEF EndMarkers
    <2>3. FitsIn(p, 1, 1)
      <3>1. FitsIn(Stop, 1, 1) BY <1>1, FitMore
      <3> QED BY <1>1, <2>1, <3>1
    <2> HIDE DEF end
    <2> DEFINE q == p \o end
    <2>4. FitsIn(q, 2, 1) BY <2>2, <2>3, FitJoin
    <2>5. queue' = q BY <2>1
    <2> HIDE DEF q
    <2>6. 2 <= 2 * GroupCount + 3 BY <1>1
    <2> QED BY <2>4, <2>5, <2>6 DEF Roomy
  <1>6. CASE StartTxn
    <2> DEFINE dirty == {g \in Groups : want[g] # Nil}
               kept == {g \in dirty : Applicable(g)}
               sent == {g \in kept : Usable(g)}
               sets == Batch("SET_GROUP", sent, Retries)
               save == <<Cmd("SAVE", 1, {"OPTIONAL_SAVE"})>>
               back == ReadBack(sent)
               end == Marker("TXN_END")
    <2>1. CASE sent = {} BY <1>6, <2>1 DEF StartTxn
    <2>2. CASE sent # {}
      <3>1. queue' = Stop \o sets \o save \o back \o end BY <1>6, <2>2 DEF StartTxn
      <3>2. sent \in SUBSET Groups OBVIOUS
      <3> HIDE DEF sent
      <3>3. FitsIn(sets, GroupCount, 0) /\ FitsIn(back, GroupCount + 1, 1)
        BY <3>2, FitReads, FitPieces
      <3>4. FitsIn(save, 1, 0) BY FitCmd, RetriesType DEF WireIds, Flags
      <3>5. FitsIn(end, 1, 0) BY FitPieces DEF EndMarkers
      <3> HIDE DEF sets, save, back, end
      <3> DEFINE p == Stop \o sets
                 r == p \o save
                 s == r \o back
                 q == s \o end
      <3>6. FitsIn(p, GroupCount + 1, 0) BY <1>1, <3>3, FitJoin
      <3>7. "STOP" \in Ids(q)
        <4>1. /\ Stop \in Seq(Command) /\ sets \in Seq(Command) /\ save \in Seq(Command)
              /\ back \in Seq(Command) /\ end \in Seq(Command)
          BY <1>1, <3>3, <3>4, <3>5, PlainCommand DEF FitsIn
        <4>2. p \in Seq(Command) /\ Ids(p) = Ids(Stop) \cup Ids(sets)
          BY <4>1, IdsConcat, ConcatProperties
        <4> HIDE DEF p
        <4>3. r \in Seq(Command) /\ Ids(r) = Ids(p) \cup Ids(save)
          BY <4>1, <4>2, IdsConcat, ConcatProperties
        <4> HIDE DEF r
        <4>4. s \in Seq(Command) /\ Ids(s) = Ids(r) \cup Ids(back)
          BY <4>1, <4>3, IdsConcat, ConcatProperties
        <4> HIDE DEF s
        <4>5. Ids(q) = Ids(s) \cup Ids(end) BY <4>1, <4>4, IdsConcat
        <4> QED BY <4>2, <4>3, <4>4, <4>5, IdsStop
      <3>8. queue' = q BY <3>1
      <3> HIDE DEF p
      <3>9. FitsIn(r, GroupCount + 2, 0) BY <1>1, <3>4, <3>6, FitJoin
      <3> HIDE DEF r
      <3>10. FitsIn(s, 2 * GroupCount + 3, 1) BY <1>1, <3>3, <3>9, FitJoin
      <3> HIDE DEF s
      <3>11. FitsIn(q, 2 * GroupCount + 4, 1) BY <1>1, <3>5, <3>10, FitJoin
      <3> HIDE DEF q
      <3>12. 2 * GroupCount + 4 \in Nat /\ 2 * GroupCount + 4 <= 2 * GroupCount + 4
        BY <1>1
      <3> QED BY <3>7, <3>8, <3>11, <3>12 DEF Roomy
    <2> QED BY <2>1, <2>2
  <1>7. CASE StartModeSwitch
    <2> DEFINE set == <<Cmd("SET_RUN_APP", Retries, {})>>
               wait == Marker("MODE_WAIT")
               ask == <<Cmd("GET_SWV", Retries, {})>>
               end == Marker("PROBE_DONE")
    <2>1. FitsIn(set, 1, 0) /\ FitsIn(ask, 1, 0) BY FitCmd, RetriesType DEF WireIds
    <2>2. FitsIn(wait, 1, 1) /\ FitsIn(end, 1, 0) BY FitPieces DEF EndMarkers
    <2>3. queue' = Stop \o set \o wait \o ask \o end BY <1>7 DEF StartModeSwitch
    <2> HIDE DEF set, wait, ask, end
    <2> DEFINE p == Stop \o set
               r == p \o wait
               s == r \o ask
               q == s \o end
    <2>4. FitsIn(p, 2, 0) BY <1>1, <2>1, FitJoin
    <2>5. queue' = q BY <2>3
    <2> HIDE DEF p
    <2>6. FitsIn(r, 3, 1) BY <2>2, <2>4, FitJoin
    <2> HIDE DEF r
    <2>7. FitsIn(s, 4, 1) BY <2>1, <2>6, FitJoin
    <2> HIDE DEF s
    <2>8. FitsIn(q, 5, 1) BY <2>2, <2>7, FitJoin
    <2> HIDE DEF q
    <2>9. 5 <= 2 * GroupCount + 3 BY <1>1
    <2> QED BY <2>5, <2>8, <2>9 DEF Roomy
  <1>8. CASE StartRefresh \/ StartModeRead
    <2> DEFINE end == Marker("READ_END")
               gets == Gets(Readable(Groups))
               back == ReadBack(Groups)
    <2>1. PICK st : StartRead(st) BY <1>8 DEF StartRefresh, StartModeRead
    <2>2. queue' = Stop \o back \o end \/ queue' = gets \o end BY <2>1 DEF StartRead
    <2>3. /\ FitsIn(end, 1, 0) /\ FitsIn(gets, GroupCount, 0)
          /\ FitsIn(back, GroupCount + 1, 1)
      BY FitPieces, FitReads DEF EndMarkers
    <2> HIDE DEF end, gets, back
    <2> DEFINE p == Stop \o back
               q == p \o end
               r == gets \o end
    <2>4. FitsIn(p, GroupCount + 2, 1) BY <1>1, <2>3, FitJoin
    <2>5. queue' = q \/ queue' = r BY <2>2
    <2> HIDE DEF p
    <2>6. FitsIn(q, GroupCount + 3, 1) BY <1>1, <2>3, <2>4, FitJoin
    <2>7. FitsIn(r, GroupCount + 3, 1) BY <1>1, <2>3, FitJoin
    <2> HIDE DEF q, r
    <2>8. GroupCount + 3 \in Nat /\ GroupCount + 3 <= 2 * GroupCount + 3 BY <1>1
    <2> QED BY <2>5, <2>6, <2>7, <2>8 DEF Roomy
  <1>9. CASE FactoryRefused \/ SwitchNothing \/ ReadsDropped
    BY <1>9 DEF FactoryRefused, SwitchNothing, ReadsDropped
  <1> QED BY <1>2, <1>3, <1>4, <1>5, <1>6, <1>7, <1>8, <1>9 DEF ScheduleNext

LEMMA CheckRoom ==
  ASSUME IsFiniteSet(Groups), CheckNext PROVE queue' = queue \/ Roomy(queue')
  <1>1. GroupCount \in Nat BY SizeOfType
  <1>2. 2 <= 2 * GroupCount + 3 BY <1>1
  <1>3. ASSUME NEW p, FitsIn(p, 1, 1), NEW id \in EndMarkers, queue' = p \o Marker(id)
        PROVE  Roomy(queue')
    <2> DEFINE end == Marker(id)
               q == p \o end
    <2>1. FitsIn(end, 1, 0) BY FitPieces
    <2>2. queue' = q BY <1>3
    <2> HIDE DEF end
    <2>3. FitsIn(q, 2, 1) BY <1>3, <2>1, FitJoin
    <2> HIDE DEF q
    <2> QED BY <1>2, <2>2, <2>3 DEF Roomy
  <1>4. CASE CheckReport
    <2>1. queue' = queue \/ queue' = Start({"RECOVERY"}) \o Marker("RUN_DONE")
      BY <1>4 DEF CheckReport
    <2>2. FitsIn(Start({"RECOVERY"}), 1, 1) BY FitPieces
    <2> QED BY <1>3, <2>1, <2>2 DEF EndMarkers
  <1>5. CASE CheckLink
    <2> DEFINE p == <<Cmd("GET_SWV", 1, {})>>
    <2>1. queue' = p \o Marker("PING_END") BY <1>5 DEF CheckLink
    <2>2. FitsIn(p, 1, 1) BY FitCmd, RetriesType DEF WireIds
    <2> HIDE DEF p
    <2> QED BY <1>3, <2>1, <2>2 DEF EndMarkers
  <1>6. CASE ConfirmExpired BY <1>6 DEF ConfirmExpired
  <1> QED BY <1>4, <1>5, <1>6 DEF CheckNext

\* Between operations nothing is held.
LEMMA FitNewQueue ==
  ASSUME IsFiniteSet(Groups), TypeOK, FitInv, NewQueue \/ SameQueue,
         queue' = queue \/ Roomy(queue')
  PROVE  FitInv'
  <1>1. CASE SameQueue BY <1>1, FitFrame DEF SameQueue
  <1>2. CASE NewQueue /\ Roomy(queue')
    <2>1. Fits(queue', 0) BY <1>2, RoomyFits
    <2> QED BY <1>2, <2>1, FitOver DEF NewQueue
  <1>3. CASE NewQueue /\ queue' = queue
    <2>1. Fits(Held(queue, fly), 0) BY FitsSeen DEF FitInv, Waits
    <2>2. Fits(queue, 0)
      <3>1. CASE fly = Nil BY <2>1, <3>1, FitParting
      <3>2. CASE fly # Nil BY <2>1, <3>2, FitParting, FitsDrop
      <3> QED BY <3>1, <3>2
    <2> QED BY <1>3, <2>2, FitOver DEF NewQueue
  <1> QED BY <1>1, <1>2, <1>3

LEMMA FitNext ==
  ASSUME IsFiniteSet(Groups), TypeOK, EndInv, OrderInv, FitInv, [Next]_vars
  PROVE  FitInv'
  <1>1. CASE UNCHANGED vars BY <1>1, FitFrame DEF vars
  <1>2. CASE ScheduleNext BY <1>2, ScheduleQueue, ScheduleRoom, FitNewQueue
  <1>3. CASE CheckNext BY <1>3, CheckQueue, CheckRoom, FitNewQueue
  <1> QED BY <1>1, <1>2, <1>3, FitUser, FitWire, FitDrive DEF Next

LEMMA FitInit == ASSUME IsFiniteSet(Groups), Init PROVE FitInv
  BY FitsNone DEF Init, FitInv, Held, Waits, BootMode

LEMMA FitQueue == ASSUME IsFiniteSet(Groups), TypeOK, FitInv PROVE QueueFits
  <1> DEFINE m == Size(queue)
             k == Size(Held(queue, fly))
  <1>1. queue \in Seq(Command) BY FitParting
  <1>2. m \in Nat /\ k \in Nat /\ m <= k
    <2>1. CASE fly = Nil BY <1>1, <2>1, FitParting, SizeType
    <2>2. CASE fly # Nil
      <3>1. /\ Held(queue, fly) = <<fly>> \o queue /\ fly \in Command
            /\ Size(<<fly>> \o queue) = Size(<<fly>>) + Size(queue)
            /\ Size(<<fly>>) \in Nat /\ Size(queue) \in Nat
        BY <1>1, <2>2, FitParting, SizeCons
      <3> QED BY <3>1
    <2> QED BY <2>1, <2>2
  <1>3. k <= 2 * GroupCount + 4 BY DEF FitInv, Fits
  <1>4. m = Cardinality(Slots(queue)) BY <1>1, SizeSlots
  <1>5. GroupCount \in Nat BY SizeOfType
  <1> HIDE DEF m, k
  <1>6. m <= 2 * GroupCount + 4 BY <1>2, <1>3, <1>5
  <1> QED BY <1>4, <1>6 DEF QueueFits, GroupCount

\* The queue never holds more than two commands per group and four more, whatever
\* is answered, retried or reparsed, however many groups there are: it stays
\* below MAX_QUEUE, where enqueue_() would drop a command.
THEOREM QueueIsLargeEnough ==
  ASSUME IsFiniteSet(Groups) PROVE Spec => []QueueFits
  <1>1. Init => EndInv /\ OrderInv /\ FitInv BY EndInit, OrderInit, FitInit
  <1>2. /\ TypeOK /\ EndInv /\ OrderInv /\ FitInv /\ [Next]_vars
        => EndInv' /\ OrderInv' /\ FitInv'
    BY EndNext, OrderNext, FitNext
  <1>3. TypeOK /\ FitInv => QueueFits BY FitQueue
  <1> QED BY <1>1, <1>2, <1>3, TypeCorrect, PTL DEF Spec

-----------------------------------------------------------------------------
(* What a command does to a radar that runs, or does not.                  *)

Moving == {"STOP", "START", "SET_RUN_APP", "RESET_SYSTEM"}

LEMMA OutcomesRunning ==
  ASSUME TypeOK, NEW c \in WireCommand, NEW o \in Outcomes(c)
  PROVE  /\ c.id \notin Moving => o.radar.running = radar.running
         /\ c.id = "STOP" => o.radar.running = FALSE /\ o.result = "OK"
         /\ c.id \in {"START", "SET_RUN_APP"} =>
              \/ o.radar.running = TRUE
              \/ o.radar = radar /\ o.result \in {"ERROR", "UNSAVED"}
         /\ c.id = "RESET_SYSTEM" => o.radar.running = TRUE /\ o.result = "NONE"
         /\ c.id = "START" /\ o.result = "ERROR" => radar.running /\ HasModes
         /\ c.id = "START" => o.result \in {"OK", "ERROR", "UNSAVED"}
         /\ o.result = "NOT_STOPPED" => radar.running
         /\ o.result # "TIMEOUT"
  <1>1. c.id \in WireIds /\ c.groups \subseteq Groups /\ radar \in RadarType
    BY DEF WireCommand, Command, TypeOK, WireOK
  <1> USE DEF Moving
  <1>2. CASE c.id = "GET_GROUP"
    <2>1. PICK g \in Groups : o \in GetOutcomes(g) BY <1>1, <1>2 DEF Outcomes
    <2>2. o.radar = radar BY <1>1, <2>1, GetOutcomesType
    <2>3. o.result \in {"UNRECOGNIZED", "ERROR", "OK", "MALFORMED", "SHORT"}
      <3>1. \/ \E r \in {"UNRECOGNIZED", "ERROR", "MALFORMED", "SHORT"} : o = Out(radar, r)
            \/ o = [Out(radar, "OK") EXCEPT !.val = Now[g]]
        BY <2>1 DEF GetOutcomes
      <3> QED BY <3>1 DEF Out
    <2> QED BY <1>2, <2>2, <2>3
  <1>3. CASE c.id = "SET_GROUP"
    <2>1. PICK g \in Groups : o \in SetOutcomes(g) BY <1>1, <1>3 DEF Outcomes
    <2> QED BY <1>1, <1>3, <2>1, SetFields DEF SameRun
  <1>4. CASE c.id = "GET_SWV" BY <1>4 DEF Outcomes, Out
  <1>5. CASE c.id = "STOP"
    <2>1. o = Out([radar EXCEPT !.running = FALSE], "OK") BY <1>5 DEF Outcomes
    <2> QED BY <1>1, <1>5, <2>1 DEF Out, RadarType
  <1>6. CASE c.id = "START"
    <2>1. \/ o \in {Out(radar, "UNSAVED"), Out(Started(radar), "OK")}
          \/ o = Out(radar, "ERROR") /\ radar.running /\ HasModes
      BY <1>6 DEF Outcomes, StartOutcomes
    <2> QED BY <1>1, <1>6, <2>1 DEF Out, Started, RadarType
  <1>7. CASE c.id = "SAVE"
    BY <1>1, <1>7, SaveFields DEF Outcomes, SameRun
  <1>8. CASE c.id = "RESET_CFG"
    BY <1>1, <1>8, ResetCfgFields DEF Outcomes, SameRun
  <1>9. CASE c.id = "SET_RUN_APP"
    BY <1>1, <1>9, SetRunAppFields DEF Outcomes
  <1>10. CASE c.id = "RESET_SYSTEM"
    <2>1. o = Out(Rebooted, "NONE") BY <1>10 DEF Outcomes
    <2> QED BY <1>1, <1>10, <2>1, RebootedFields DEF Out
  <1> QED BY <1>1, <1>2, <1>3, <1>4, <1>5, <1>6, <1>7, <1>8, <1>9, <1>10 DEF WireIds

LEMMA WaitedRunning ==
  ASSUME TypeOK, NEW n, Waited(n) PROVE radar'.running = radar.running
  BY DEF Waited, TypeOK, WireOK, RadarType

-----------------------------------------------------------------------------
(* Settings reach a stopped radar.                                         *)

\* Once the stop of a transaction is done its settings meet a stopped radar.
SetInv ==
  "SET_GROUP" \in Left(queue, fly) /\ "STOP" \notin Left(queue, fly) => ~radar.running

\* Only a transaction sends settings.
LEMMA SetsInTxnNext ==
  ASSUME OrderInv', "SET_GROUP" \in Left(queue, fly)' PROVE op' = "TXN" /\ ~task'.failing
  BY DEF OrderInv, Orderly, Allowed

LEMMA SetElse == ASSUME OrderInv', op' # "TXN" PROVE SetInv'
  BY SetsInTxnNext DEF SetInv

LEMMA SetFrame ==
  ASSUME SetInv, UNCHANGED <<queue, fly>>, radar'.running = radar.running
  PROVE  SetInv'
  BY DEF SetInv, Left, Ids

\* Sending moves a command from the queue into flight.
LEMMA SendLeft == ASSUME TypeOK, Send PROVE Left(queue, fly)' = Left(queue, fly)
  <1> DEFINE h == Head(queue)
             g == CHOOSE g \in h.groups : TRUE
             more == [h EXCEPT !.groups = @ \ {g}]
             rest == IF h.groups = {} \/ h.groups = {g} THEN <<>> ELSE <<more>>
  <1>1. /\ queue \in Seq(Command) /\ queue # <<>> /\ h \in Command
        /\ Tail(queue) \in Seq(Command) /\ fly = Nil
        /\ Ids(queue) = {h.id} \cup Ids(Tail(queue))
    BY IdsHead DEF Send, TypeOK, ControlOK
  <1>2. /\ more \in Command /\ more.id = h.id
        /\ [h EXCEPT !.groups = {g}].id = h.id
        /\ h.groups # {} => [h EXCEPT !.groups = {g}] \in Command
    <2>1. h.groups # {} => g \in h.groups OBVIOUS
    <2> HIDE DEF g, h
    <2> QED BY <1>1, <2>1 DEF Command
  <1>3. rest \in Seq(Command) /\ Ids(rest) \subseteq {h.id}
    BY <1>2, IdsOne, IdsEmpty
  <1>4. queue' = rest \o Tail(queue)
    <2>1. CASE h.groups = {}
      <3>1. queue' = Tail(queue) BY <2>1 DEF Send
      <3> QED BY <1>1, <2>1, <3>1, ConcatEmptySeq
    <2>2. CASE h.groups # {} BY <2>2 DEF Send
    <2> QED BY <2>1, <2>2
  <1>5. fly'.id = h.id /\ fly' \in Command BY <1>1, <1>2 DEF Send
  <1>6. fly' # Nil BY <1>5, NilAssumption
  <1> HIDE DEF rest, h
  <1>7. Ids(queue') = Ids(rest) \cup Ids(Tail(queue))
    BY <1>1, <1>3, <1>4, IdsConcat
  <1>8. Left(queue', fly') = Left(queue, fly)
    BY <1>1, <1>3, <1>5, <1>6, <1>7 DEF Left
  <1>9. Left(queue, fly)' = Left(queue', fly') BY DEF Left, Ids
  <1> QED BY <1>8, <1>9

\* What a finished command leaves to be done.
LEMMA DoneLeft ==
  ASSUME TypeOK, NEW o, Complete(fly, o), fly # Nil
  PROVE  /\ Left(queue, fly)' = Ids(queue')
         /\ Ids(queue') \subseteq Ids(queue) \cup {"START", "SAVE", "FAIL_END", fly.id}
  <1>1. fly \in WireCommand /\ fly \in Command /\ queue \in Seq(Command)
    BY DEF TypeOK, WireOK, ControlOK, WireCommand
  <1>2. fly' = Nil BY DEF Complete
  <1>3. Left(queue, fly)' = Ids(queue') BY <1>2 DEF Left, Ids
  <1>4. Ids(queue') \subseteq Ids(queue) \cup {"START", "SAVE", "FAIL_END", fly.id}
    <2>1. CASE o.result = "MALFORMED" /\ "REPARSE" \notin fly.flags
      <3> DEFINE again == [fly EXCEPT !.flags = @ \cup {"REPARSE"}]
      <3>1. again \in Command /\ again.id = fly.id BY <1>1 DEF Command, Flags
      <3>2. queue' = <<again>> \o queue BY <2>1 DEF Complete
      <3> HIDE DEF again
      <3>3. <<again>> \in Seq(Command) /\ Ids(<<again>>) = {again.id}
        BY <3>1, IdsOne
      <3>4. Ids(<<again>> \o queue) = Ids(<<again>>) \cup Ids(queue)
        BY <1>1, <3>3, IdsConcat
      <3> QED BY <3>1, <3>2, <3>3, <3>4
    <2>2. CASE ~(o.result = "MALFORMED" /\ "REPARSE" \notin fly.flags)
      <3>1. OnDone(fly, o) BY <2>2 DEF Complete
      <3>2. DoneStep(fly, o) BY <1>1, <3>1, DoneQueue
      <3>3. \/ queue' \in {queue, FailQueue(fly), <<>>, Again(fly) \o queue}
            \/ queue' = Tail(queue) /\ queue # <<>>
        BY <3>2 DEF DoneStep, GoesOn, Fails, Dropped
      <3>4. /\ Ids(FailQueue(fly)) \subseteq {"START", "FAIL_END"} /\ Ids(<<>>) = {}
            /\ Ids(Again(fly) \o queue) = {"SAVE", "START"} \cup Ids(queue)
        <4>1. Again(fly) \in Seq(Command) /\ Ids(Again(fly)) = {"SAVE", "START"}
          BY <1>1, AgainType
        <4> QED BY <1>1, <4>1, IdsFailQueue, IdsEmpty, IdsConcat
      <3>5. queue # <<>> => Ids(Tail(queue)) \subseteq Ids(queue)
        BY <1>1, IdsTail
      <3> QED BY <3>3, <3>4, <3>5
    <2> QED BY <2>1, <2>2
  <1> QED BY <1>3, <1>4

\* With another command in flight no setting is queued.
LEMMA NoSetsQueued ==
  ASSUME OrderInv, fly # Nil, fly.id \notin {"STOP", "SET_GROUP"}
  PROVE  "SET_GROUP" \notin Left(queue, fly)
  BY DEF OrderInv, Orderly, Left, Work

LEMMA SetComplete ==
  ASSUME TypeOK, OrderInv, OrderInv', SetInv, fly # Nil, NEW o, Complete(fly, o),
         fly.id \notin Moving => radar'.running = radar.running,
         fly.id = "STOP" => radar'.running = FALSE \/ o.result = "TIMEOUT"
  PROVE  SetInv'
  <1>1. /\ Left(queue, fly)' = Ids(queue')
        /\ Ids(queue') \subseteq Ids(queue) \cup {"START", "SAVE", "FAIL_END", fly.id}
    BY DoneLeft
  <1>2. CASE fly.id \notin {"STOP", "SET_GROUP"}
    <2>1. "SET_GROUP" \notin Left(queue, fly) BY <1>2, NoSetsQueued
    <2> QED BY <1>1, <1>2, <2>1 DEF SetInv, Left
  <1>3. CASE fly.id = "SET_GROUP"
    <2>1. "STOP" \notin Ids(queue) BY DEF OrderInv, Orderly
    <2>2. ~radar.running BY <1>3, <2>1 DEF SetInv, Left
    <2> QED BY <1>3, <2>2 DEF SetInv, Moving
  <1>4. CASE fly.id = "STOP" /\ radar'.running = FALSE BY <1>4 DEF SetInv
  <1>5. CASE fly.id = "STOP" /\ o.result = "TIMEOUT"
    <2>1. StopDone(fly, o) BY <1>5 DEF Complete, OnDone
    <2>2. OpFailed(fly) BY <1>5, <2>1 DEF StopDone
    <2>3. task'.failing BY <2>2 DEF OpFailed, TypeOK, ControlOK, TaskType
    <2> QED BY <2>3, SetsInTxnNext DEF SetInv
  <1> QED BY <1>2, <1>3, <1>4, <1>5

LEMMA SetWire ==
  ASSUME TypeOK, OrderInv, OrderInv', SetInv, WireNext PROVE SetInv'
  <1>1. fly # Nil => fly \in WireCommand BY DEF TypeOK, WireOK
  <1>2. CASE Send
    <2>1. Left(queue, fly)' = Left(queue, fly) /\ radar' = radar
      BY <1>2, SendLeft DEF Send
    <2> QED BY <2>1 DEF SetInv
  <1>3. CASE Answer
    <2>1. PICK o \in Outcomes(fly) : radar' = o.radar /\ Complete(fly, o)
      BY <1>3 DEF Answer
    <2>2. fly # Nil BY <1>3 DEF Answer
    <2>3. /\ fly.id \notin Moving => radar'.running = radar.running
          /\ fly.id = "STOP" => radar'.running = FALSE
      BY <1>1, <2>1, <2>2, OutcomesRunning
    <2> QED BY <2>1, <2>2, <2>3, SetComplete
  <1>4. CASE CarriedOut
    <2>1. PICK o \in Outcomes(fly) : radar' = o.radar BY <1>4 DEF CarriedOut
    <2>2. fly # Nil /\ UNCHANGED <<queue, fly>> BY <1>4 DEF CarriedOut
    <2>3. CASE fly.id \notin Moving
      <3>1. radar'.running = radar.running
        BY <1>1, <2>1, <2>2, <2>3, OutcomesRunning
      <3> QED BY <2>2, <3>1, SetFrame
    <2>4. CASE fly.id \in Moving
      <3>1. "SET_GROUP" \notin Left(queue, fly) \/ "STOP" \in Left(queue, fly)
        BY <2>2, <2>4, NoSetsQueued DEF Moving, Left
      <3>2. Left(queue, fly)' = Left(queue, fly) BY <2>2 DEF Left, Ids
      <3> QED BY <3>1, <3>2 DEF SetInv
    <2> QED BY <2>3, <2>4
  <1>5. CASE CommandLost BY <1>5, SetFrame DEF CommandLost
  <1>6. CASE Timeout
    <2>1. fly # Nil /\ radar'.running = radar.running
      BY <1>6, WaitedRunning DEF Timeout
    <2>2. CASE fly.id \in NoReply
      <3>1. Complete(fly, Out(radar, "OK")) BY <1>6, <2>2 DEF Timeout
      <3> QED BY <2>1, <2>2, <3>1, SetComplete DEF NoReply
    <2>3. CASE fly.id \notin NoReply /\ fly.retries > 0
      <3>1. fly' = [fly EXCEPT !.retries = @ - 1] /\ queue' = queue
        BY <1>6, <2>3 DEF Timeout
      <3>2. fly' \in Command /\ fly'.id = fly.id
        BY <1>1, <2>1, <2>3, <3>1, RetriesType DEF WireCommand, Command
      <3>3. Left(queue, fly)' = Left(queue, fly)
        BY <2>1, <3>1, <3>2, NilAssumption DEF Left, Ids
      <3> QED BY <2>1, <3>3 DEF SetInv
    <2>4. CASE fly.id \notin NoReply /\ ~(fly.retries > 0)
      <3>1. Complete(fly, Out(radar, "TIMEOUT")) BY <1>6, <2>4 DEF Timeout
      <3> QED BY <2>1, <3>1, SetComplete DEF Out
    <2> QED BY <2>2, <2>3, <2>4
  <1>7. CASE Sentence
    <2>1. radar'.running = radar.running /\ UNCHANGED <<queue, fly>>
      BY <1>7 DEF Sentence, TypeOK, WireOK, RadarType
    <2> QED BY <2>1, SetFrame
  <1> QED BY <1>2, <1>3, <1>4, <1>5, <1>6, <1>7 DEF WireNext

LEMMA SetUser ==
  ASSUME TypeOK, OrderInv', SetInv, "power" \notin UserOps, UserNext PROVE SetInv'
  <1>1. CASE EspReboot BY <1>1, SetElse DEF EspReboot
  <1>2. CASE ~EspReboot
    <2>1. UNCHANGED <<queue, fly, radar>>
      BY <1>2 DEF UserNext, SetDesired, SetWorkMode, RequestRefresh, RequestRestart,
                  RequestFactoryReset, RequestRunning, Request, RadarPowerCycle
    <2> QED BY <2>1, SetFrame
  <1> QED BY <1>1, <1>2

LEMMA SetDrive ==
  ASSUME TypeOK, OrderInv, OrderInv', SetInv, DriveNext PROVE SetInv'
  <1>1. CASE SkipSave
    <2>1. /\ queue # <<>> /\ Head(queue).id = "SAVE" /\ queue' = Tail(queue)
          /\ UNCHANGED <<fly, radar>> /\ queue \in Seq(Command)
      BY <1>1 DEF SkipSave, Skippable, TypeOK, ControlOK
    <2>2. Ids(queue) = {"SAVE"} \cup Ids(Tail(queue)) BY <2>1, IdsHead
    <2>3. Left(queue, fly)' = Left(Tail(queue), fly) BY <2>1 DEF Left, Ids
    <2> QED BY <2>1, <2>2, <2>3 DEF SetInv, Left
  <1>2. CASE ProbeDone BY <1>2, SetElse DEF ProbeDone
  <1>3. CASE FirstRead
    <2>1. op' = op /\ "FIRST_READ" \in Ids(queue)
      BY <1>3, IdsTail DEF FirstRead, AtMarker, TypeOK, ControlOK
    <2>2. op # "TXN" BY <2>1 DEF OrderInv, Orderly, Left, Allowed
    <2> QED BY <2>1, <2>2, SetElse
  <1>4. CASE ReadEnd \/ BootReadEnd \/ TxnEnd \/ RunDone \/ FailEnd \/ PingEnd
    BY <1>4, SetElse DEF ReadEnd, BootReadEnd, TxnEnd, RunDone, FailEnd, EnterBackoff, PingEnd
  <1>5. CASE ModeWait
    <2>1. op' = op /\ "MODE_WAIT" \in Ids(queue)
      BY <1>5, IdsTail DEF ModeWait, AtMarker, TypeOK, ControlOK
    <2>2. op # "TXN" BY <2>1 DEF OrderInv, Orderly, Left, Allowed
    <2> QED BY <2>1, <2>2, SetElse
  <1>6. CASE ModeWaitSeen \/ ModeWaitExpired
    <2>1. op' = op /\ mode.waiting BY <1>6 DEF ModeWaitSeen, ModeWaitExpired
    <2>2. op # "TXN" BY <2>1 DEF OrderInv, Orderly
    <2> QED BY <2>1, <2>2, SetElse
  <1> QED BY <1>1, <1>2, <1>3, <1>4, <1>5, <1>6 DEF DriveNext

LEMMA SetSchedule ==
  ASSUME TypeOK, OrderInv', SetInv, ScheduleNext PROVE SetInv'
  <1>1. CASE ~StartTxn
    <2>1. \/ op' # "TXN"
          \/ UNCHANGED <<queue, fly, radar>>
      BY <1>1
      DEF ScheduleNext, StartProbe, StartRestart, FactoryRefused, StartFactoryReset,
          StartRun, SwitchNothing, StartModeSwitch, ReadsDropped, StartRefresh,
          StartModeRead, StartRead
    <2> QED BY <2>1, SetElse, SetFrame
  <1>2. CASE StartTxn
    <2> DEFINE dirty == {g \in Groups : want[g] # Nil}
               kept == {g \in dirty : Applicable(g)}
               sent == {g \in kept : Usable(g)}
               sets == Batch("SET_GROUP", sent, Retries)
               save == <<Cmd("SAVE", 1, {"OPTIONAL_SAVE"})>>
               back == ReadBack(sent)
               end == Marker("TXN_END")
    <2>1. CASE sent = {}
      <3>1. UNCHANGED <<queue, fly, radar>> BY <1>2, <2>1 DEF StartTxn
      <3> QED BY <3>1, SetFrame
    <2>2. CASE sent # {}
      <3>1. queue' = Stop \o sets \o save \o back \o end BY <1>2, <2>2 DEF StartTxn
      <3>2. sent \in SUBSET Groups OBVIOUS
      <3> HIDE DEF sent
      <3>3. sets \in Seq(Command) BY <3>2, BatchType, RetriesType DEF WireIds
      <3>4. save \in Seq(Command) BY CmdType, RetriesType DEF WireIds, Flags
      <3>5. back \in Seq(Command) /\ end \in Seq(Command)
        BY <3>2, ReadBackType, MarkerType DEF Markers, EndMarkers
      <3> HIDE DEF sets, save, back, end
      <3>6. "STOP" \in Ids(queue')
        BY <3>1, <3>3, <3>4, <3>5, StopType, IdsStop, Ids5
      <3> QED BY <3>6 DEF SetInv, Left, Ids
    <2> QED BY <2>1, <2>2
  <1> QED BY <1>1, <1>2

LEMMA SetCheck ==
  ASSUME TypeOK, OrderInv', SetInv, CheckNext PROVE SetInv'
  <1>1. \/ op' \in {"RUN_CTRL", "PING"}
        \/ UNCHANGED <<queue, fly, radar>>
    BY DEF CheckNext, CheckReport, CheckLink, ConfirmExpired
  <1> QED BY <1>1, SetElse, SetFrame

LEMMA SetNext ==
  ASSUME TypeOK, OrderInv, OrderInv', SetInv, "power" \notin UserOps, [Next]_vars
  PROVE  SetInv'
  <1>1. ASSUME UNCHANGED vars PROVE SetInv'
    BY <1>1, SetFrame DEF vars
  <1> QED BY <1>1, SetUser, SetWire, SetDrive, SetSchedule, SetCheck DEF Next

\* A radar that hears a set command of start_txn_() is stopped, whatever was
\* lost, mangled or refused before, unless it loses power on its own.
THEOREM SetsReachStopped ==
  ASSUME "power" \notin UserOps PROVE Spec => []SetsReachStoppedRadar
  <1>1. Init => OrderInv /\ EndInv /\ SetInv
    <2>1. ASSUME Init PROVE SetInv BY <2>1, IdsEmpty DEF Init, SetInv, Left
    <2> QED BY <2>1, OrderInit, EndInit
  <1>2. /\ TypeOK /\ EndInv /\ OrderInv /\ SetInv /\ [Next]_vars
        => EndInv' /\ OrderInv' /\ SetInv'
    BY EndNext, OrderNext, SetNext
  <1>3. OrderInv /\ SetInv => SetsReachStoppedRadar
    BY DEF OrderInv, Orderly, SetInv, Left, SetsReachStoppedRadar
  <1> QED BY <1>1, <1>2, <1>3, TypeCorrect, PTL DEF Spec

-----------------------------------------------------------------------------
(* A repeated start: sent again behind a save, it finds nothing unsaved.   *)

\* Commands other than a repeated start.
Once == {c \in Command : "START_RETRY" \notin c.flags}

AllOnce == queue \in Seq(Once) /\ fly \in Once \cup {Nil}

\* The commands that leave something to save.
Dirtying == {"SET_GROUP", "SET_RUN_APP"}

\* Only the SEN0395 asks for a save before a start.  The save goes out first, and
\* nothing is changed after it.
RetryInv ==
  ~AllOnce =>
    /\ ~HasModes
    /\ \/ task.failing
       \/ /\ Dirtying \cap Left(queue, fly) = {}
          /\ \/ ~radar.unsaved
             \/ fly = Nil /\ ~mode.waiting /\ queue # <<>> /\ Head(queue) = Cmd("SAVE", 1, {})
             \/ fly # Nil /\ fly.id = "SAVE"

LEMMA OnceParts ==
  /\ Once \subseteq Command /\ Nil \notin Once /\ Seq(Fresh) \subseteq Seq(Once)
  /\ <<>> \in Seq(Once) /\ \A c : FailQueue(c) \in Seq(Once)
  <1>1. Once \subseteq Command /\ Nil \notin Once BY NilAssumption DEF Once
  <1>2. Fresh \subseteq Once BY DEF Fresh, Once, Proper
  <1>3. Seq(Fresh) \subseteq Seq(Once) BY <1>2, SeqMonotonic
  <1>4. <<>> \in Seq(Once) OBVIOUS
  <1>5. ASSUME NEW c PROVE FailQueue(c) \in Seq(Once)
    <2> DEFINE s == Cmd("START", 1, {"FAILURE_PATH"})
               e == Cmd("FAIL_END", 0, {})
    <2>1. s \in Once /\ e \in Once
      BY CmdType, RetriesType DEF WireIds, Markers, EndMarkers, Flags, Once, Cmd
    <2> HIDE DEF s, e
    <2>2. <<s>> \in Seq(Once) /\ <<e>> \in Seq(Once) /\ <<>> \in Seq(Once) BY <2>1
    <2>3. FailQueue(c) \in {<<s>> \o <<e>>, <<>> \o <<e>>}
      BY DEF FailQueue, Marker, s, e
    <2> QED BY <2>2, <2>3, ConcatProperties
  <1> QED BY <1>1, <1>3, <1>4, <1>5

LEMMA OutcomesSaved ==
  ASSUME TypeOK, NEW c \in WireCommand, NEW o \in Outcomes(c)
  PROVE  /\ o.result = "UNSAVED" => c.id = "START" /\ ~HasModes /\ radar.unsaved
         /\ ~HasModes /\ ~radar.unsaved /\ c.id \notin Dirtying => ~o.radar.unsaved
         /\ ~HasModes /\ c.id = "SAVE" => ~o.radar.unsaved /\ o.result = "OK"
  <1>1. c.id \in WireIds /\ c.groups \subseteq Groups /\ radar \in RadarType
    BY DEF WireCommand, Command, TypeOK, WireOK
  <1> USE DEF Dirtying
  <1>2. CASE c.id = "GET_GROUP"
    <2>1. PICK g \in Groups : o \in GetOutcomes(g) BY <1>1, <1>2 DEF Outcomes
    <2>2. o.radar = radar BY <1>1, <2>1, GetOutcomesType
    <2>3. o.result # "UNSAVED"
      <3>1. \/ \E r \in {"UNRECOGNIZED", "ERROR", "MALFORMED", "SHORT"} : o = Out(radar, r)
            \/ o = [Out(radar, "OK") EXCEPT !.val = Now[g]]
        BY <2>1 DEF GetOutcomes
      <3> QED BY <3>1 DEF Out
    <2> QED BY <1>2, <2>2, <2>3
  <1>3. CASE c.id = "SET_GROUP"
    <2>1. PICK g \in Groups : o \in SetOutcomes(g) BY <1>1, <1>3 DEF Outcomes
    <2> QED BY <1>1, <1>3, <2>1, SetFields
  <1>4. CASE c.id = "GET_SWV" BY <1>4 DEF Outcomes, Out
  <1>5. CASE c.id = "STOP"
    <2>1. o = Out([radar EXCEPT !.running = FALSE], "OK") BY <1>5 DEF Outcomes
    <2> QED BY <1>1, <1>5, <2>1 DEF Out, RadarType
  <1>6. CASE c.id = "START"
    <2>1. \/ o = Out(radar, "UNSAVED") /\ ~HasModes /\ radar.unsaved
          \/ o = Out(Started(radar), "OK")
          \/ o = Out(radar, "ERROR")
      BY <1>6 DEF Outcomes, StartOutcomes
    <2> QED BY <1>1, <1>6, <2>1 DEF Out, Started, RadarType
  <1>7. CASE c.id = "SAVE" BY <1>1, <1>7, SaveFields DEF Outcomes
  <1>8. CASE c.id = "RESET_CFG" BY <1>1, <1>8, ResetCfgFields DEF Outcomes
  <1>9. CASE c.id = "SET_RUN_APP" BY <1>1, <1>9, SetRunAppFields DEF Outcomes
  <1>10. CASE c.id = "RESET_SYSTEM"
    <2>1. o = Out(Rebooted, "NONE") BY <1>10 DEF Outcomes
    <2> QED BY <1>1, <1>10, <2>1, RebootedFields DEF Out
  <1> QED BY <1>1, <1>2, <1>3, <1>4, <1>5, <1>6, <1>7, <1>8, <1>9, <1>10 DEF WireIds

LEMMA WaitedSaved ==
  ASSUME TypeOK, NEW n, Waited(n) PROVE radar'.unsaved = radar.unsaved
  BY DEF Waited, TypeOK, WireOK, RadarType

LEMMA RetryFrame ==
  ASSUME RetryInv, UNCHANGED <<queue, fly>>, task'.failing = task.failing,
         mode'.waiting => mode.waiting, radar'.unsaved => radar.unsaved
  PROVE  RetryInv'
  BY DEF RetryInv, AllOnce, Left, Ids

LEMMA RetryNone ==
  ASSUME queue' \in Seq(Once), fly' = Nil PROVE RetryInv'
  BY DEF RetryInv, AllOnce

LEMMA RetryNew == ASSUME NewQueue PROVE RetryInv'
  <1>1. queue' \in Seq(Once) BY OnceParts DEF NewQueue, Begun
  <1> QED BY <1>1, RetryNone DEF NewQueue

LEMMA RetryInit == ASSUME Init PROVE RetryInv
  BY OnceParts DEF Init, RetryInv, AllOnce

LEMMA RetrySend == ASSUME TypeOK, RetryInv, Send PROVE RetryInv'
  <1> DEFINE h == Head(queue)
             t == Tail(queue)
             g == CHOOSE g \in h.groups : TRUE
             one == [h EXCEPT !.groups = {g}]
             more == [h EXCEPT !.groups = @ \ {g}]
             rest == IF h.groups = {g} THEN <<>> ELSE <<more>>
  <1>1. /\ queue \in Seq(Command) /\ queue # <<>> /\ h \in Command
        /\ t \in Seq(Command) /\ fly = Nil
    BY DEF Send, TypeOK, ControlOK
  <1>2. /\ h.groups # {} => g \in h.groups /\ g \in Groups
        /\ h.groups \in SUBSET Groups
    BY <1>1 DEF Command
  <1>3. /\ h \in Once => (one \in Once \/ h.groups = {}) /\ more \in Once
        /\ one.id = h.id
    <2> HIDE DEF g, h
    <2> QED BY <1>1, <1>2 DEF Command, Once
  <1>4. \/ h.groups = {} /\ fly' = h /\ queue' = t
        \/ h.groups # {} /\ fly' = one /\ queue' = rest \o t
    BY DEF Send
  <1>5. fly'.id = h.id BY <1>3, <1>4
  <1>6. queue \in Seq(Once) => h \in Once /\ t \in Seq(Once) BY <1>1
  <1>7. /\ task'.failing = task.failing /\ mode' = mode /\ radar'.unsaved = radar.unsaved
        /\ Left(queue, fly)' = Left(queue, fly)
    BY SendLeft DEF Send
  <1>8. fly' # Nil
    <2>1. one \in Command \/ h.groups = {}
      <3> HIDE DEF g, h
      <3> QED BY <1>1, <1>2 DEF Command
    <2> QED BY <1>1, <1>4, <2>1, NilAssumption
  <1> HIDE DEF one, more, g, h, t
  <1>9. AllOnce => AllOnce'
    <2> SUFFICES ASSUME AllOnce PROVE AllOnce' OBVIOUS
    <2>1. h \in Once /\ t \in Seq(Once) BY <1>6 DEF AllOnce
    <2>2. CASE h.groups = {} BY <1>4, <2>1, <2>2 DEF AllOnce
    <2>3. CASE h.groups # {}
      <3>1. rest \in Seq(Once)
        <4>1. <<more>> \in Seq(Once) /\ <<>> \in Seq(Once) BY <1>3, <2>1
        <4> QED BY <4>1
      <3>2. rest \o t \in Seq(Once) BY <2>1, <3>1, ConcatProperties
      <3> QED BY <1>3, <1>4, <2>1, <2>3, <3>2 DEF AllOnce
    <2> QED BY <2>2, <2>3
  <1> SUFFICES ASSUME ~AllOnce' PROVE RetryInv' BY DEF RetryInv
  <1>10. Head(queue) = Cmd("SAVE", 1, {}) => fly'.id = "SAVE"
    BY <1>5 DEF Cmd, h
  <1> QED BY <1>1, <1>7, <1>8, <1>9, <1>10 DEF RetryInv

LEMMA RetryComplete ==
  ASSUME TypeOK, OrderInv, OrderInv', RetryInv, fly # Nil, NEW o, Complete(fly, o),
         o.result = "UNSAVED" => ~HasModes,
         o.result = "MALFORMED" => fly.id = "GET_GROUP",
         ~HasModes /\ ~radar.unsaved /\ fly.id \notin Dirtying => ~radar'.unsaved,
         ~HasModes /\ fly.id = "SAVE" => ~radar'.unsaved \/ o.result = "TIMEOUT"
  PROVE  RetryInv'
  <1>1. /\ fly \in WireCommand /\ fly \in Command /\ queue \in Seq(Command)
        /\ task.failing \in BOOLEAN
    BY DEF TypeOK, WireOK, ControlOK, WireCommand, TaskType
  <1>2. fly' = Nil /\ Left(queue, fly)' = Ids(queue') BY DoneLeft DEF Complete
  <1>3. ~mode'.waiting
    <2>1. ~mode.waiting BY DEF OrderInv, Orderly
    <2>2. mode' = mode \/ OnDone(fly, o) BY DEF Complete
    <2> QED BY <1>1, <2>1, <2>2, DoneQueue
  <1>4. ~AllOnce => /\ ~HasModes
                    /\ \/ task.failing
                       \/ /\ Dirtying \cap Left(queue, fly) = {}
                          /\ ~radar.unsaved \/ fly.id = "SAVE"
    BY DEF RetryInv
  <1>5. Dirtying \cap Left(queue, fly) = {} =>
          Dirtying \cap Left(queue, fly)' = {} /\ fly.id \notin Dirtying
    BY <1>2, DoneLeft DEF Left, Dirtying
  <1>6. CASE o.result = "MALFORMED" /\ "REPARSE" \notin fly.flags
    <2> DEFINE again == [fly EXCEPT !.flags = @ \cup {"REPARSE"}]
    <2>1. queue' = <<again>> \o queue /\ UNCHANGED <<task, mode>>
      BY <1>6 DEF Complete
    <2>2. fly \in Once => again \in Once BY <1>1 DEF Command, Flags, Once
    <2> HIDE DEF again
    <2>3. AllOnce => AllOnce'
      <3> SUFFICES ASSUME AllOnce PROVE AllOnce' OBVIOUS
      <3>1. queue \in Seq(Once) /\ again \in Once BY <2>2 DEF AllOnce
      <3>2. <<again>> \in Seq(Once) BY <3>1
      <3>3. queue' \in Seq(Once) BY <2>1, <3>1, <3>2, ConcatProperties
      <3> QED BY <1>2, <3>3 DEF AllOnce
    <2>4. fly.id = "GET_GROUP" BY <1>6
    <2> QED BY <1>4, <1>5, <2>1, <2>3, <2>4 DEF RetryInv
  <1>7. CASE ~(o.result = "MALFORMED" /\ "REPARSE" \notin fly.flags)
    <2>1. OnDone(fly, o) BY <1>7 DEF Complete
    <2>2. DoneStep(fly, o) BY <1>1, <2>1, DoneQueue
    <2>3. CASE /\ queue' = queue \/ (queue' = Tail(queue) /\ queue # <<>>)
               /\ task'.failing = task.failing
      <3>1. AllOnce => AllOnce'
        <4>1. queue \in Seq(Once) /\ queue # <<>> => Tail(queue) \in Seq(Once) OBVIOUS
        <4> QED BY <1>2, <2>3, <4>1 DEF AllOnce
      <3>2. ~HasModes /\ fly.id = "SAVE" => ~radar'.unsaved \/ task'.failing
        <4> SUFFICES ASSUME ~HasModes, fly.id = "SAVE", o.result = "TIMEOUT"
                     PROVE  task'.failing
          OBVIOUS
        <4>1. OpFailed(fly) BY <2>1 DEF OnDone, SaveDone
        <4> QED BY <4>1 DEF OpFailed, TypeOK, ControlOK, TaskType
      <3> QED BY <1>4, <1>5, <2>3, <3>1, <3>2 DEF RetryInv
    <2>4. CASE queue' = FailQueue(fly) \/ queue' = <<>>
      BY <1>2, <2>4, OnceParts, RetryNone
    <2>5. CASE GoesOn(Again(fly) \o queue) /\ fly.id = "START" /\ o.result = "UNSAVED"
      <3> DEFINE a == Cmd("SAVE", 1, {})
                 b == Cmd("START", 1, fly.flags \cup {"START_RETRY"})
      <3>1. Dirtying \cap Left(queue, fly) = {}
        BY <2>5 DEF OrderInv, Orderly, Left, Work, Dirtying
      <3>2. a \in Command /\ b \in Command
        <4>1. fly.flags \cup {"START_RETRY"} \in SUBSET Flags BY <1>1 DEF Command, Flags
        <4> QED BY <4>1, CmdType, RetriesType DEF WireIds
      <3>3. queue' = <<a, b>> \o queue BY <2>5 DEF GoesOn, Again
      <3> HIDE DEF a, b
      <3>4. Head(queue') = a /\ queue' # <<>>
        <4>1. <<a, b>> \in Seq(Command) /\ <<a, b>> # <<>> /\ Head(<<a, b>>) = a
          BY <3>2
        <4> QED BY <1>1, <3>3, <4>1, ConcatTail
      <3> QED BY <1>2, <1>3, <1>5, <2>5, <3>1, <3>4 DEF RetryInv, a
    <2> QED BY <2>2, <2>3, <2>4, <2>5 DEF DoneStep, GoesOn, Fails, Dropped
  <1> QED BY <1>6, <1>7

LEMMA RetryWire ==
  ASSUME TypeOK, OrderInv, OrderInv', RetryInv, WireNext PROVE RetryInv'
  <1>1. fly # Nil => fly \in WireCommand BY DEF TypeOK, WireOK
  <1>2. CASE Send BY <1>2, RetrySend
  <1>3. CASE Answer
    <2>1. PICK o \in Outcomes(fly) : radar' = o.radar /\ Complete(fly, o)
      BY <1>3 DEF Answer
    <2>2. fly # Nil BY <1>3 DEF Answer
    <2>3. /\ o.result = "UNSAVED" => ~HasModes
          /\ ~HasModes /\ ~radar.unsaved /\ fly.id \notin Dirtying => ~radar'.unsaved
          /\ ~HasModes /\ fly.id = "SAVE" => ~radar'.unsaved
      BY <1>1, <2>1, <2>2, OutcomesSaved
    <2>4. o.result = "MALFORMED" => fly.id = "GET_GROUP"
      BY <1>1, <2>2, MalformedGet
    <2> QED BY <2>1, <2>2, <2>3, <2>4, RetryComplete
  <1>4. CASE CarriedOut
    <2>1. PICK o \in Outcomes(fly) : radar' = o.radar BY <1>4 DEF CarriedOut
    <2>2. fly # Nil /\ UNCHANGED <<queue, fly, task, mode>> BY <1>4 DEF CarriedOut
    <2>3. ~HasModes /\ ~radar.unsaved /\ fly.id \notin Dirtying => ~radar'.unsaved
      BY <1>1, <2>1, <2>2, OutcomesSaved
    <2>4. Left(queue, fly)' = Left(queue, fly) /\ AllOnce' = AllOnce
      BY <2>2 DEF Left, Ids, AllOnce
    <2> QED BY <2>2, <2>3, <2>4 DEF RetryInv, Left
  <1>5. CASE CommandLost
    <2>1. UNCHANGED <<queue, fly, task, mode, radar>> BY <1>5 DEF CommandLost
    <2> QED BY <2>1, RetryFrame
  <1>6. CASE Timeout
    <2>1. fly # Nil /\ radar'.unsaved = radar.unsaved BY <1>6, WaitedSaved DEF Timeout
    <2>2. CASE fly.id \in NoReply
      <3>1. Complete(fly, Out(radar, "OK")) BY <1>6, <2>2 DEF Timeout
      <3>2. fly.id # "SAVE" /\ Out(radar, "OK").result = "OK" BY <2>2 DEF NoReply, Out
      <3> QED BY <2>1, <3>1, <3>2, RetryComplete
    <2>3. CASE fly.id \notin NoReply /\ fly.retries > 0
      <3>1. fly' = [fly EXCEPT !.retries = @ - 1] /\ UNCHANGED <<queue, task, mode>>
        BY <1>6, <2>3 DEF Timeout
      <3>2. /\ fly' \in Command /\ fly'.id = fly.id
            /\ fly \in Once => fly' \in Once
        BY <1>1, <2>1, <2>3, <3>1, RetriesType DEF WireCommand, Command, Once
      <3>3. Left(queue, fly)' = Left(queue, fly) /\ (AllOnce => AllOnce') /\ fly' # Nil
        BY <2>1, <3>1, <3>2, NilAssumption, OnceParts DEF Left, Ids, AllOnce
      <3> QED BY <2>1, <3>1, <3>2, <3>3 DEF RetryInv
    <2>4. CASE fly.id \notin NoReply /\ ~(fly.retries > 0)
      <3>1. Complete(fly, Out(radar, "TIMEOUT")) BY <1>6, <2>4 DEF Timeout
      <3>2. Out(radar, "TIMEOUT").result = "TIMEOUT" BY DEF Out
      <3> QED BY <2>1, <3>1, <3>2, RetryComplete
    <2> QED BY <2>2, <2>3, <2>4
  <1>7. CASE Sentence
    <2>1. UNCHANGED <<queue, fly, task>> /\ radar'.unsaved = radar.unsaved
      BY <1>7 DEF Sentence, TypeOK, WireOK, RadarType
    <2>2. mode' \in {mode, LearntMode(radar.app)} BY <1>7 DEF Sentence
    <2> QED BY <2>1, <2>2, LearntWaiting, RetryFrame
  <1> QED BY <1>2, <1>3, <1>4, <1>5, <1>6, <1>7 DEF WireNext

LEMMA RetryUser == ASSUME TypeOK, RetryInv, UserNext PROVE RetryInv'
  <1>1. CASE EspReboot BY <1>1, RetryNone, OnceParts DEF EspReboot
  <1>2. CASE RadarPowerCycle
    <2>1. UNCHANGED <<queue, fly, task, mode>> BY <1>2 DEF RadarPowerCycle
    <2>2. radar' = Rebooted BY <1>2 DEF RadarPowerCycle
    <2>3. ~radar'.unsaved BY <2>2, RebootedFields DEF TypeOK, WireOK
    <2> QED BY <2>1, <2>3, RetryFrame
  <1>3. CASE ~EspReboot /\ ~RadarPowerCycle
    <2>1. UNCHANGED <<queue, fly, radar>> /\ task' \in {task, [task EXCEPT !.error = TRUE]}
      BY <1>3 DEF UserNext, SetDesired, SetWorkMode, RequestRefresh, RequestRestart,
                  RequestFactoryReset, RequestRunning, Request
    <2>2. \/ mode' = mode \/ mode' = [mode EXCEPT !.shown = mode.reported]
          \/ \E m \in Modes : mode' = [mode EXCEPT !.want = m, !.shown = m]
      BY <1>3 DEF UserNext, SetDesired, SetWorkMode, RequestRefresh, RequestRestart,
                  RequestFactoryReset, RequestRunning, Request
    <2>3. mode'.waiting = mode.waiting BY <2>2 DEF TypeOK, ControlOK, ModeType
    <2>4. task'.failing = task.failing /\ radar'.unsaved = radar.unsaved
      BY <2>1, SameFailing
    <2> QED BY <2>1, <2>3, <2>4, RetryFrame
  <1> QED BY <1>1, <1>2, <1>3

LEMMA RetryDrive ==
  ASSUME TypeOK, EndInv, OrderInv, RetryInv, DriveNext PROVE RetryInv'
  <1>1. queue \in Seq(Command) BY DEF TypeOK, ControlOK
  <1>2. ASSUME UNCHANGED <<fly, task, radar>>, queue' = Tail(queue), queue # <<>>, fly = Nil,
               Head(queue) # Cmd("SAVE", 1, {})
        PROVE  RetryInv'
    <2>1. AllOnce => AllOnce'
      <3>1. queue \in Seq(Once) => Tail(queue) \in Seq(Once) BY <1>2
      <3> QED BY <1>2, <3>1 DEF AllOnce
    <2>2. Left(queue, fly)' \subseteq Left(queue, fly)
      <3>1. Left(queue, fly)' = Left(Tail(queue), fly) BY <1>2 DEF Left, Ids
      <3> QED BY <1>1, <1>2, <3>1, LeftTail
    <2>3. radar'.unsaved = radar.unsaved BY <1>2
    <2> QED BY <1>2, <2>1, <2>2, <2>3 DEF RetryInv
  <1>3. CASE SkipSave
    <2>1. Head(queue) # Cmd("SAVE", 1, {}) BY <1>3 DEF SkipSave, Skippable, Cmd
    <2> QED BY <1>2, <1>3, <2>1 DEF SkipSave
  <1>4. CASE ProbeDone
    <2> DEFINE p == Gets({RangeGroup})
               end == Marker("FIRST_READ")
    <2>1. fly = Nil /\ Tail(queue) = <<>>
      BY <1>4, OrderMarker DEF ProbeDone, EndMarkers
    <2>2. p \in Seq(Fresh) /\ end \in Seq(Fresh)
      BY GroupAssumption, FreshGets, FreshMarker DEF Markers, EndMarkers
    <2>3. queue' = <<>> \o p \o end /\ fly' = fly BY <1>4, <2>1 DEF ProbeDone
    <2> HIDE DEF p, end
    <2>4. queue' \in Seq(Once)
      <3>1. <<>> \o p = p BY <2>2, ConcatEmptySeq
      <3>2. p \o end \in Seq(Fresh) BY <2>2, ConcatProperties
      <3> QED BY <2>3, <3>1, <3>2, OnceParts
    <2> QED BY <2>1, <2>3, <2>4, RetryNone
  <1>5. CASE FirstRead BY <1>5, FirstReadQueue, RetryNew
  <1>6. ASSUME NEW id \in EndMarkers \ {"FAIL_END"}, AtMarker(id), queue' = Tail(queue),
               fly' = fly
        PROVE  RetryInv'
    <2>1. fly = Nil /\ Tail(queue) = <<>> BY <1>6, OrderMarker
    <2> QED BY <1>6, <2>1, RetryNone, OnceParts
  <1>7. CASE ReadEnd \/ BootReadEnd BY <1>6, <1>7 DEF ReadEnd, BootReadEnd, EndMarkers
  <1>8. CASE TxnEnd BY <1>6, <1>8 DEF TxnEnd, EndMarkers
  <1>9. CASE RunDone \/ PingEnd BY <1>6, <1>9 DEF RunDone, PingEnd, EndMarkers
  <1>10. CASE FailEnd BY <1>10, RetryNone, OnceParts DEF FailEnd, EnterBackoff, AtMarker
  <1>11. CASE ModeWait
    <2>1. Head(queue) # Cmd("SAVE", 1, {}) BY <1>11 DEF ModeWait, AtMarker, Cmd
    <2> QED BY <1>2, <1>11, <2>1 DEF ModeWait, AtMarker
  <1>12. CASE ModeWaitSeen
    <2>1. UNCHANGED <<queue, fly, task, radar>> /\ mode.waiting BY <1>12 DEF ModeWaitSeen
    <2>2. UNCHANGED <<Left(queue, fly), AllOnce, radar.unsaved>>
      BY <2>1 DEF Left, Ids, AllOnce
    <2>3. fly = Nil BY <2>1 DEF OrderInv, Orderly
    <2> QED BY <2>1, <2>2, <2>3 DEF RetryInv
  <1>13. CASE ModeWaitExpired
    <2> DEFINE start == Cmd("START", 1, {"RECOVERY"})
    <2>1. /\ queue' = <<start>> \o queue /\ UNCHANGED <<fly, task>> /\ mode.waiting
          /\ radar'.unsaved = radar.unsaved
      BY <1>13, WaitedSaved DEF ModeWaitExpired
    <2>2. start \in Once /\ start \in Command /\ start.id = "START"
      BY CmdType, RetriesType DEF WireIds, Flags, Once, Cmd
    <2>3. fly = Nil BY <2>1 DEF OrderInv, Orderly
    <2> HIDE DEF start
    <2>4. AllOnce => AllOnce'
      <3>1. <<start>> \in Seq(Once) BY <2>2
      <3>2. queue \in Seq(Once) => <<start>> \o queue \in Seq(Once)
        BY <3>1, ConcatProperties
      <3> QED BY <2>1, <3>2 DEF AllOnce
    <2>5. Ids(queue') = {"START"} \cup Ids(queue)
      <3>1. <<start>> \in Seq(Command) /\ Ids(<<start>>) = {"START"} BY <2>2, IdsOne
      <3> QED BY <1>1, <2>1, <3>1, IdsConcat
    <2>6. Left(queue, fly)' = {"START"} \cup Left(queue, fly)
      BY <2>1, <2>3, <2>5 DEF Left, Ids
    <2> QED BY <2>1, <2>3, <2>4, <2>6 DEF RetryInv, Dirtying
  <1> QED BY <1>3, <1>4, <1>5, <1>7, <1>8, <1>9, <1>10, <1>11, <1>12, <1>13 DEF DriveNext

LEMMA RetrySchedule ==
  ASSUME TypeOK, EndInv, OrderInv, RetryInv, ScheduleNext \/ CheckNext PROVE RetryInv'
  <1>1. NewQueue \/ SameQueue BY ScheduleQueue, CheckQueue
  <1>2. radar'.unsaved = radar.unsaved
    <2>1. radar' = radar \/ Waited(2)
      BY DEF ScheduleNext, StartProbe, StartRestart, FactoryRefused, StartFactoryReset,
             StartRun, StartTxn, SwitchNothing, StartModeSwitch, ReadsDropped,
             StartRefresh, StartModeRead, StartRead, CheckNext, CheckReport, CheckLink,
             ConfirmExpired
    <2> QED BY <2>1, WaitedSaved
  <1> QED BY <1>1, <1>2, RetryNew, RetryFrame DEF SameQueue

LEMMA RetryNext ==
  ASSUME TypeOK, EndInv, OrderInv, OrderInv', RetryInv, [Next]_vars PROVE RetryInv'
  <1>1. ASSUME UNCHANGED vars PROVE RetryInv'
    BY <1>1, RetryFrame DEF vars
  <1> QED BY <1>1, RetryUser, RetryWire, RetryDrive, RetrySchedule DEF Next

-----------------------------------------------------------------------------
(* A radar that the user did not stop runs between operations.             *)

Todo == Left(queue, fly)

\* The radar runs, or a start is going to follow the next identify-and-read
\* (RecoveryStart).
Found == radar.running \/ KnownStopped \/ belief.unconfirmed
Coming == Found \/ belief.recover

\* It runs, and where nothing but the engine stops it the engine knows.
Settled == radar.running /\ (HasModes \/ "power" \in UserOps \/ ~KnownStopped)

\* The first get of the identify-and-read is not yet done.
Reading == op = "BOOT_READ" /\ "FIRST_READ" \in Todo

\* Operations that leave the radar running.
Busy == \/ op \in {"READ", "TXN", "FACTORY_RESET", "RUN_CTRL", "PING"}
        \/ op = "BOOT_READ" /\ ~Reading

RunUser == ~belief.userStopped /\ req.run = "none"

\* Before the first identify-and-read is over nothing sets belief.recover.
RunFirst ==
  ~belief.everRunning =>
    /\ op \in {"NONE", "PROBE", "BOOT_READ"} /\ life # "RUNNING"
    /\ Found \/ "STOP" \in Todo

RunIdle ==
  /\ op = "NONE" /\ life = "RUNNING" => Settled
  /\ op = "RESTART" => radar.running

RunBoot == (op = "NONE" /\ life # "RUNNING") \/ op = "PROBE" \/ Reading => Coming

\* A mode switch starts no radar by itself: setRunApp does, or the start behind
\* a wait without a report, or the identify-and-read that follows.
RunSwitch ==
  op = "MODE_SWITCH" =>
    /\ \/ Coming \/ task.failing \/ mode.waiting
       \/ {"STOP", "START", "MODE_WAIT"} \cap Todo # {}
    /\ "SET_RUN_APP" \in Todo /\ "STOP" \notin Todo => radar.running \/ KnownStopped
    /\ "SET_RUN_APP" \in Todo => "MODE_WAIT" \in Todo
    /\ mode.waiting \/ "MODE_WAIT" \in Todo =>
         Coming \/ ~mode.seen \/ {"SET_RUN_APP", "STOP", "START"} \cap Todo # {}

\* Any other operation has its start still to do, unless it fails.
RunBusy ==
  Busy => /\ Settled \/ "START" \in Todo \/ task.failing
          /\ "STOP" \in Todo => "START" \in Todo

RunInv == RunUser /\ RunFirst /\ RunIdle /\ RunBoot /\ RunSwitch /\ RunBusy

\* The commands and markers RunInv asks about.
Watched == {"STOP", "START", "SET_RUN_APP", "MODE_WAIT", "FIRST_READ"}

LEMMA RunInit == ASSUME Init PROVE RunInv
  <1>1. /\ op = "NONE" /\ life = "BOOT_WAIT" /\ belief = BootBelief /\ req = BootReq
        /\ radar.running = TRUE
    BY DEF Init
  <1>2. /\ ~belief.userStopped /\ req.run = "none" BY <1>1 DEF BootBelief, BootReq
  <1> QED BY <1>1, <1>2 DEF RunInv, RunUser, RunFirst, RunIdle, RunBoot, RunSwitch,
          RunBusy, Reading, Busy, Coming, Found

\* A step that starts the radar at most, and leaves what is left to do.
LEMMA RunKeep ==
  ASSUME RunInv, UNCHANGED <<life, op>>, RunUser',
         \A id \in Watched : id \in Todo' <=> id \in Todo,
         task'.failing = task.failing, mode'.waiting = mode.waiting,
         belief'.everRunning = belief.everRunning, belief'.recover = belief.recover,
         belief'.unconfirmed = belief.unconfirmed,
         radar.running => radar'.running,
         KnownStopped' = KnownStopped \/ (radar'.running /\ ~KnownStopped'),
         mode'.seen => mode.seen \/ radar'.running
  PROVE  RunInv'
  <1> USE DEF RunInv, Watched, Coming, Found
  <1>1. RunFirst' BY DEF RunFirst
  <1>2. RunIdle' BY DEF RunIdle, Settled
  <1>3. RunBoot' BY DEF RunBoot, Reading
  <1>4. RunSwitch' BY DEF RunSwitch
  <1>5. RunBusy' BY DEF RunBusy, Busy, Reading, Settled
  <1> QED BY <1>1, <1>2, <1>3, <1>4, <1>5

\* The operation fails, or goes on failing.
LEMMA RunFail ==
  ASSUME RunInv, UNCHANGED <<life, op>>, RunUser', task'.failing, ~mode'.waiting,
         Todo' \cap Watched \subseteq {"START"}, op \notin {"NONE", "PROBE", "RESTART"},
         belief'.everRunning = belief.everRunning, Found' \/ belief.everRunning
  PROVE  RunInv'
  BY DEF RunInv, Watched, Coming, RunFirst, RunIdle, RunBoot, RunSwitch, RunBusy, Busy,
         Reading

\* The radar runs.
LEMMA RunSettled ==
  ASSUME RunInv, UNCHANGED <<life, op>>, RunUser', Settled',
         "STOP" \in Todo' => "START" \in Todo',
         "SET_RUN_APP" \in Todo' => "MODE_WAIT" \in Todo',
         belief'.everRunning = belief.everRunning
  PROVE  RunInv'
  BY DEF RunInv, Settled, Coming, Found, RunFirst, RunIdle, RunBoot, RunSwitch, RunBusy,
         Busy

\* The link is given up.
LEMMA RunOver ==
  ASSUME RunInv, op' = "NONE", life' # "RUNNING", RunUser',
         belief'.everRunning = belief.everRunning, Coming', Found' \/ belief.everRunning
  PROVE  RunInv'
  BY DEF RunInv, RunFirst, RunIdle, RunBoot, RunSwitch, RunBusy, Busy, Reading

\* A finished command is no longer to do, what is queued is.
LEMMA TodoDone ==
  ASSUME TypeOK, OrderInv, fly # Nil, fly' = Nil
  PROVE  /\ Todo' = Ids(queue') /\ Todo = Ids(queue) \cup {fly.id}
         /\ "STOP" \notin Ids(queue) /\ ~mode.waiting
         /\ fly.id \notin {"STOP", "SET_GROUP"} => Ids(queue) \cap Ordering = {}
         /\ fly.id \in Allowed(op)
         /\ task.failing => Todo \subseteq {"START", "SAVE", "FAIL_END"}
         /\ "FIRST_READ" \in Ids(queue) => fly.id = "GET_GROUP"
  <1>1. Todo' = Ids(queue') BY DEF Todo, Left, Ids
  <1>2. Todo = Ids(queue) \cup {fly.id} BY DEF Todo, Left
  <1>3. /\ "STOP" \notin Ids(queue) /\ ~mode.waiting /\ Todo \subseteq Allowed(op)
        /\ task.failing => Todo \subseteq {"START", "SAVE", "FAIL_END"}
        /\ "FIRST_READ" \in Ids(queue) => Todo \subseteq {"GET_GROUP", "FIRST_READ"}
    BY DEF OrderInv, Orderly, Todo
  <1>4. fly.id \notin {"STOP", "SET_GROUP"} => Ids(queue) \cap Ordering = {}
    BY CalmBehind DEF OrderInv
  <1>5. fly.id # "FIRST_READ" BY DEF TypeOK, WireOK, WireCommand, WireIds
  <1> QED BY <1>1, <1>2, <1>3, <1>4, <1>5

\* What the belief keeps when a command is done.
SameBelief ==
  /\ belief'.everRunning = belief.everRunning /\ belief'.recover = belief.recover
  /\ belief'.userStopped = belief.userStopped /\ UNCHANGED <<life, req>>

\* The commands that leave the radar running or stopped as it was.
Still == {"GET_GROUP", "SET_GROUP", "SAVE", "RESET_CFG"}

LEMMA StillDone ==
  ASSUME TypeOK, NEW c \in WireCommand, NEW o, OnDone(c, o), c.id \in Still
  PROVE  /\ SameBelief /\ belief'.unconfirmed = belief.unconfirmed /\ mode' = mode
         /\ KnownStopped' = KnownStopped
              \/ (o.result = "NOT_STOPPED" /\ ~KnownStopped')
  <1> USE DEF SameBelief, Still, KnownStopped
  <1>1. belief \in BeliefType BY DEF TypeOK, ControlOK
  <1>2. CASE c.id = "GET_GROUP"
    <2>1. GetGroupDone(c, o) BY <1>2 DEF OnDone
    <2>2. PICK g \in c.groups :
            IF o.result = "OK" THEN GetApplied(g, o.val) ELSE GetFailed(c, g, o.result)
      BY <2>1 DEF GetGroupDone
    <2>3. belief' \in {belief, [belief EXCEPT !.requiresStop = TRUE]}
      BY <2>2 DEF GetApplied, GetFailed
    <2> QED BY <1>1, <2>1, <2>3 DEF GetGroupDone, BeliefType
  <1>3. CASE c.id \in {"SET_GROUP", "SAVE"}
    <2>1. /\ UNCHANGED <<life, req, mode>>
          /\ \/ belief' = belief
             \/ /\ belief' = [belief EXCEPT !.running = TRUE, !.known = TRUE]
                /\ o.result = "NOT_STOPPED"
      BY <1>3 DEF OnDone, SetGroupDone, SaveDone
    <2> QED BY <1>1, <2>1 DEF BeliefType
  <1>4. CASE c.id = "RESET_CFG"
    <2>1. UNCHANGED <<life, req, mode, belief>> BY <1>4 DEF OnDone, ResetCfgDone
    <2> QED BY <2>1
  <1> QED BY <1>2, <1>3, <1>4

LEMMA RunStill ==
  ASSUME TypeOK, OrderInv, RunInv, fly # Nil, fly.id \in Still, NEW o, Complete(fly, o),
         radar'.running = radar.running, o.result = "NOT_STOPPED" => radar.running
  PROVE  RunInv'
  <1>1. fly \in WireCommand /\ queue \in Seq(Command) /\ fly \in Command
    BY DEF TypeOK, WireOK, ControlOK, WireCommand
  <1>2. /\ Todo' = Ids(queue') /\ Todo = Ids(queue) \cup {fly.id} /\ ~mode.waiting
        /\ "STOP" \notin Todo /\ fly.id \in Allowed(op) /\ fly.id \notin Watched
    BY TodoDone DEF Complete, Still, Watched
  <1>3. op \notin {"NONE", "PROBE", "RESTART"} BY <1>2 DEF Still, Allowed
  <1>4. RunUser /\ (Found \/ belief.everRunning)
    BY <1>2 DEF RunInv, RunFirst
  <1>5. CASE o.result = "MALFORMED" /\ "REPARSE" \notin fly.flags
    <2> DEFINE again == [fly EXCEPT !.flags = @ \cup {"REPARSE"}]
    <2>1. queue' = <<again>> \o queue /\ UNCHANGED <<life, op, req, task, belief, mode>>
      BY <1>5 DEF Complete
    <2>2. again \in Command /\ again.id = fly.id BY <1>1 DEF Command, Flags
    <2> HIDE DEF again
    <2>3. Todo' = Todo
      <3>1. <<again>> \in Seq(Command) /\ Ids(<<again>>) = {fly.id} BY <2>2, IdsOne
      <3>2. Ids(<<again>> \o queue) = Ids(<<again>>) \cup Ids(queue)
        BY <1>1, <3>1, IdsConcat
      <3> QED BY <1>2, <2>1, <3>1, <3>2
    <2>4. KnownStopped' = KnownStopped BY <2>1 DEF KnownStopped
    <2>5. RunUser' BY <1>4, <2>1 DEF RunUser
    <2> QED BY <2>1, <2>3, <2>4, <2>5, RunKeep
  <1>6. CASE ~(o.result = "MALFORMED" /\ "REPARSE" \notin fly.flags)
    <2>1. OnDone(fly, o) BY <1>6 DEF Complete
    <2>2. /\ SameBelief /\ belief'.unconfirmed = belief.unconfirmed /\ mode' = mode
          /\ KnownStopped' = KnownStopped
               \/ (o.result = "NOT_STOPPED" /\ ~KnownStopped')
      BY <1>1, <2>1, StillDone
    <2>3. GoesOn(queue) \/ Fails(fly)
      BY <1>1, <2>1, DoneQueue DEF DoneStep, Still
    <2>4. RunUser' BY <1>4, <2>2 DEF RunUser, SameBelief
    <2>5. CASE GoesOn(queue)
      <3>1. \A id \in Watched : id \in Todo' <=> id \in Todo
        BY <1>2, <2>5 DEF GoesOn
      <3> QED BY <2>2, <2>4, <2>5, <3>1, RunKeep DEF GoesOn, SameBelief
    <2>6. CASE Fails(fly)
      <3>1. Todo' \cap Watched \subseteq {"START"}
        BY <1>2, <2>6, IdsFailQueue DEF Fails, Watched
      <3>2. Found' \/ belief.everRunning
        BY <1>4, <2>2 DEF Found
      <3> QED BY <1>2, <1>3, <2>2, <2>4, <2>6, <3>1, <3>2, RunFail DEF Fails, SameBelief
    <2> QED BY <2>3, <2>5, <2>6
  <1> QED BY <1>5, <1>6

LEMMA RunVersion ==
  ASSUME TypeOK, OrderInv, RunInv, fly # Nil, fly.id = "GET_SWV", NEW o,
         Complete(fly, o), o.result # "MALFORMED", radar'.running = radar.running
  PROVE  RunInv'
  <1>1. GetSwvDone(fly, o) /\ fly' = Nil BY DEF Complete, OnDone
  <1>2. /\ Todo' = Ids(queue') /\ Todo = Ids(queue) \cup {fly.id} /\ ~mode.waiting
        /\ "STOP" \notin Todo
    BY <1>1, TodoDone
  <1>3. belief \in BeliefType /\ mode \in ModeType BY DEF TypeOK, ControlOK
  <1>4. RunUser /\ (Found \/ belief.everRunning)
    BY <1>2 DEF RunInv, RunFirst
  <1>5. CASE o.result = "TIMEOUT"
    <2>1. /\ op' = "NONE" /\ life' = "BACKOFF" /\ req' = req
          /\ belief' = [belief EXCEPT !.recover = @ \/ belief.everRunning, !.armed = FALSE]
      BY <1>1, <1>5 DEF GetSwvDone, EnterBackoff
    <2>2. /\ belief'.everRunning = belief.everRunning
          /\ belief'.recover = (belief.recover \/ belief.everRunning)
          /\ belief'.userStopped = belief.userStopped
          /\ belief'.unconfirmed = belief.unconfirmed
          /\ belief'.running = belief.running /\ belief'.known = belief.known
      BY <1>3, <2>1 DEF BeliefType
    <2>3. Found' = Found BY <2>2 DEF Found, KnownStopped
    <2>4. RunUser' BY <1>4, <2>1, <2>2 DEF RunUser
    <2>5. Coming' BY <1>4, <2>2, <2>3 DEF Coming
    <2> QED BY <1>4, <2>1, <2>2, <2>3, <2>4, <2>5, RunOver
  <1>6. CASE o.result # "TIMEOUT"
    <2>1. UNCHANGED <<life, op, queue, req, task, belief, mode>>
      BY <1>1, <1>6 DEF GetSwvDone
    <2>2. \A id \in Watched : id \in Todo' <=> id \in Todo
      BY <1>2, <2>1 DEF Watched
    <2>3. KnownStopped' = KnownStopped /\ RunUser'
      BY <1>4, <2>1 DEF KnownStopped, RunUser
    <2> QED BY <2>1, <2>2, <2>3, RunKeep
  <1> QED BY <1>5, <1>6

LEMMA RunStop ==
  ASSUME TypeOK, OrderInv, RunInv, fly # Nil, fly.id = "STOP", NEW o,
         Complete(fly, o), o.result # "MALFORMED",
         o.result = "TIMEOUT" => radar'.running = radar.running
  PROVE  RunInv'
  <1>1. StopDone(fly, o) /\ fly' = Nil BY DEF Complete, OnDone
  <1>2. /\ Todo' = Ids(queue') /\ Todo = Ids(queue) \cup {"STOP"} /\ ~mode.waiting
        /\ "STOP" \notin Ids(queue) /\ "STOP" \in Allowed(op)
        /\ "FIRST_READ" \notin Todo /\ ~task.failing
    BY <1>1, TodoDone
  <1>3. belief \in BeliefType /\ task \in TaskType BY DEF TypeOK, ControlOK
  <1>4. op \notin {"NONE", "PROBE", "RESTART", "PING"} BY <1>2 DEF Allowed
  <1>5. RunUser BY DEF RunInv
  <1>6. CASE o.result = "TIMEOUT"
    <2>1. /\ belief' = [belief EXCEPT !.unconfirmed = TRUE] /\ OpFailed(fly)
          /\ UNCHANGED <<life, op, req, mode>>
      BY <1>1, <1>6 DEF StopDone
    <2>2. queue' = FailQueue(fly) /\ task'.failing
      BY <1>2, <1>3, <2>1 DEF OpFailed, TaskType
    <2>3. Todo' \cap Watched \subseteq {"START"}
      BY <1>2, <2>2, IdsFailQueue DEF Watched
    <2>4. /\ belief'.everRunning = belief.everRunning /\ Found'
          /\ belief'.userStopped = belief.userStopped
      BY <1>3, <2>1 DEF BeliefType, Found
    <2>5. RunUser' BY <1>5, <2>1, <2>4 DEF RunUser
    <2> QED BY <1>2, <1>4, <2>1, <2>2, <2>3, <2>4, <2>5, RunFail
  <1>7. CASE o.result # "TIMEOUT"
    <2>1. /\ belief' = [belief EXCEPT !.running = FALSE, !.known = TRUE]
          /\ UNCHANGED <<life, op, req, mode, queue, task>>
      BY <1>1, <1>7 DEF StopDone
    <2>2. /\ KnownStopped' /\ belief'.everRunning = belief.everRunning
          /\ belief'.userStopped = belief.userStopped
      BY <1>3, <2>1 DEF BeliefType, KnownStopped
    <2>3. RunUser' BY <1>5, <2>1, <2>2 DEF RunUser
    <2>4. Todo' = Ids(queue) BY <1>2, <2>1
    <2> HIDE DEF KnownStopped
    <2>5. RunFirst' BY <2>1, <2>2 DEF RunInv, RunFirst, Found
    <2>6. RunIdle' /\ RunBoot'
      BY <1>2, <1>4, <2>1, <2>4 DEF RunIdle, RunBoot, Reading
    <2>7. RunSwitch'
      BY <1>2, <2>1, <2>2, <2>4 DEF RunInv, RunSwitch, Coming, Found
    <2>8. RunBusy'
      BY <1>2, <2>1, <2>4 DEF RunInv, RunBusy, Busy, Reading
    <2> QED BY <2>3, <2>5, <2>6, <2>7, <2>8 DEF RunInv
  <1> QED BY <1>6, <1>7

LEMMA RunStart ==
  ASSUME TypeOK, OrderInv, RetryInv, RunInv, fly # Nil, fly.id = "START", NEW o,
         Complete(fly, o), o.result \in {"OK", "ERROR", "UNSAVED", "TIMEOUT"},
         o.result = "OK" => radar'.running,
         o.result # "OK" => radar'.running = radar.running,
         o.result = "ERROR" => radar.running /\ HasModes,
         o.result = "UNSAVED" => radar.unsaved
  PROVE  RunInv'
  <1>1. StartDone(fly, o) /\ fly' = Nil BY DEF Complete, OnDone
  <1>2. /\ fly \in Command /\ queue \in Seq(Command) /\ belief \in BeliefType
        /\ task \in TaskType
    BY DEF TypeOK, ControlOK, WireOK, WireCommand
  <1>3. /\ Todo' = Ids(queue') /\ Todo = Ids(queue) \cup {"START"} /\ ~mode.waiting
        /\ Todo \cap Ordering = {} /\ "START" \in Allowed(op)
        /\ "FIRST_READ" \notin Todo
        /\ task.failing => Todo \subseteq {"START", "SAVE", "FAIL_END"}
    BY <1>1, TodoDone DEF Ordering, Work
  <1>4. op \notin {"NONE", "PROBE", "RESTART", "PING"} BY <1>3 DEF Allowed
  <1>5. RunUser /\ (Found \/ belief.everRunning)
    BY <1>3 DEF RunInv, RunFirst, Ordering
  <1>6. UNCHANGED <<life, op, req, mode>> BY <1>1 DEF StartDone
  <1>7. CASE o.result = "OK" \/ (o.result = "ERROR" /\ "RECOVERY" \in fly.flags)
    <2>1. /\ belief' = [belief EXCEPT !.running = TRUE, !.known = TRUE,
                                      !.unconfirmed = FALSE]
          /\ queue' = queue
      BY <1>1, <1>7 DEF StartDone
    <2>2. /\ ~KnownStopped' /\ belief'.everRunning = belief.everRunning
          /\ belief'.userStopped = belief.userStopped
      BY <1>2, <2>1 DEF BeliefType, KnownStopped
    <2>3. Settled' BY <1>7, <2>2 DEF Settled
    <2>4. RunUser' BY <1>5, <1>6, <2>2 DEF RunUser
    <2>5. "STOP" \notin Todo' /\ "SET_RUN_APP" \notin Todo'
      BY <1>3, <2>1 DEF Ordering, Work
    <2> QED BY <1>6, <2>2, <2>3, <2>4, <2>5, RunSettled
  <1>8. CASE ~(o.result = "OK" \/ (o.result = "ERROR" /\ "RECOVERY" \in fly.flags))
    <2>1. belief' = belief BY <1>1, <1>8 DEF StartDone
    <2>2. KnownStopped' = KnownStopped /\ RunUser'
      BY <1>5, <1>6, <2>1 DEF KnownStopped, RunUser
    <2>3. Found' \/ belief.everRunning BY <1>5, <1>8, <2>1, <2>2 DEF Found
    <2>4. ASSUME (queue' = queue /\ task.failing) \/ queue' = FailQueue(fly),
                 task'.failing
          PROVE  RunInv'
      <3>1. queue' = queue => Todo' \subseteq Todo BY <1>3
      <3>2. CASE task.failing
        <4>1. Todo' \cap Watched \subseteq {"START"}
          BY <1>3, <2>4, <3>1, <3>2, IdsFailQueue DEF Watched
        <4> QED BY <1>3, <1>4, <1>6, <2>1, <2>2, <2>3, <2>4, <4>1, RunFail
      <3>3. CASE queue' = FailQueue(fly)
        <4>1. Todo' \cap Watched \subseteq {"START"}
          BY <1>3, <3>3, IdsFailQueue DEF Watched
        <4> QED BY <1>3, <1>4, <1>6, <2>1, <2>2, <2>3, <2>4, <4>1, RunFail
      <3> QED BY <2>4, <3>2, <3>3
    <2>5. CASE o.result = "UNSAVED" /\ "START_RETRY" \notin fly.flags
      <3>1. queue' = Again(fly) \o queue /\ task' = task
        BY <1>1, <2>5 DEF StartDone, Again
      <3>2. Again(fly) \in Seq(Command) /\ Ids(Again(fly)) = {"SAVE", "START"}
        BY <1>2, AgainType
      <3>3. Ids(Again(fly) \o queue) = {"SAVE", "START"} \cup Ids(queue)
        BY <1>2, <3>2, IdsConcat
      <3>4. \A id \in Watched : id \in Todo' <=> id \in Todo
        BY <1>3, <3>1, <3>3 DEF Watched
      <3> QED BY <1>6, <1>8, <2>1, <2>2, <3>1, <3>4, RunKeep
    <2>6. CASE o.result = "UNSAVED" /\ "START_RETRY" \in fly.flags
      <3>1. ~AllOnce BY <2>6 DEF AllOnce, Once
      <3>2. task.failing BY <2>6, <3>1 DEF RetryInv
      <3>3. queue' = queue /\ task' = [task EXCEPT !.error = TRUE]
        BY <1>1, <2>6 DEF StartDone, SetError
      <3>4. task'.failing BY <3>2, <3>3, SameFailing
      <3> QED BY <2>4, <3>3, <3>4
    <2>7. CASE o.result = "TIMEOUT"
      <3>1. IF "FAILURE_PATH" \in fly.flags THEN UNCHANGED <<queue, task>>
            ELSE OpFailed(fly)
        BY <1>1, <2>7 DEF StartDone
      <3>2. "FAILURE_PATH" \in fly.flags => task.failing
        BY DEF OrderInv, Orderly, Proper
      <3>3. OpFailed(fly) =>
              /\ task'.failing
              /\ (queue' = queue /\ task.failing) \/ queue' = FailQueue(fly)
        BY <1>2 DEF OpFailed, TaskType
      <3>4. UNCHANGED <<queue, task>> /\ task.failing => task'.failing OBVIOUS
      <3> QED BY <2>4, <3>1, <3>2, <3>3, <3>4
    <2>8. CASE o.result = "ERROR"
      <3>1. queue' = queue BY <1>1, <1>8, <2>8 DEF StartDone
      <3>2. Settled' BY <2>8 DEF Settled
      <3>3. "STOP" \notin Todo' /\ "SET_RUN_APP" \notin Todo'
        BY <1>3, <3>1 DEF Ordering, Work
      <3> QED BY <1>6, <2>1, <2>2, <3>2, <3>3, RunSettled
    <2> QED BY <1>8, <2>5, <2>6, <2>7, <2>8
  <1> QED BY <1>7, <1>8

\* A start that is answered with Done starts the radar, and nothing else does.
LEMMA StartRuns ==
  ASSUME TypeOK, NEW c \in WireCommand, NEW o \in Outcomes(c), c.id = "START"
  PROVE  /\ o.result = "OK" => o.radar.running
         /\ o.result # "OK" => o.radar.running = radar.running
  <1>1. o \in {Out(radar, "UNSAVED"), Out(Started(radar), "OK"), Out(radar, "ERROR")}
    BY DEF Outcomes, StartOutcomes
  <1> QED BY <1>1 DEF Out, Started, TypeOK, WireOK, RadarType

\* setRunApp answers only when it is refused.
LEMMA SwitchSilent ==
  ASSUME TypeOK, NEW c \in WireCommand, NEW o \in Outcomes(c), c.id = "SET_RUN_APP",
         o.result # "NONE"
  PROVE  o.radar.running = radar.running
  <1>1. o \in SetRunAppOutcomes BY DEF Outcomes
  <1> QED BY <1>1, SetRunAppFields DEF TypeOK, WireOK

LEMMA RunSwitched ==
  ASSUME TypeOK, OrderInv, RunInv, fly # Nil, fly.id = "SET_RUN_APP", NEW o,
         Complete(fly, o), o.result # "MALFORMED", radar'.running = radar.running
  PROVE  RunInv'
  <1>1. SetRunAppDone(fly, o) /\ fly' = Nil BY DEF Complete, OnDone
  <1>2. /\ queue \in Seq(Command) /\ belief \in BeliefType /\ mode \in ModeType
    BY DEF TypeOK, ControlOK
  <1>3. /\ Todo' = Ids(queue') /\ Todo = Ids(queue) \cup {"SET_RUN_APP"} /\ ~mode.waiting
        /\ Ids(queue) \cap Ordering = {} /\ "SET_RUN_APP" \in Allowed(op)
    BY <1>1, TodoDone
  <1>4. op = "MODE_SWITCH" BY <1>3 DEF Allowed
  <1>5. RunUser /\ belief.everRunning BY <1>4 DEF RunInv, RunFirst
  <1>6. "STOP" \notin Todo /\ "SET_RUN_APP" \notin Ids(queue)
    BY <1>3 DEF Ordering, Work
  <1>7. (radar.running \/ KnownStopped) /\ "MODE_WAIT" \in Ids(queue)
    BY <1>3, <1>4, <1>6 DEF RunInv, RunSwitch
  <1>8. UNCHANGED <<life, op, req>> BY <1>1 DEF SetRunAppDone
  <1>9. ASSUME belief'.everRunning = belief.everRunning,
               belief'.userStopped = belief.userStopped, RunSwitch'
        PROVE  RunInv'
    BY <1>4, <1>5, <1>8, <1>9
    DEF RunInv, RunUser, RunFirst, RunIdle, RunBoot, RunBusy, Busy, Reading
  <1>10. CASE o.result = "OK"
    <2>1. /\ belief' = [belief EXCEPT !.running = TRUE, !.known = TRUE]
          /\ mode' = [mode EXCEPT !.seen = FALSE] /\ queue' = queue
      BY <1>1, <1>10 DEF SetRunAppDone
    <2>2. /\ belief'.everRunning = belief.everRunning
          /\ belief'.userStopped = belief.userStopped /\ ~mode'.seen
      BY <1>2, <2>1 DEF BeliefType, ModeType
    <2>3. RunSwitch' BY <1>3, <1>6, <1>7, <2>1, <2>2 DEF RunSwitch
    <2> QED BY <1>9, <2>2, <2>3
  <1>11. CASE o.result # "OK"
    <2>1. /\ belief' = belief
          /\ queue' = queue \/ (queue # <<>> /\ queue' = Tail(queue))
      BY <1>1, <1>11 DEF SetRunAppDone
    <2>2. Todo' \subseteq Ids(queue) BY <1>2, <1>3, <2>1, IdsTail
    <2>3. KnownStopped' = KnownStopped BY <2>1 DEF KnownStopped
    <2>4. RunSwitch'
      BY <1>6, <1>7, <2>2, <2>3 DEF RunSwitch, Coming, Found
    <2> QED BY <1>9, <2>1, <2>4
  <1> QED BY <1>10, <1>11

LEMMA RunRestarted ==
  ASSUME TypeOK, OrderInv, RunInv, fly # Nil, fly.id = "RESET_SYSTEM", NEW o,
         Complete(fly, o), o.result # "MALFORMED", radar'.running = radar.running
  PROVE  RunInv'
  <1>1. ResetSystemDone(fly, o) /\ fly' = Nil BY DEF Complete, OnDone
  <1>2. "RESET_SYSTEM" \in Allowed(op) BY <1>1, TodoDone
  <1>3. op = "RESTART" BY <1>2 DEF Allowed
  <1>4. RunUser /\ radar.running /\ belief.everRunning
    BY <1>3 DEF RunInv, RunFirst, RunIdle
  <1>5. /\ op' = "NONE" /\ life' = "BOOT_WAIT" /\ req' = req
        /\ belief' = [BootBelief EXCEPT !.running = belief.running,
                                        !.everRunning = belief.everRunning]
    BY <1>1 DEF ResetSystemDone
  <1>6. belief'.everRunning = belief.everRunning /\ belief'.userStopped = FALSE
    BY <1>5 DEF BootBelief
  <1>7. RunUser' BY <1>4, <1>5, <1>6 DEF RunUser
  <1>8. Coming' /\ Found' BY <1>4 DEF Coming, Found
  <1> QED BY <1>5, <1>6, <1>7, <1>8, RunOver

\* The command in flight is answered, or given up.
LEMMA RunWire ==
  ASSUME TypeOK, OrderInv, RetryInv, RunInv, WireNext PROVE RunInv'
  <1>1. fly # Nil => fly \in WireCommand /\ fly.id \in WireIds
    BY DEF TypeOK, WireOK, WireCommand
  <1>2. belief \in BeliefType /\ mode \in ModeType /\ req \in ReqType /\ RunUser
    BY DEF TypeOK, ControlOK, RunInv
  <1>3. ASSUME UNCHANGED <<life, op, req, task, belief, mode>>, Todo' = Todo,
               radar.running => radar'.running
        PROVE  RunInv'
    <2>1. KnownStopped' = KnownStopped /\ RunUser'
      BY <1>2, <1>3 DEF KnownStopped, RunUser
    <2> QED BY <1>3, <2>1, RunKeep
  <1>4. CASE Send
    <2>1. Todo' = Todo BY <1>4, SendLeft DEF Todo
    <2> QED BY <1>3, <1>4, <2>1 DEF Send
  <1>5. CASE Answer
    <2>1. PICK o \in Outcomes(fly) :
            o.result # "NONE" /\ radar' = o.radar /\ Complete(fly, o)
      BY <1>5 DEF Answer
    <2>2. fly # Nil BY <1>5 DEF Answer
    <2>3. /\ fly.id \notin Moving => radar'.running = radar.running
          /\ fly.id = "STOP" => radar'.running = FALSE /\ o.result = "OK"
          /\ fly.id \in {"START", "SET_RUN_APP"} =>
               \/ radar'.running = TRUE
               \/ radar' = radar /\ o.result \in {"ERROR", "UNSAVED"}
          /\ fly.id = "RESET_SYSTEM" => radar'.running = TRUE /\ o.result = "NONE"
          /\ fly.id = "START" /\ o.result = "ERROR" => radar.running /\ HasModes
          /\ fly.id = "START" => o.result \in {"OK", "ERROR", "UNSAVED"}
          /\ o.result = "NOT_STOPPED" => radar.running
          /\ o.result # "TIMEOUT"
      BY <1>1, <2>1, <2>2, OutcomesRunning
    <2>4. o.result = "MALFORMED" => fly.id = "GET_GROUP"
      BY <1>1, <2>2, MalformedGet
    <2>5. o.result = "UNSAVED" => radar.unsaved BY <1>1, <2>1, <2>2, OutcomesSaved
    <2>6. CASE fly.id \in Still BY <2>1, <2>2, <2>3, <2>6, RunStill DEF Still, Moving
    <2>7. CASE fly.id = "GET_SWV" BY <2>1, <2>2, <2>3, <2>4, <2>7, RunVersion DEF Moving
    <2>8. CASE fly.id = "STOP" BY <2>1, <2>2, <2>3, <2>4, <2>8, RunStop
    <2>9. CASE fly.id = "START"
      <3>1. /\ o.result = "OK" => radar'.running
            /\ o.result # "OK" => radar'.running = radar.running
        BY <1>1, <2>1, <2>2, <2>9, StartRuns
      <3> QED BY <2>1, <2>2, <2>3, <2>5, <2>9, <3>1, RunStart
    <2>10. CASE fly.id = "SET_RUN_APP"
      <3>1. radar'.running = radar.running BY <1>1, <2>1, <2>2, <2>10, SwitchSilent
      <3> QED BY <2>1, <2>2, <2>4, <2>10, <3>1, RunSwitched
    <2> QED BY <1>1, <2>1, <2>2, <2>3, <2>6, <2>7, <2>8, <2>9, <2>10 DEF WireIds, Still
  <1>6. CASE CarriedOut
    <2>1. PICK o \in Outcomes(fly) : radar' = o.radar BY <1>6 DEF CarriedOut
    <2>2. /\ fly # Nil /\ UNCHANGED <<life, op, req, task, belief, mode, queue, fly>>
      BY <1>6 DEF CarriedOut
    <2>3. Todo' = Todo BY <2>2 DEF Todo, Left, Ids
    <2>4. CASE fly.id # "STOP"
      <3>1. radar.running => radar'.running
        BY <1>1, <2>1, <2>2, <2>4, OutcomesRunning DEF Moving
      <3> QED BY <1>3, <2>2, <2>3, <3>1
    <2>5. CASE fly.id = "STOP"
      <3>1. "STOP" \in Todo /\ Todo \subseteq Allowed(op) /\ "FIRST_READ" \notin Todo
        <4>1. /\ Todo = Ids(queue) \cup {"STOP"} /\ Todo \subseteq Allowed(op)
              /\ "FIRST_READ" \in Ids(queue) => Todo \subseteq {"GET_GROUP", "FIRST_READ"}
          BY <2>2, <2>5 DEF Todo, Left, OrderInv, Orderly
        <4> QED BY <4>1
      <3>2. op \notin {"NONE", "PROBE", "RESTART", "PING"} BY <3>1 DEF Allowed
      <3>3. RunUser' BY <1>2, <2>2 DEF RunUser
      <3>4. RunFirst' BY <2>2, <2>3, <3>1 DEF RunInv, RunFirst
      <3>5. RunIdle' /\ RunBoot' BY <2>2, <2>3, <3>1, <3>2 DEF RunIdle, RunBoot, Reading
      <3>6. RunSwitch' BY <2>2, <2>3, <3>1 DEF RunInv, RunSwitch
      <3>7. RunBusy' BY <2>2, <2>3, <3>1 DEF RunInv, RunBusy, Busy, Reading
      <3> QED BY <3>3, <3>4, <3>5, <3>6, <3>7 DEF RunInv
    <2> QED BY <2>4, <2>5
  <1>7. CASE CommandLost
    <2>1. UNCHANGED <<life, op, req, task, belief, mode, queue, fly, radar>>
      BY <1>7 DEF CommandLost
    <2>2. Todo' = Todo BY <2>1 DEF Todo, Left, Ids
    <2> QED BY <1>3, <2>1, <2>2
  <1>8. CASE Timeout
    <2>1. fly # Nil /\ radar'.running = radar.running
      BY <1>8, WaitedRunning DEF Timeout
    <2>2. CASE fly.id \in NoReply
      <3>1. Complete(fly, Out(radar, "OK")) BY <1>8, <2>2 DEF Timeout
      <3>2. Out(radar, "OK").result = "OK" BY DEF Out
      <3> QED BY <2>1, <2>2, <3>1, <3>2, RunSwitched, RunRestarted DEF NoReply
    <2>3. CASE fly.id \notin NoReply /\ fly.retries > 0
      <3>1. /\ fly' = [fly EXCEPT !.retries = @ - 1]
            /\ UNCHANGED <<life, op, req, task, belief, mode, queue>>
        BY <1>8, <2>3 DEF Timeout
      <3>2. fly' \in Command /\ fly'.id = fly.id
        BY <1>1, <2>1, <2>3, <3>1, RetriesType DEF WireCommand, Command
      <3>3. Todo' = Todo BY <2>1, <3>1, <3>2, NilAssumption DEF Todo, Left, Ids
      <3> QED BY <1>3, <2>1, <3>1, <3>3
    <2>4. CASE fly.id \notin NoReply /\ ~(fly.retries > 0)
      <3> DEFINE o == Out(radar, "TIMEOUT")
      <3>1. Complete(fly, o) BY <1>8, <2>4 DEF Timeout
      <3>2. o.result = "TIMEOUT" BY DEF Out
      <3> HIDE DEF o
      <3>3. CASE fly.id \in Still BY <2>1, <3>1, <3>2, <3>3, RunStill
      <3>4. CASE fly.id = "GET_SWV" BY <2>1, <3>1, <3>2, <3>4, RunVersion
      <3>5. CASE fly.id = "STOP" BY <2>1, <3>1, <3>2, <3>5, RunStop
      <3>6. CASE fly.id = "START" BY <2>1, <3>1, <3>2, <3>6, RunStart
      <3> QED BY <1>1, <2>1, <2>4, <3>3, <3>4, <3>5, <3>6 DEF WireIds, NoReply, Still
    <2> QED BY <2>2, <2>3, <2>4
  <1>9. CASE Sentence
    <2>1. /\ radar.running /\ radar'.running = radar.running
          /\ UNCHANGED <<life, op, queue, fly, task>>
      BY <1>9 DEF Sentence, TypeOK, WireOK, RadarType
    <2>2. belief' = [belief EXCEPT !.running = TRUE, !.known = TRUE, !.armed = FALSE,
                       !.userStopped = @ /\ belief.running /\ belief.known]
      BY <1>9 DEF Sentence
    <2>3. /\ ~KnownStopped' /\ belief'.everRunning = belief.everRunning
          /\ belief'.recover = belief.recover
          /\ belief'.unconfirmed = belief.unconfirmed /\ ~belief'.userStopped
      BY <1>2, <2>2 DEF BeliefType, KnownStopped, RunUser
    <2>4. req' \in {req, LearntReq(radar.app, mode.pending)} BY <1>9 DEF Sentence
    <2>5. req'.run = req.run BY <1>2, <2>4 DEF LearntReq, ReqType
    <2>6. mode' \in {mode, LearntMode(radar.app)} BY <1>9 DEF Sentence
    <2>7. mode'.waiting = mode.waiting BY <2>6, LearntWaiting
    <2>8. Todo' = Todo BY <2>1 DEF Todo, Left, Ids
    <2>9. RunUser' BY <1>2, <2>3, <2>5 DEF RunUser
    <2> QED BY <2>1, <2>3, <2>7, <2>8, <2>9, RunKeep
  <1> QED BY <1>4, <1>5, <1>6, <1>7, <1>8, <1>9 DEF WireNext

\* An entity call, or the radar loses power for a moment.
LEMMA RunCalled ==
  ASSUME TypeOK, RunInv, {"run", "reboot"} \cap UserOps = {}, UserNext PROVE RunInv'
  <1>1. /\ belief \in BeliefType /\ mode \in ModeType /\ req \in ReqType /\ RunUser
        /\ task \in TaskType
    BY DEF TypeOK, ControlOK, RunInv
  <1>2. UNCHANGED <<life, op, queue, fly, belief>>
    BY DEF UserNext, SetDesired, SetWorkMode, RequestRefresh, RequestRestart,
           RequestFactoryReset, RequestRunning, Request, RadarPowerCycle, EspReboot
  <1>3. task' \in {task, [task EXCEPT !.error = TRUE]}
    BY DEF UserNext, SetDesired, SetWorkMode, RequestRefresh, RequestRestart,
           RequestFactoryReset, RequestRunning, Request, RadarPowerCycle, EspReboot
  <1>4. \/ mode' = mode \/ mode' = [mode EXCEPT !.shown = mode.reported]
        \/ \E m \in Modes : mode' = [mode EXCEPT !.want = m, !.shown = m]
    BY DEF UserNext, SetDesired, SetWorkMode, RequestRefresh, RequestRestart,
           RequestFactoryReset, RequestRunning, Request, RadarPowerCycle, EspReboot
  <1>5. req' \in {req, [req EXCEPT !.refresh = TRUE], [req EXCEPT !.restart = TRUE],
                  [req EXCEPT !.factory = TRUE]}
    BY DEF UserNext, SetDesired, SetWorkMode, RequestRefresh, RequestRestart,
           RequestFactoryReset, RequestRunning, Request, RadarPowerCycle, EspReboot
  <1>6. radar' = radar \/ radar' = Rebooted
    BY DEF UserNext, SetDesired, SetWorkMode, RequestRefresh, RequestRestart,
           RequestFactoryReset, RequestRunning, Request, RadarPowerCycle, EspReboot
  <1>7. radar.running => radar'.running
    BY <1>6, RebootedFields DEF TypeOK, WireOK
  <1>8. mode'.waiting = mode.waiting /\ mode'.seen = mode.seen
    BY <1>1, <1>4 DEF ModeType
  <1>9. task'.failing = task.failing BY <1>3, SameFailing
  <1>10. req'.run = req.run BY <1>1, <1>5 DEF ReqType
  <1>11. RunUser' BY <1>1, <1>2, <1>10 DEF RunUser
  <1>12. Todo' = Todo BY <1>2 DEF Todo, Left, Ids
  <1>13. KnownStopped' = KnownStopped BY <1>2 DEF KnownStopped
  <1> QED BY <1>2, <1>7, <1>8, <1>9, <1>11, <1>12, <1>13, RunKeep

\* An operation ends with the radar running.
LEMMA RunEnds ==
  ASSUME RunInv, op' = "NONE", RunUser', Settled', belief'.everRunning
  PROVE  RunInv'
  BY DEF RunInv, RunUser, RunFirst, RunIdle, RunBoot, RunSwitch, RunBusy, Busy, Reading,
         Settled, Coming, Found

\* At the end marker of an operation the radar runs.
LEMMA SettledAtEnd ==
  ASSUME TypeOK, EndInv, OrderInv, RunInv,
         NEW id \in {"READ_END", "TXN_END", "RUN_DONE", "PING_END"}, AtMarker(id)
  PROVE  Settled /\ (op # "BOOT_READ" => belief.everRunning) /\ RunUser
  <1>1. /\ task.failing = FALSE /\ fly = Nil /\ Ids(queue) = {id} /\ id \in EndsOf(op)
    BY OrderMarker DEF EndMarkers
  <1>2. Todo = {id} BY <1>1 DEF Todo, Left
  <1>3. op \in {"BOOT_READ", "READ", "TXN", "FACTORY_RESET", "RUN_CTRL", "PING"}
    BY <1>1 DEF EndsOf
  <1>4. Busy BY <1>2, <1>3 DEF Busy, Reading
  <1>5. Settled BY <1>1, <1>2, <1>4 DEF RunInv, RunBusy
  <1> QED BY <1>3, <1>5 DEF RunInv, RunFirst

LEMMA RunProbed ==
  ASSUME TypeOK, EndInv, OrderInv, RunInv, ProbeDone PROVE RunInv'
  <1> DEFINE p == Gets({RangeGroup})
             end == Marker("FIRST_READ")
  <1>1. /\ task.failing = FALSE /\ mode.waiting = FALSE /\ fly = Nil
        /\ Tail(queue) = <<>> /\ Ids(queue) = {"PROBE_DONE"} /\ "PROBE_DONE" \in EndsOf(op)
    BY OrderMarker DEF ProbeDone, EndMarkers
  <1>2. Todo = {"PROBE_DONE"} BY <1>1 DEF Todo, Left
  <1>3. op \in {"PROBE", "MODE_SWITCH"} BY <1>1 DEF EndsOf
  <1>4. Coming /\ (Found \/ belief.everRunning)
    BY <1>1, <1>2, <1>3 DEF RunInv, RunBoot, RunSwitch, RunFirst
  <1>5. p \in Seq(Command) /\ end \in Seq(Command) /\ Ids(end) = {"FIRST_READ"}
    BY GroupAssumption, GetsType, MarkerType, IdsMarker DEF Markers, EndMarkers
  <1>6. queue' = <<>> \o p \o end /\ fly' = Nil
    BY <1>1 DEF ProbeDone
  <1> HIDE DEF p, end
  <1>7. "FIRST_READ" \in Todo'
    <2>1. queue' = p \o end BY <1>5, <1>6, ConcatEmptySeq
    <2>2. Ids(queue') = Ids(p) \cup Ids(end) BY <1>5, <2>1, IdsConcat
    <2> QED BY <1>5, <1>6, <2>2 DEF Todo, Left, Ids
  <1>8. /\ op' = "BOOT_READ" /\ UNCHANGED <<life, belief, radar>> /\ req'.run = req.run
    BY DEF ProbeDone, TypeOK, ControlOK, ReqType
  <1>9. Coming' = Coming /\ Found' = Found BY <1>8 DEF Coming, Found, KnownStopped
  <1>10. RunUser' BY <1>8 DEF RunInv, RunUser
  <1>11. RunFirst' BY <1>3, <1>4, <1>8, <1>9 DEF RunInv, RunFirst
  <1>12. RunBoot' BY <1>4, <1>8, <1>9 DEF RunBoot
  <1>13. RunBusy' BY <1>7, <1>8 DEF RunBusy, Busy, Reading
  <1> QED BY <1>8, <1>10, <1>11, <1>12, <1>13 DEF RunInv, RunIdle, RunSwitch

LEMMA RunFirstRead ==
  ASSUME TypeOK, EndInv, OrderInv, RunInv, FirstRead PROVE RunInv'
  <1> DEFINE some == Gets(Readable(Groups \ {RangeGroup}))
             all == Gets(Readable(Groups))
             recovery == IF RecoveryStart THEN Start({"RECOVERY"}) ELSE <<>>
             start == Start({})
             end == Marker("READ_END")
  <1>1. /\ task.failing = FALSE /\ mode.waiting = FALSE /\ fly = Nil
        /\ Tail(queue) = <<>> /\ Ids(queue) = {"FIRST_READ"} /\ "FIRST_READ" \in EndsOf(op)
    BY OrderMarker DEF FirstRead, EndMarkers
  <1>2. Todo = {"FIRST_READ"} /\ op = "BOOT_READ" BY <1>1 DEF Todo, Left, EndsOf
  <1>3. Coming /\ (Found \/ belief.everRunning) /\ RunUser
    BY <1>2 DEF RunInv, RunBoot, RunFirst, Reading
  <1>4. /\ some \in Seq(Command) /\ all \in Seq(Command) /\ end \in Seq(Command)
        /\ Ids(some) \subseteq {"GET_GROUP"} /\ Ids(all) \subseteq {"GET_GROUP"}
        /\ Ids(end) = {"READ_END"}
    BY GetsType, IdsGets, ReadableType, MarkerType, IdsMarker DEF Markers, EndMarkers
  <1>5. /\ recovery \in Seq(Command) /\ start \in Seq(Command)
        /\ Ids(recovery) \subseteq {"START"} /\ (RecoveryStart => "START" \in Ids(recovery))
        /\ Ids(start) = {"START"}
    <2>1. /\ Start({"RECOVERY"}) \in Seq(Command) /\ start \in Seq(Command)
          /\ Ids(Start({"RECOVERY"})) = {"START"} /\ Ids(start) = {"START"}
      BY StartType, IdsStart DEF Flags
    <2>2. CASE RecoveryStart BY <2>1, <2>2
    <2>3. CASE ~RecoveryStart BY <2>1, <2>3, IdsEmpty
    <2> QED BY <2>2, <2>3
  <1>6. \/ queue' = <<>> \o some \o recovery \o end
        \/ queue' = <<>> \o Stop \o all \o start \o end
    BY <1>1, <1>3 DEF FirstRead, RunUser
  <1>7. <<>> \o some = some /\ <<>> \o Stop = Stop BY <1>4, StopType, ConcatEmptySeq
  <1>8. /\ UNCHANGED <<life, op, radar>> /\ fly' = Nil /\ req'.run = req.run
    BY <1>1 DEF FirstRead, TypeOK, ControlOK, ReqType
  <1>9. /\ belief'.everRunning = belief.everRunning /\ belief'.running = belief.running
        /\ belief'.known = belief.known /\ belief'.unconfirmed = belief.unconfirmed
        /\ belief'.userStopped = belief.userStopped
    BY DEF FirstRead, TypeOK, ControlOK, BeliefType
  <1>10. Todo' = Ids(queue') BY <1>8 DEF Todo, Left, Ids
  <1> HIDE DEF some, all, recovery, start, end
  <1>11. "FIRST_READ" \notin Todo' /\ ("STOP" \in Todo' \/ ~RecoveryStart \/ "START" \in Todo')
           /\ ("STOP" \in Todo' => "START" \in Todo')
    <2>1. CASE queue' = some \o recovery \o end
      <3>1. Ids(queue') = Ids(some) \cup Ids(recovery) \cup Ids(end)
        BY <1>4, <1>5, <2>1, Ids3
      <3> QED BY <1>4, <1>5, <1>10, <3>1
    <2>2. CASE queue' = Stop \o all \o start \o end
      <3>1. Ids(Stop \o all \o start \o end)
              = Ids(Stop) \cup Ids(all) \cup Ids(start) \cup Ids(end)
        <4>1. /\ Stop \in Seq(Command) /\ all \in Seq(Command)
              /\ start \in Seq(Command) /\ end \in Seq(Command)
          BY <1>4, <1>5, StopType
        <4> QED BY <4>1, Ids4
      <3>2. Ids(queue') = {"STOP"} \cup Ids(all) \cup {"START"} \cup {"READ_END"}
        BY <1>4, <1>5, <2>2, <3>1, IdsStop
      <3> QED BY <1>4, <1>10, <3>2
    <2> QED BY <1>6, <1>7, <2>1, <2>2
  <1>12. KnownStopped' = KnownStopped /\ Found' = Found BY <1>8, <1>9 DEF Found, KnownStopped
  <1>13. RunUser' BY <1>3, <1>8, <1>9 DEF RunUser
  <1>14. RunFirst' BY <1>2, <1>3, <1>8, <1>9, <1>12 DEF RunInv, RunFirst
  <1>15. RunIdle' /\ RunBoot' /\ RunSwitch'
    BY <1>2, <1>8, <1>11 DEF RunIdle, RunBoot, RunSwitch, Reading
  <1>16. RunBusy'
    <2>1. ~RecoveryStart => radar.running /\ ~KnownStopped
      BY <1>3 DEF RecoveryStart, Coming, Found, RunUser
    <2>2. ~RecoveryStart => Settled' BY <1>8, <1>12, <2>1 DEF Settled
    <2> QED BY <1>11, <2>2 DEF RunBusy
  <1> QED BY <1>13, <1>14, <1>15, <1>16 DEF RunInv

\* A mode switch goes on, in whatever state its commands are.
LEMMA RunGoesOn ==
  ASSUME TypeOK, OrderInv, OrderInv', RunInv, UNCHANGED <<life, op, fly, task, belief, req>>,
         op = "MODE_SWITCH", radar'.running = radar.running, "STOP" \notin Todo',
         Todo' \cap Work = {}, mode'.waiting \/ Coming \/ "START" \in Todo',
         mode'.waiting => Coming \/ ~mode'.seen \/ "START" \in Todo'
  PROVE  RunInv'
  <1>1. KnownStopped' = KnownStopped BY DEF KnownStopped
  <1>2. Coming' = Coming BY <1>1 DEF Coming, Found
  <1>3. RunUser' BY DEF RunInv, RunUser
  <1>4. RunFirst' BY DEF RunInv, RunFirst
  <1>5. RunSwitch'
    <2>1. "SET_RUN_APP" \notin Todo' BY DEF Work
    <2>2. "MODE_WAIT" \in Todo' => mode'.waiting \/ Coming \/ "START" \in Todo' OBVIOUS
    <2> QED BY <1>2, <2>1, <2>2 DEF RunSwitch
  <1> QED BY <1>3, <1>4, <1>5 DEF RunInv, RunIdle, RunBoot, RunBusy, Busy, Reading

LEMMA RunWaits ==
  ASSUME TypeOK, OrderInv, OrderInv', RunInv, ModeWait \/ ModeWaitSeen \/ ModeWaitExpired
  PROVE  RunInv'
  <1>1. mode \in ModeType /\ queue \in Seq(Command) BY DEF TypeOK, ControlOK
  <1>2. RunSwitch BY DEF RunInv
  <1>3. /\ UNCHANGED <<life, op, fly, task, belief, req>>
        /\ radar'.running = radar.running
    BY WaitedRunning DEF ModeWait, ModeWaitSeen, ModeWaitExpired
  <1>4. CASE ModeWait
    <2>1. /\ fly = Nil /\ queue # <<>> /\ Head(queue).id = "MODE_WAIT"
          /\ queue' = Tail(queue) /\ mode' = [mode EXCEPT !.waiting = TRUE]
      BY <1>4 DEF ModeWait, AtMarker
    <2>2. mode'.waiting = TRUE /\ mode'.seen = mode.seen BY <1>1, <2>1 DEF ModeType
    <2>3. op = "MODE_SWITCH" /\ fly = Nil /\ Ids(queue') \cap Ordering = {}
      <3>1. Orderly(queue', fly', op', task'.failing, mode'.waiting) BY DEF OrderInv
      <3> QED BY <1>3, <2>1, <2>2, <3>1 DEF Orderly
    <2>4. Ids(queue) = {"MODE_WAIT"} \cup Ids(Tail(queue)) BY <1>1, <2>1, IdsHead
    <2>5. Todo = Ids(queue) /\ Todo' = Ids(queue')
      BY <1>3, <2>1 DEF Todo, Left, Ids
    <2>6. "STOP" \notin Todo' /\ Todo' \cap Work = {} BY <2>3, <2>5 DEF Ordering
    <2>7. Coming \/ ~mode.seen \/ "START" \in Todo'
      <3>1. "MODE_WAIT" \in Todo BY <2>4, <2>5
      <3>2. Coming \/ ~mode.seen \/ {"SET_RUN_APP", "STOP", "START"} \cap Todo # {}
        BY <1>2, <2>3, <3>1 DEF RunSwitch
      <3>3. "SET_RUN_APP" \notin Todo /\ "STOP" \notin Todo
        BY <2>1, <2>4, <2>5, <2>6 DEF Work
      <3> QED BY <2>1, <2>4, <2>5, <3>2, <3>3
    <2> QED BY <1>3, <2>2, <2>3, <2>6, <2>7, RunGoesOn
  <1>5. CASE ModeWaitSeen \/ ModeWaitExpired
    <2>1. mode.waiting /\ (ModeWaitSeen => mode.seen)
      BY <1>5 DEF ModeWaitSeen, ModeWaitExpired
    <2>2. op = "MODE_SWITCH" /\ fly = Nil /\ Ids(queue) \cap Ordering = {}
      BY <2>1 DEF OrderInv, Orderly
    <2>3. Todo = Ids(queue) /\ Todo' = Ids(queue') BY <1>3, <2>2 DEF Todo, Left, Ids
    <2>4. mode'.waiting = FALSE
      <3>1. \E m \in {mode, LearntMode("PRESENCE")} : mode' = [m EXCEPT !.waiting = FALSE]
        BY <1>5 DEF ModeWaitSeen, ModeWaitExpired
      <3>2. LearntMode("PRESENCE") \in ModeType BY LearntType DEF Modes
      <3> QED BY <1>1, <3>1, <3>2 DEF ModeType
    <2>5. CASE ModeWaitSeen
      <3>1. queue' = queue BY <2>5 DEF ModeWaitSeen
      <3>2. "STOP" \notin Todo /\ Todo \cap Work = {} BY <2>2, <2>3 DEF Ordering
      <3>3. Coming \/ {"SET_RUN_APP", "STOP", "START"} \cap Todo # {}
        BY <1>2, <2>1, <2>2, <2>5 DEF RunSwitch
      <3>4. Coming \/ "START" \in Todo BY <3>2, <3>3 DEF Work
      <3>5. Todo' = Todo BY <2>3, <3>1
      <3> QED BY <1>3, <2>2, <2>4, <3>2, <3>4, <3>5, RunGoesOn
    <2>6. CASE ModeWaitExpired
      <3> DEFINE start == <<Cmd("START", 1, {"RECOVERY"})>>
      <3>1. start \in Seq(Command) /\ Ids(start) = {"START"}
        BY CmdType, RetriesType, IdsCmd DEF WireIds, Flags
      <3>2. queue' = start \o queue BY <2>6 DEF ModeWaitExpired
      <3> HIDE DEF start
      <3>3. Ids(queue') = {"START"} \cup Ids(queue) BY <1>1, <3>1, <3>2, IdsConcat
      <3>4. "STOP" \notin Todo' /\ Todo' \cap Work = {} /\ "START" \in Todo'
        BY <2>2, <2>3, <3>3 DEF Ordering, Work
      <3> QED BY <1>3, <2>2, <2>4, <3>4, RunGoesOn
    <2> QED BY <1>5, <2>5, <2>6
  <1> QED BY <1>4, <1>5

LEMMA RunDrive ==
  ASSUME TypeOK, EndInv, OrderInv, OrderInv', RunInv, DriveNext PROVE RunInv'
  <1>1. /\ mode \in ModeType /\ task \in TaskType /\ queue \in Seq(Command)
        /\ belief \in BeliefType /\ req \in ReqType /\ RunUser
    BY DEF TypeOK, ControlOK, RunInv
  <1>2. CASE SkipSave
    <2>1. /\ fly = Nil /\ queue # <<>> /\ Head(queue).id = "SAVE" /\ queue' = Tail(queue)
          /\ UNCHANGED <<life, op, fly, req, task, belief, mode, radar>>
      BY <1>2 DEF SkipSave, Skippable
    <2>2. Ids(queue) = {"SAVE"} \cup Ids(Tail(queue)) BY <1>1, <2>1, IdsHead
    <2>3. Todo = {"SAVE"} \cup Todo'
      <3>1. Todo = Ids(queue) /\ Todo' = Ids(queue') BY <2>1 DEF Todo, Left, Ids
      <3> QED BY <2>1, <2>2, <3>1
    <2>4. \A id \in Watched : id \in Todo' <=> id \in Todo BY <2>3 DEF Watched
    <2>5. KnownStopped' = KnownStopped /\ RunUser' BY <1>1, <2>1 DEF KnownStopped, RunUser
    <2> QED BY <2>1, <2>4, <2>5, RunKeep
  <1>3. CASE ProbeDone BY <1>3, RunProbed
  <1>4. CASE FirstRead BY <1>4, RunFirstRead
  <1>5. CASE ReadEnd \/ TxnEnd \/ RunDone \/ PingEnd
    <2>1. PICK id \in {"READ_END", "TXN_END", "RUN_DONE", "PING_END"} : AtMarker(id)
      BY <1>5 DEF ReadEnd, TxnEnd, RunDone, PingEnd
    <2>2. op' = "NONE" /\ UNCHANGED <<life, req, belief, radar>>
      BY <1>5 DEF ReadEnd, TxnEnd, RunDone, PingEnd
    <2>3. op # "BOOT_READ"
      <3>1. id \in EndsOf(op) BY <2>1, OrderMarker DEF EndMarkers
      <3> QED BY <1>5, <2>1, <3>1 DEF EndsOf, ReadEnd, TxnEnd, RunDone, PingEnd, AtMarker
    <2>4. Settled /\ belief.everRunning BY <2>1, <2>3, SettledAtEnd
    <2>5. Settled' /\ RunUser' BY <1>1, <2>2, <2>4 DEF Settled, KnownStopped, RunUser
    <2> QED BY <2>2, <2>4, <2>5, RunEnds
  <1>6. CASE BootReadEnd
    <2>1. PICK silent \in BOOLEAN, reports \in BOOLEAN : FinishBootRead(silent, reports)
      BY <1>6 DEF BootReadEnd
    <2>2. Settled BY <1>6, SettledAtEnd DEF BootReadEnd
    <2>3. /\ belief'.everRunning = TRUE /\ belief'.running = belief.running
          /\ belief'.known = belief.known /\ belief'.userStopped = belief.userStopped
      BY <1>1, <2>1 DEF FinishBootRead, BeliefType
    <2>4. req'.run = req.run
      <3>1. req' \in {req, LearntReq("PRESENCE", FALSE)} BY <2>1 DEF FinishBootRead
      <3> QED BY <1>1, <3>1 DEF LearntReq, ReqType
    <2>5. op' = "NONE" /\ radar' = radar BY <1>6 DEF BootReadEnd
    <2>6. Settled' /\ RunUser'
      BY <1>1, <2>2, <2>3, <2>4, <2>5 DEF Settled, KnownStopped, RunUser
    <2> QED BY <2>3, <2>5, <2>6, RunEnds
  <1>7. CASE FailEnd
    <2>1. AtMarker("FAIL_END") /\ EnterBackoff([mode EXCEPT !.confirm = FALSE],
                                               [pub EXCEPT !.error = TRUE])
          /\ UNCHANGED <<radar, req>>
      BY <1>7 DEF FailEnd
    <2>2. /\ op' = "NONE" /\ life' = "BACKOFF"
          /\ belief' = [belief EXCEPT !.recover = @ \/ belief.everRunning, !.armed = FALSE]
      BY <2>1 DEF EnterBackoff
    <2>3. /\ belief'.everRunning = belief.everRunning
          /\ belief'.recover = (belief.recover \/ belief.everRunning)
          /\ belief'.userStopped = belief.userStopped
          /\ belief'.unconfirmed = belief.unconfirmed
          /\ belief'.running = belief.running /\ belief'.known = belief.known
      BY <1>1, <2>2 DEF BeliefType
    <2>4. Tail(queue) = <<>> /\ fly = Nil /\ queue # <<>> /\ Head(queue).id = "FAIL_END"
      BY <2>1, AheadMarker DEF EndMarkers, AtMarker
    <2>5. Ids(queue) = {"FAIL_END"} BY <1>1, <2>4, IdsHead, IdsEmpty
    <2>6. "STOP" \notin Todo BY <2>4, <2>5 DEF Todo, Left
    <2>7. Found \/ belief.everRunning BY <2>6 DEF RunInv, RunFirst
    <2>8. Found' = Found BY <2>1, <2>3 DEF Found, KnownStopped
    <2>9. RunUser' BY <1>1, <2>1, <2>3 DEF RunUser
    <2>10. Coming' BY <2>3, <2>7, <2>8 DEF Coming
    <2> QED BY <2>2, <2>3, <2>7, <2>8, <2>9, <2>10, RunOver
  <1>8. CASE ModeWait \/ ModeWaitSeen \/ ModeWaitExpired BY <1>8, RunWaits
  <1> QED BY <1>2, <1>3, <1>4, <1>5, <1>6, <1>7, <1>8 DEF DriveNext

\* Work that leaves the radar running or ends with its start.
LEMMA RunWork ==
  ASSUME RunInv, Idle, op' \in {"READ", "TXN", "FACTORY_RESET", "RUN_CTRL", "PING"},
         UNCHANGED <<life, radar, belief>>, req'.run = req.run,
         "STOP" \in Todo' => "START" \in Todo'
  PROVE  RunInv'
  <1>1. Settled /\ belief.everRunning /\ RunUser BY DEF RunInv, RunIdle, RunFirst, Idle
  <1>2. Settled' /\ RunUser' BY <1>1 DEF Settled, KnownStopped, RunUser
  <1> QED BY <1>1, <1>2 DEF RunInv, RunFirst, RunIdle, RunBoot, RunSwitch, RunBusy, Busy,
          Reading

\* The read-back of a radar the user did not stop starts it again.
LEMMA ReadBackStarts ==
  ASSUME NEW gs \in SUBSET Groups, ~belief.userStopped
  PROVE  /\ "START" \in Ids(ReadBack(gs)) /\ "STOP" \notin Ids(ReadBack(gs))
         /\ ReadBack(gs) \in Seq(Command)
  <1> DEFINE start == Start({})
             gets == Gets(Readable(gs))
  <1>1. start \in Seq(Command) /\ gets \in Seq(Command) /\ Ids(start) = {"START"}
    BY StartType, GetsType, ReadableType, IdsStart
  <1>2. ReadBack(gs) = gets \o start \/ ReadBack(gs) = start \o gets BY DEF ReadBack
  <1> HIDE DEF start, gets
  <1>3. "START" \in Ids(gets \o start) /\ "START" \in Ids(start \o gets)
    BY <1>1, IdsConcat
  <1> QED BY <1>2, <1>3, IdsReadBack, ReadBackType

LEMMA RunSchedule ==
  ASSUME TypeOK, EndInv, OrderInv, RunInv, ScheduleNext PROVE RunInv'
  <1>1. /\ mode \in ModeType /\ task \in TaskType /\ belief \in BeliefType
        /\ req \in ReqType /\ RunUser
    BY DEF TypeOK, ControlOK, RunInv
  <1>2. ASSUME UNCHANGED <<life, op, queue, fly, belief, radar>>,
               task'.failing = task.failing, mode'.waiting = mode.waiting,
               mode'.seen = mode.seen, req'.run = req.run
        PROVE  RunInv'
    <2>1. Todo' = Todo /\ KnownStopped' = KnownStopped /\ RunUser'
      BY <1>1, <1>2 DEF Todo, Left, Ids, KnownStopped, RunUser
    <2> QED BY <1>2, <2>1, RunKeep
  <1>3. CASE StartProbe
    <2>1. op = "NONE" /\ Todo = {}
      BY <1>3, IdsEmpty DEF StartProbe, Dry, EndInv, WellEnded, Todo, Left
    <2>2. Coming /\ (Found \/ belief.everRunning)
      BY <1>3, <2>1 DEF StartProbe, RunInv, RunBoot, RunFirst
    <2>3. /\ op' = "PROBE" /\ life' = "PROBE" /\ UNCHANGED <<belief, req>>
          /\ radar'.running = radar.running
      BY <1>3, WaitedRunning DEF StartProbe
    <2>4. Coming' = Coming /\ Found' = Found BY <2>3 DEF Coming, Found, KnownStopped
    <2>5. RunUser' BY <1>1, <2>3 DEF RunUser
    <2> QED BY <2>2, <2>3, <2>4, <2>5
            DEF RunInv, RunFirst, RunIdle, RunBoot, RunSwitch, RunBusy, Busy, Reading
  <1>4. CASE StartRestart
    <2>1. Settled /\ belief.everRunning
      BY <1>4 DEF StartRestart, RunInv, RunIdle, RunFirst, Idle
    <2>2. op' = "RESTART" /\ UNCHANGED <<life, belief, radar>> /\ req'.run = req.run
      BY <1>1, <1>4 DEF StartRestart, ReqType
    <2>3. RunUser' BY <1>1, <2>2 DEF RunUser
    <2> QED BY <2>1, <2>2, <2>3
            DEF RunInv, RunFirst, RunIdle, RunBoot, RunSwitch, RunBusy, Busy, Reading,
                Settled
  <1>5. CASE FactoryRefused
    <2>1. task'.failing = task.failing BY <1>5, SameFailing DEF FactoryRefused, SetError
    <2>2. req'.run = req.run BY <1>1, <1>5 DEF FactoryRefused, ReqType
    <2> QED BY <1>2, <1>5, <2>1, <2>2 DEF FactoryRefused
  <1>6. CASE StartFactoryReset
    <2> DEFINE reset == <<Cmd("RESET_CFG", Retries, {}), Cmd("SAVE", 1, {})>>
               back == ReadBack(Groups)
               end == Marker("TXN_END")
    <2>1. reset \in Seq(Command)
      BY CmdType, RetriesType DEF WireIds
    <2>2. back \in Seq(Command) /\ "START" \in Ids(back)
      BY <1>1, ReadBackStarts DEF RunUser
    <2>3. end \in Seq(Command) BY MarkerType DEF Markers, EndMarkers
    <2>4. /\ queue' = Stop \o reset \o back \o end /\ op' = "FACTORY_RESET"
          /\ UNCHANGED <<life, fly, belief, radar>> /\ req'.run = req.run /\ Idle
      BY <1>1, <1>6 DEF StartFactoryReset, ReqType
    <2> HIDE DEF reset, back, end
    <2>5. Ids(Stop \o reset \o back \o end)
            = Ids(Stop) \cup Ids(reset) \cup Ids(back) \cup Ids(end)
      <3>1. Stop \in Seq(Command) BY StopType
      <3> QED BY <2>1, <2>2, <2>3, <3>1, Ids4
    <2>6. "START" \in Todo' BY <2>2, <2>4, <2>5 DEF Todo, Left, Ids
    <2> QED BY <2>4, <2>6, RunWork
  <1>7. CASE StartRun BY <1>1, <1>7 DEF StartRun, RunUser
  <1>8. CASE StartTxn
    <2> DEFINE dirty == {g \in Groups : want[g] # Nil}
               kept == {g \in dirty : Applicable(g)}
               sent == {g \in kept : Usable(g)}
               sets == Batch("SET_GROUP", sent, Retries)
               save == <<Cmd("SAVE", 1, {"OPTIONAL_SAVE"})>>
               back == ReadBack(sent)
               end == Marker("TXN_END")
    <2>1. Idle /\ UNCHANGED <<life, fly, belief, radar, req, mode>>
      BY <1>8 DEF StartTxn, MayApply
    <2>2. CASE sent = {}
      <3> DEFINE error == kept # dirty
      <3>1. /\ UNCHANGED <<op, queue>>
            /\ task' = [BeginTxn(task) EXCEPT !.error = error, !.setFail = kept]
        BY <1>8, <2>2 DEF StartTxn
      <3> HIDE DEF error, kept, sent
      <3>2. task'.failing = FALSE BY <1>1, <3>1 DEF BeginTxn, TaskType
      <3>3. task.failing = FALSE BY <2>1, OrderIdle DEF Idle
      <3> QED BY <1>2, <2>1, <3>1, <3>2, <3>3
    <2>3. CASE sent # {}
      <3>1. op' = "TXN" /\ queue' = Stop \o sets \o save \o back \o end
        BY <1>8, <2>3 DEF StartTxn
      <3>2. sent \in SUBSET Groups OBVIOUS
      <3> HIDE DEF sent
      <3>3. sets \in Seq(Command) BY <3>2, BatchType, RetriesType DEF WireIds
      <3>4. save \in Seq(Command) BY CmdType, RetriesType DEF WireIds, Flags
      <3>5. back \in Seq(Command) /\ "START" \in Ids(back)
        BY <1>1, <3>2, ReadBackStarts DEF RunUser
      <3>6. end \in Seq(Command) BY MarkerType DEF Markers, EndMarkers
      <3> HIDE DEF sets, save, back, end
      <3>7. Ids(Stop \o sets \o save \o back \o end)
              = Ids(Stop) \cup Ids(sets) \cup Ids(save) \cup Ids(back) \cup Ids(end)
        <4>1. Stop \in Seq(Command) /\ back \in Seq(Command) BY <3>5, StopType
        <4> QED BY <3>3, <3>4, <3>6, <4>1, Ids5
      <3>8. "START" \in Todo' BY <3>1, <3>5, <3>7 DEF Todo, Left, Ids
      <3> QED BY <2>1, <3>1, <3>8, RunWork
    <2> QED BY <2>2, <2>3
  <1>9. CASE SwitchNothing
    <2>1. /\ task'.failing = task.failing /\ mode'.waiting = mode.waiting
          /\ mode'.seen = mode.seen
      BY <1>1, <1>9 DEF SwitchNothing, TaskType, ModeType
    <2> QED BY <1>2, <1>9, <2>1 DEF SwitchNothing
  <1>10. CASE StartModeSwitch
    <2> DEFINE switch == <<Cmd("SET_RUN_APP", Retries, {})>>
               wait == Marker("MODE_WAIT")
               ask == <<Cmd("GET_SWV", Retries, {})>>
               end == Marker("PROBE_DONE")
    <2>1. /\ Stop \in Seq(Command) /\ switch \in Seq(Command) /\ wait \in Seq(Command)
          /\ ask \in Seq(Command) /\ end \in Seq(Command)
      BY StopType, CmdType, RetriesType, MarkerType DEF WireIds, Markers, EndMarkers
    <2>2. Ids(switch) = {"SET_RUN_APP"} /\ Ids(wait) = {"MODE_WAIT"}
      BY IdsCmd, IdsMarker
    <2>3. /\ queue' = Stop \o switch \o wait \o ask \o end /\ op' = "MODE_SWITCH"
          /\ UNCHANGED <<life, fly, req, radar>> /\ Idle
      BY <1>10 DEF StartModeSwitch, MayApply
    <2> HIDE DEF switch, wait, ask, end
    <2>4. Ids(Stop \o switch \o wait \o ask \o end)
            = Ids(Stop) \cup Ids(switch) \cup Ids(wait) \cup Ids(ask) \cup Ids(end)
      BY <2>1, Ids5
    <2>5. {"STOP", "MODE_WAIT"} \subseteq Todo'
      <3>1. Ids(queue') = Ids(Stop \o switch \o wait \o ask \o end) BY <2>3
      <3>2. {"STOP", "MODE_WAIT"} \subseteq Ids(queue')
        BY <2>2, <2>4, <3>1, IdsStop
      <3>3. Ids(queue') \subseteq Todo' BY DEF Todo, Left, Ids
      <3> QED BY <3>2, <3>3
    <2>6. belief'.userStopped = FALSE /\ belief'.everRunning = belief.everRunning
      BY <1>1, <1>10 DEF StartModeSwitch, BeliefType
    <2>7. belief.everRunning BY <2>3 DEF RunInv, RunFirst, Idle
    <2>8. RunUser' BY <1>1, <2>3, <2>6 DEF RunUser
    <2>9. RunSwitch' BY <2>5 DEF RunSwitch
    <2> QED BY <2>3, <2>6, <2>7, <2>8, <2>9
            DEF RunInv, RunFirst, RunIdle, RunBoot, RunBusy, Busy, Reading
  <1>11. CASE ReadsDropped
    <2>1. req'.run = req.run BY <1>1, <1>11 DEF ReadsDropped, ReqType
    <2> QED BY <1>2, <1>11, <2>1 DEF ReadsDropped
  <1>12. CASE StartRefresh \/ StartModeRead
    <2> DEFINE back == ReadBack(Groups)
               gets == Gets(Readable(Groups))
               end == Marker("READ_END")
    <2>1. /\ op' = "READ" /\ UNCHANGED <<life, fly, belief, radar>> /\ Idle
          /\ req'.run = req.run
      BY <1>1, <1>12 DEF StartRefresh, StartModeRead, StartRead, ReqType
    <2>2. queue' = Stop \o back \o end \/ queue' = gets \o end
      BY <1>12 DEF StartRefresh, StartModeRead, StartRead
    <2>3. back \in Seq(Command) /\ "START" \in Ids(back)
      BY <1>1, ReadBackStarts DEF RunUser
    <2>4. /\ gets \in Seq(Command) /\ Ids(gets) \subseteq {"GET_GROUP"}
          /\ end \in Seq(Command) /\ Ids(end) = {"READ_END"} /\ Stop \in Seq(Command)
      BY GetsType, IdsGets, ReadableType, MarkerType, IdsMarker, StopType
      DEF Markers, EndMarkers
    <2> HIDE DEF back, gets, end
    <2>5. Ids(Stop \o back \o end) = Ids(Stop) \cup Ids(back) \cup Ids(end)
      BY <2>3, <2>4, Ids3
    <2>6. Ids(gets \o end) = Ids(gets) \cup Ids(end) BY <2>4, IdsConcat
    <2>7. Todo' = Ids(queue')
      BY <2>1 DEF Idle, Dry, Todo, Left, Ids
    <2>8. "STOP" \in Todo' => "START" \in Todo'
      <3>1. CASE queue' = Stop \o back \o end BY <2>3, <2>5, <2>7, <3>1
      <3>2. CASE queue' = gets \o end
        <4>1. "STOP" \notin Ids(gets \o end) BY <2>4, <2>6
        <4> QED BY <2>7, <3>2, <4>1
      <3> QED BY <2>2, <3>1, <3>2
    <2> QED BY <2>1, <2>8, RunWork
  <1> QED BY <1>3, <1>4, <1>5, <1>6, <1>7, <1>8, <1>9, <1>10, <1>11, <1>12
          DEF ScheduleNext

LEMMA RunCheck == ASSUME TypeOK, RunInv, CheckNext PROVE RunInv'
  <1>1. belief \in BeliefType /\ mode \in ModeType /\ RunUser
    BY DEF TypeOK, ControlOK, RunInv
  <1>2. CASE CheckReport
    <2> DEFINE start == Start({"RECOVERY"})
               end == Marker("RUN_DONE")
    <2>1. /\ op' = "RUN_CTRL" /\ queue' = start \o end /\ Idle
          /\ UNCHANGED <<life, fly, req, radar>>
          /\ belief' = [belief EXCEPT !.armed = FALSE]
      BY <1>1, <1>2 DEF CheckReport, Quiet, RunUser
    <2>2. /\ belief'.running = belief.running /\ belief'.known = belief.known
          /\ belief'.everRunning = belief.everRunning
          /\ belief'.userStopped = belief.userStopped
      BY <1>1, <2>1 DEF BeliefType
    <2>3. /\ start \in Seq(Command) /\ Ids(start) = {"START"}
          /\ end \in Seq(Command) /\ Ids(end) = {"RUN_DONE"}
      BY StartType, IdsStart, MarkerType, IdsMarker DEF Flags, Markers, EndMarkers
    <2> HIDE DEF start, end
    <2>4. Ids(start \o end) = Ids(start) \cup Ids(end) BY <2>3, IdsConcat
    <2>5. "STOP" \notin Todo' BY <2>1, <2>3, <2>4 DEF Idle, Dry, Todo, Left, Ids
    <2>6. Settled /\ belief.everRunning BY <2>1 DEF RunInv, RunIdle, RunFirst, Idle
    <2>7. Settled' /\ RunUser'
      BY <1>1, <2>1, <2>2, <2>6 DEF Settled, KnownStopped, RunUser
    <2> QED BY <2>1, <2>2, <2>5, <2>6, <2>7
            DEF RunInv, RunFirst, RunIdle, RunBoot, RunSwitch, RunBusy, Busy, Reading
  <1>3. CASE CheckLink
    <2> DEFINE ask == <<Cmd("GET_SWV", 1, {})>>
               end == Marker("PING_END")
    <2>1. /\ op' = "PING" /\ queue' = ask \o end /\ Idle
          /\ UNCHANGED <<life, fly, req, radar, belief>>
      BY <1>3 DEF CheckLink, Quiet
    <2>2. /\ ask \in Seq(Command) /\ Ids(ask) = {"GET_SWV"}
          /\ end \in Seq(Command) /\ Ids(end) = {"PING_END"}
      BY CmdType, RetriesType, IdsCmd, MarkerType, IdsMarker
      DEF WireIds, Markers, EndMarkers
    <2> HIDE DEF ask, end
    <2>3. Ids(ask \o end) = Ids(ask) \cup Ids(end) BY <2>2, IdsConcat
    <2>4. "STOP" \notin Todo' BY <2>1, <2>2, <2>3 DEF Idle, Dry, Todo, Left, Ids
    <2> QED BY <2>1, <2>4, RunWork
  <1>4. CASE ConfirmExpired
    <2>1. UNCHANGED <<life, op, queue, fly, req, task, belief, radar>>
      BY <1>4 DEF ConfirmExpired
    <2>2. mode'.waiting = mode.waiting /\ mode'.seen = mode.seen
      BY <1>1, <1>4 DEF ConfirmExpired, ModeType
    <2>3. Todo' = Todo /\ KnownStopped' = KnownStopped /\ RunUser'
      BY <1>1, <2>1 DEF Todo, Left, Ids, KnownStopped, RunUser
    <2> QED BY <2>1, <2>2, <2>3, RunKeep
  <1> QED BY <1>2, <1>3, <1>4 DEF CheckNext

LEMMA RunNext ==
  ASSUME TypeOK, EndInv, OrderInv, OrderInv', RetryInv, RunInv,
         {"run", "reboot"} \cap UserOps = {}, [Next]_vars
  PROVE  RunInv'
  <1>1. ASSUME UNCHANGED vars PROVE RunInv'
    <2>1. Todo' = Todo /\ KnownStopped' = KnownStopped
      BY <1>1 DEF vars, Todo, Left, Ids, KnownStopped
    <2>2. RunUser' BY <1>1 DEF vars, RunInv, RunUser
    <2> QED BY <1>1, <2>1, <2>2, RunKeep DEF vars
  <1> QED BY <1>1, RunCalled, RunWire, RunDrive, RunSchedule, RunCheck DEF Next

\* What RunInv needs of the other invariants.
RunsInv == EndInv /\ OrderInv /\ RetryInv /\ RunInv

LEMMA RunsInit == ASSUME Init PROVE RunsInv
  BY EndInit, OrderInit, RetryInit, RunInit DEF RunsInv

LEMMA RunsNext ==
  ASSUME TypeOK, RunsInv, {"run", "reboot"} \cap UserOps = {}, [Next]_vars
  PROVE  RunsInv'
  <1>1. EndInv' /\ OrderInv' BY EndNext, OrderNext DEF RunsInv
  <1> QED BY <1>1, RetryNext, RunNext DEF RunsInv

\* Between operations a radar that nobody stopped runs, whatever commands and
\* answers were lost, mangled or refused before, on both dialects and also when
\* the radar loses power (op_failed_(), start_identify_and_read_()).
THEOREM RadarIsStarted ==
  ASSUME {"run", "reboot"} \cap UserOps = {} PROVE Spec => []RadarRuns
  <1>1. Init => RunsInv BY RunsInit
  <1>2. TypeOK /\ RunsInv /\ [Next]_vars => RunsInv' BY RunsNext
  <1>3. RunsInv => RadarRuns
    BY DEF RunsInv, RunInv, RunIdle, Settled, RadarRuns, Idle
  <1> QED BY <1>1, <1>2, <1>3, TypeCorrect, PTL DEF Spec

\* Between operations the SEN0395 engine is right about whether the radar runs:
\* no lost answer leaves it with a stale belief (set_running_()).
THEOREM BeliefIsTrue ==
  ASSUME {"run", "reboot", "power"} \cap UserOps = {}, ~HasModes
  PROVE  Spec => []BeliefIsRight
  <1>1. Init => RunsInv BY RunsInit
  <1>2. TypeOK /\ RunsInv /\ [Next]_vars => RunsInv' BY RunsNext
  <1>3. TypeOK /\ RunsInv => BeliefIsRight
    <2> SUFFICES ASSUME TypeOK, RunsInv, Idle, belief.known
                 PROVE  belief.running = radar.running
      BY DEF BeliefIsRight
    <2>1. Settled BY DEF RunsInv, RunInv, RunIdle, Idle
    <2>2. radar.running /\ belief.running BY <2>1 DEF Settled, KnownStopped
    <2>3. radar.running \in BOOLEAN /\ belief.running \in BOOLEAN
      BY DEF TypeOK, ControlOK, WireOK, RadarType, BeliefType
    <2> QED BY <2>2, <2>3
  <1> QED BY <1>1, <1>2, <1>3, TypeCorrect, PTL DEF Spec
=============================================================================
