---------------------------- MODULE GeminiProofs ----------------------------
(***************************************************************************)
(* Theorems about GeminiQuota, for any calls, limit and number of days.    *)
(***************************************************************************)
EXTENDS GeminiQuota, FiniteSetTheorems, TLAPS

\* The calls that hold or used a slot of day d.
Counted(d) ==
    {c \in Call : dayOf[c] = d /\ (pc[c] \in {"reserved", "sent", "answered"} \/ sentOn[c] # -1)}

\* The queue holds each waiting call once, in the order of the days, none
\* older than the day on record, nor is the record on the disk; the reservation that runs has room.
QueueInv ==
    /\ \A i \in 1..Len(queue) :
        pc[queue[i]] = "reserving" /\ usage.day <= dayOf[queue[i]]
    /\ \A i, j \in 1..Len(queue) :
        i < j => queue[i] # queue[j] /\ dayOf[queue[i]] <= dayOf[queue[j]]
    /\ \A c \in Call : dayOf[c] <= day
    /\ usage.day <= day /\ durable.day <= usage.day
    /\ used # -1 => queue # <<>> /\ used < Limit
    /\ \A c \in Call : pc[c] \in {"idle", "reserving", "reserved", "refused"} => sentOn[c] = -1

\* What the record says of day d bounds the calls counted for it.
Recorded(d) ==
    IF d = usage.day THEN usage.count ELSE IF d < usage.day THEN Limit ELSE 0

CountInv ==
    /\ \A d \in (0..MaxDay) \ lost : Cardinality(Counted(d)) <= Recorded(d)
    /\ used # -1 /\ dayOf[Head(queue)] \notin lost => Recorded(dayOf[Head(queue)]) <= used

Inv == TypeOK /\ QueueInv /\ CountInv

LEMMA CountedFinite ==
  ASSUME NEW d
  PROVE  IsFiniteSet(Counted(d)) /\ Cardinality(Counted(d)) \in Nat
PROOF
  <1>1. Counted(d) \subseteq Call  BY DEF Counted
  <1> QED BY <1>1, CallFinite, FS_Subset, FS_CardinalityType

\* What is left of a queue whose first element has been served.
LEMMA Served ==
  ASSUME NEW q \in Seq(Call), q # <<>>
  PROVE  /\ Head(q) \in Call /\ Head(q) = q[1] /\ Len(q) \in Nat /\ Len(q) >= 1
         /\ Tail(q) \in Seq(Call) /\ Len(Tail(q)) = Len(q) - 1
         /\ \A i \in 1..Len(Tail(q)) : i + 1 \in 1..Len(q) /\ Tail(q)[i] = q[i + 1]
PROOF OBVIOUS

\* What a queue holds once a call has joined it.
LEMMA Joined ==
  ASSUME NEW q \in Seq(Call), NEW c \in Call
  PROVE  /\ Append(q, c) \in Seq(Call) /\ Len(q) \in Nat /\ Len(Append(q, c)) = Len(q) + 1
         /\ \A i \in 1..Len(q) : Append(q, c)[i] = q[i]
         /\ Append(q, c)[Len(q) + 1] = c
PROOF OBVIOUS

LEMMA InitInv == Init => Inv
PROOF
  <1> SUFFICES ASSUME Init PROVE Inv  OBVIOUS
  <1> USE LimitType, MaxDayType, MaxCrashesType DEF Init
  <1>0. Len(queue) = 0 /\ queue \in Seq(Call) /\ usage.day = 0 /\ durable = usage  OBVIOUS
  <1>1. TypeOK
    <2>1. /\ usage \in [day : 0..MaxDay, count : 0..Limit]
          /\ durable \in [day : 0..MaxDay, count : 0..Limit]  OBVIOUS
    <2>2. /\ pc \in [Call -> {"idle", "reserving", "reserved", "sent", "answered", "refused", "dead"}]
          /\ dayOf \in [Call -> 0..MaxDay]
          /\ sentOn \in [Call -> -1..MaxDay]  OBVIOUS
    <2> QED BY <1>0, <2>1, <2>2 DEF TypeOK
  <1>2. QueueInv  BY <1>0 DEF QueueInv
  <1>3. \A d : Counted(d) = {}  BY DEF Counted
  <1>4. CountInv
    <2>1. ASSUME NEW d PROVE Cardinality(Counted(d)) = 0  BY <1>3, FS_EmptySet
    <2>2. \A d : 0 <= Recorded(d)  BY DEF Recorded
    <2> QED BY <2>1, <2>2 DEF CountInv
  <1> QED BY <1>1, <1>2, <1>4 DEF Inv

\* A record whose count is gone is still a record.
LEMMA Erased ==
  ASSUME NEW u \in [day : 0..MaxDay, count : 0..Limit]
  PROVE  LET v == [u EXCEPT !.count = 0] IN v \in [day : 0..MaxDay, count : 0..Limit] /\ v.day = u.day
PROOF
  <1>1. 0 \in 0..Limit  BY LimitType
  <1> QED BY <1>1

LEMMA StepType ==
  ASSUME Inv, Next
  PROVE  TypeOK'
PROOF
  <1> USE LimitType, MaxDayType, MaxCrashesType DEF Inv, TypeOK
  <1>0. queue # <<>> => Head(queue) \in Call /\ Tail(queue) \in Seq(Call)  BY Served
  <1>1. CASE Midnight      BY <1>1 DEF Midnight
  <1>2. CASE ReadUsage
    <2>0. queue # <<>> /\ Head(queue) \in Call /\ Tail(queue) \in Seq(Call)  BY <1>0, <1>2 DEF ReadUsage
    <2>1. queue' \in Seq(Call)  BY <1>2, <2>0 DEF ReadUsage
    <2>2. used' \in -1..Limit   BY <1>2, <2>0 DEF ReadUsage
    <2>3. pc' \in [Call -> {"idle", "reserving", "reserved", "sent", "answered", "refused", "dead"}]
      BY <1>2, <2>0 DEF ReadUsage
    <2> QED BY <1>2, <2>1, <2>2, <2>3 DEF ReadUsage
  <1>3. CASE MisreadUsage
    <2>0. queue # <<>> /\ Head(queue) \in Call /\ Tail(queue) \in Seq(Call)  BY <1>0, <1>3 DEF MisreadUsage
    <2>1. queue' \in Seq(Call)  BY <1>3, <2>0 DEF MisreadUsage
    <2>2. used' \in -1..Limit   BY <1>3, <2>0 DEF MisreadUsage
    <2>3. pc' \in [Call -> {"idle", "reserving", "reserved", "sent", "answered", "refused", "dead"}]
      BY <1>3, <2>0 DEF MisreadUsage
    <2>4. lost' \subseteq 0..MaxDay  BY <1>3, <2>0 DEF MisreadUsage
    <2> QED BY <1>3, <2>1, <2>2, <2>3, <2>4 DEF MisreadUsage
  <1>4. CASE WriteUsage
    <2>0. queue # <<>> /\ Head(queue) \in Call /\ Tail(queue) \in Seq(Call) /\ used \in 0..(Limit - 1)
      BY <1>0, <1>4 DEF WriteUsage, QueueInv
    <2>1. usage' \in [day : 0..MaxDay, count : 0..Limit]  BY <1>4, <2>0 DEF WriteUsage
    <2>2. pc' \in [Call -> {"idle", "reserving", "reserved", "sent", "answered", "refused", "dead"}]
      BY <1>4, <2>0 DEF WriteUsage
    <2> QED BY <1>4, <2>0, <2>1, <2>2 DEF WriteUsage
  <1>5. CASE WriteFails
    <2>0. queue # <<>> /\ Head(queue) \in Call /\ Tail(queue) \in Seq(Call)
      BY <1>0, <1>5 DEF WriteFails, QueueInv
    <2>1. pc' \in [Call -> {"idle", "reserving", "reserved", "sent", "answered", "refused", "dead"}]
      BY <1>5, <2>0 DEF WriteFails
    <2> QED BY <1>5, <2>0, <2>1 DEF WriteFails
  <1>6. CASE Crash         BY <1>6 DEF Crash, Dies
  <1>8. CASE OthersErase
    <2>1. usage' \in [day : 0..MaxDay, count : 0..Limit]
      BY <1>8, Erased DEF OthersErase
    <2>2. usage.day \in 0..MaxDay  OBVIOUS
    <2>3. lost' \subseteq 0..MaxDay
      BY <1>8, <2>2 DEF OthersErase
    <2> QED BY <1>8, <2>1, <2>3 DEF OthersErase
  <1>9. CASE Flush         BY <1>9 DEF Flush
  <1>10. CASE PowerLoss
    <2>1. durable.day .. usage.day \subseteq 0..MaxDay  OBVIOUS
    <2>2. lost' \subseteq 0..MaxDay  BY <1>10, <2>1 DEF PowerLoss
    <2> QED BY <1>10, <2>2 DEF PowerLoss, Dies
  <1>7. ASSUME NEW c \in Call, Refuse(c) \/ Dispatch(c) \/ Send(c) \/ Answer(c)
        PROVE  TypeOK'
    <2>1. CASE Refuse(c)    BY <2>1 DEF Refuse
    <2>2. CASE Dispatch(c)  BY <2>2 DEF Dispatch
    <2>3. CASE Send(c)      BY <2>3 DEF Send
    <2>4. CASE Answer(c)    BY <2>4 DEF Answer
    <2> QED BY <1>7, <2>1, <2>2, <2>3, <2>4
  <1> QED BY <1>1, <1>2, <1>3, <1>4, <1>5, <1>6, <1>7, <1>8, <1>9, <1>10 DEF Next

\* Serving the first reservation keeps the queue in order, whatever becomes of
\* the call, provided the record moves to no day later than its own.
LEMMA ServeQueue ==
  ASSUME TypeOK, QueueInv, queue # <<>>, NEW status, status # "reserving",
         queue' = Tail(queue), used' = -1, pc' = [pc EXCEPT ![Head(queue)] = status],
         usage'.day \in {usage.day, dayOf[Head(queue)]},
         UNCHANGED <<day, durable, dayOf, sentOn>>
  PROVE  QueueInv'
PROOF
  <1> USE DEF TypeOK, QueueInv
  <1>0. /\ Head(queue) \in Call /\ Head(queue) = queue[1] /\ Len(queue) \in Nat /\ Len(queue) >= 1
        /\ Len(queue') = Len(queue) - 1
        /\ \A i \in 1..Len(queue') : i + 1 \in 1..Len(queue) /\ queue'[i] = queue[i + 1]
    BY Served
  <1>1. \A i \in 1..Len(queue') : pc'[queue'[i]] = "reserving" /\ usage'.day <= dayOf'[queue'[i]]
    <2> TAKE i \in 1..Len(queue')
    <2>1. /\ queue'[i] = queue[i + 1] /\ queue[i + 1] \in Call /\ i + 1 \in 1..Len(queue)
          /\ queue[i + 1] # Head(queue) /\ dayOf[Head(queue)] <= dayOf[queue[i + 1]]
      BY <1>0
    <2>2. pc'[queue'[i]] = "reserving"  BY <2>1
    <2>3. usage.day <= dayOf[queue[i + 1]]  BY <2>1
    <2> QED BY <2>1, <2>2, <2>3
  <1>2. \A i, j \in 1..Len(queue') :
          i < j => queue'[i] # queue'[j] /\ dayOf'[queue'[i]] <= dayOf'[queue'[j]]
    BY <1>0
  <1>3. usage'.day <= day' /\ durable'.day <= usage'.day
    <2>1. usage.day <= dayOf[Head(queue)] /\ dayOf[Head(queue)] \in 0..MaxDay  BY <1>0
    <2> QED BY <1>0, <2>1, MaxDayType
  <1>4. \A c \in Call : pc'[c] \in {"idle", "reserving", "reserved", "refused"} => sentOn'[c] = -1
    <2>1. pc[Head(queue)] = "reserving" /\ sentOn[Head(queue)] = -1  BY <1>0
    <2> QED BY <1>0, <2>1
  <1> QED BY <1>1, <1>2, <1>3, <1>4

LEMMA StepQueue ==
  ASSUME Inv, Next
  PROVE  QueueInv'
PROOF
  <1> USE LimitType, MaxDayType DEF Inv
  <1>1. CASE Midnight      BY <1>1 DEF Midnight, TypeOK, QueueInv
  <1>2. CASE ReadUsage
    <2>1. CASE queue' = queue  BY <1>2, <2>1 DEF ReadUsage, TypeOK, QueueInv
    <2>2. CASE queue' = Tail(queue) /\ pc' = [pc EXCEPT ![Head(queue)] = "refused"] /\ UNCHANGED used
      BY <1>2, <2>2, ServeQueue DEF ReadUsage
    <2> QED BY <1>2, <2>1, <2>2 DEF ReadUsage
  <1>3. CASE MisreadUsage
    <2>1. CASE queue' = queue /\ pc' = pc /\ used' = 0 /\ Limit # 0
      BY <1>3, <2>1 DEF MisreadUsage, TypeOK, QueueInv
    <2>2. CASE queue' = Tail(queue) /\ pc' = [pc EXCEPT ![Head(queue)] = "refused"] /\ UNCHANGED used
      BY <1>3, <2>2, ServeQueue DEF MisreadUsage
    <2> QED BY <1>3, <2>1, <2>2 DEF MisreadUsage
  <1>4. CASE WriteUsage    BY <1>4, ServeQueue DEF WriteUsage, QueueInv
  <1>5. CASE WriteFails    BY <1>5, ServeQueue DEF WriteFails, QueueInv
  <1>6. CASE Crash         BY <1>6 DEF Crash, Dies, TypeOK, QueueInv
  <1>8. CASE OthersErase
    <2>1. usage'.day = usage.day  BY <1>8 DEF OthersErase, TypeOK
    <2> QED BY <1>8, <2>1 DEF OthersErase, TypeOK, QueueInv
  <1>9. CASE Flush         BY <1>9 DEF Flush, TypeOK, QueueInv
  <1>10. CASE PowerLoss
    <2>1. usage'.day <= day /\ durable'.day <= usage'.day
      BY <1>10 DEF PowerLoss, Dies, TypeOK, QueueInv
    <2> QED BY <1>10, <2>1 DEF PowerLoss, Dies, TypeOK, QueueInv
  <1>7. ASSUME NEW c \in Call, Refuse(c) \/ Dispatch(c) \/ Send(c) \/ Answer(c)
        PROVE  QueueInv'
    <2>0. \A i \in 1..Len(queue) : queue[i] \in Call /\ pc[queue[i]] = "reserving"
      BY DEF TypeOK, QueueInv
    <2>1. CASE Refuse(c)    BY <2>0, <2>1 DEF Refuse, TypeOK, QueueInv
    <2>2. CASE Dispatch(c)
      <3>1. /\ Len(queue) \in Nat /\ Len(queue') = Len(queue) + 1
            /\ \A i \in 1..Len(queue) : queue'[i] = queue[i]
            /\ queue'[Len(queue) + 1] = c
        BY <2>2, Joined DEF Dispatch, TypeOK
      <3>2. \A i \in 1..Len(queue) : /\ queue[i] # c /\ dayOf'[queue[i]] = dayOf[queue[i]]
                                     /\ dayOf[queue[i]] <= day /\ pc'[queue[i]] = "reserving"
        BY <2>0, <2>2 DEF Dispatch, TypeOK, QueueInv
      <3>3. pc'[c] = "reserving" /\ dayOf'[c] = day  BY <2>2 DEF Dispatch, TypeOK
      <3>4. \A i \in 1..Len(queue') : pc'[queue'[i]] = "reserving" /\ usage'.day <= dayOf'[queue'[i]]
        <4> TAKE i \in 1..Len(queue')
        <4>1. CASE i = Len(queue) + 1  BY <2>2, <3>1, <3>3, <4>1 DEF Dispatch, QueueInv
        <4>2. CASE i # Len(queue) + 1
          <5>1. i \in 1..Len(queue)  BY <3>1, <4>2
          <5> QED BY <2>2, <3>1, <3>2, <5>1 DEF Dispatch, QueueInv
        <4> QED BY <4>1, <4>2
      <3>5. \A i, j \in 1..Len(queue') :
              i < j => queue'[i] # queue'[j] /\ dayOf'[queue'[i]] <= dayOf'[queue'[j]]
        <4> TAKE i, j \in 1..Len(queue')
        <4> HAVE i < j
        <4>1. i \in 1..Len(queue) /\ queue'[i] = queue[i]  BY <3>1
        <4>2. CASE j = Len(queue) + 1  BY <3>1, <3>2, <3>3, <4>1, <4>2
        <4>3. CASE j # Len(queue) + 1
          <5>1. j \in 1..Len(queue) /\ queue'[j] = queue[j]  BY <3>1, <4>3
          <5> QED BY <3>2, <4>1, <5>1 DEF QueueInv
        <4> QED BY <4>2, <4>3
      <3>6. \A b \in Call : dayOf'[b] <= day'  BY <2>2 DEF Dispatch, TypeOK, QueueInv
      <3>7. used' # -1 => queue' # <<>> /\ used' < Limit
        <4>1. queue' # <<>>  BY <3>1
        <4> QED BY <2>2, <4>1 DEF Dispatch, QueueInv
      <3>8. \A b \in Call : pc'[b] \in {"idle", "reserving", "reserved", "refused"} => sentOn'[b] = -1
        BY <2>2 DEF Dispatch, TypeOK, QueueInv
      <3>9. usage'.day <= day' /\ durable'.day <= usage'.day  BY <2>2 DEF Dispatch, QueueInv
      <3> QED BY <3>4, <3>5, <3>6, <3>7, <3>8, <3>9 DEF QueueInv
    <2>3. CASE Send(c)      BY <2>0, <2>3 DEF Send, TypeOK, QueueInv
    <2>4. CASE Answer(c)    BY <2>0, <2>4 DEF Answer, TypeOK, QueueInv
    <2> QED BY <1>7, <2>1, <2>2, <2>3, <2>4
  <1> QED BY <1>1, <1>2, <1>3, <1>4, <1>5, <1>6, <1>7, <1>8, <1>9, <1>10 DEF Next

\* Where no call is counted anew, the bound of a day can only get safer.
LEMMA CountKept ==
  ASSUME Inv, TypeOK', NEW d \in 0..MaxDay, d \notin lost,
         \A c \in Call : c \in Counted(d)' => c \in Counted(d),
         Recorded(d)' >= Recorded(d)
  PROVE  Cardinality(Counted(d)') <= Recorded(d)'
PROOF
  <1>1. Counted(d)' \subseteq Counted(d)  BY DEF Counted
  <1>2. /\ Cardinality(Counted(d)') \in Nat /\ Cardinality(Counted(d)) \in Nat
        /\ Cardinality(Counted(d)') <= Cardinality(Counted(d))
    BY <1>1, CountedFinite, FS_Subset, FS_CardinalityType
  <1>3. Cardinality(Counted(d)) <= Recorded(d)  BY DEF Inv, CountInv
  <1>4. Recorded(d) \in Int /\ Recorded(d)' \in Int
    BY LimitType DEF Inv, TypeOK, Recorded
  <1> QED BY <1>2, <1>3, <1>4

\* The steps that change neither the record nor what is counted.
LEMMA RecordKept ==
  ASSUME Inv, TypeOK', UNCHANGED usage, lost \subseteq lost',
         \A d : \A c \in Call : c \in Counted(d)' => c \in Counted(d)
  PROVE  \A d \in (0..MaxDay) \ lost' : Cardinality(Counted(d)') <= Recorded(d)'
PROOF
  <1> TAKE d \in (0..MaxDay) \ lost'
  <1>1. Recorded(d) \in Int /\ Recorded(d)' = Recorded(d)
    BY LimitType DEF Inv, TypeOK, Recorded
  <1> QED BY <1>1, CountKept

LEMMA StepCount ==
  ASSUME Inv, Next
  PROVE  CountInv'
PROOF
  <1> USE LimitType, MaxDayType
  <1>0. TypeOK /\ TypeOK' /\ QueueInv /\ QueueInv'  BY StepType, StepQueue DEF Inv
  <1>q. queue # <<>> => /\ Head(queue) \in Call /\ pc[Head(queue)] = "reserving"
                        /\ usage.day <= dayOf[Head(queue)] /\ sentOn[Head(queue)] = -1
                        /\ dayOf[Head(queue)] \in 0..MaxDay
    <2> SUFFICES ASSUME queue # <<>>
                 PROVE  /\ Head(queue) \in Call /\ pc[Head(queue)] = "reserving"
                        /\ usage.day <= dayOf[Head(queue)] /\ sentOn[Head(queue)] = -1
                        /\ dayOf[Head(queue)] \in 0..MaxDay
      OBVIOUS
    <2>1. Head(queue) \in Call /\ Head(queue) = queue[1] /\ 1 \in 1..Len(queue)
      BY <1>0, Served DEF TypeOK
    <2>2. pc[Head(queue)] = "reserving" /\ usage.day <= dayOf[Head(queue)]
      BY <1>0, <2>1 DEF QueueInv
    <2> QED BY <1>0, <2>1, <2>2 DEF TypeOK, QueueInv
  <1>1. CASE Midnight
    <2>1. \A d : \A c \in Call : c \in Counted(d)' => c \in Counted(d)  BY <1>1 DEF Midnight, Counted
    <2>2. \A d \in (0..MaxDay) \ lost' : Cardinality(Counted(d)') <= Recorded(d)'
      BY <1>0, <1>1, <2>1, RecordKept DEF Midnight
    <2> QED BY <1>1, <2>2 DEF Midnight, Inv, CountInv, Recorded
  <1>2. CASE ReadUsage
    <2>1. \A d : \A c \in Call : c \in Counted(d)' => c \in Counted(d)
      BY <1>0, <1>2, <1>q DEF ReadUsage, Counted, TypeOK
    <2>2. \A d \in (0..MaxDay) \ lost' : Cardinality(Counted(d)') <= Recorded(d)'
      BY <1>0, <1>2, <2>1, RecordKept DEF ReadUsage
    <2>3. used' # -1 => Recorded(dayOf[Head(queue)]) <= used' /\ queue' = queue
      BY <1>0, <1>2, <1>q DEF ReadUsage, Recorded, TypeOK
    <2> QED BY <1>2, <2>2, <2>3 DEF ReadUsage, CountInv, Recorded
  <1>3. CASE MisreadUsage
    <2>1. \A d : \A c \in Call : c \in Counted(d)' => c \in Counted(d)
      BY <1>0, <1>3, <1>q DEF MisreadUsage, Counted, TypeOK
    <2>2. \A d \in (0..MaxDay) \ lost' : Cardinality(Counted(d)') <= Recorded(d)'
      BY <1>0, <1>3, <2>1, RecordKept DEF MisreadUsage
    <2>3. used' # -1 => dayOf'[Head(queue')] \in lost'  BY <1>3 DEF MisreadUsage
    <2> QED BY <2>2, <2>3 DEF CountInv
  <1>4. CASE WriteUsage
    <2>0. queue # <<>> /\ used \in 0..Limit
      BY <1>0, <1>4 DEF WriteUsage, QueueInv, TypeOK
    <2>1. PICK c \in Call : c = Head(queue)  BY <1>q, <2>0
    <2>2. PICK e \in 0..MaxDay : e = dayOf[c]  BY <1>q, <2>0, <2>1
    <2>3. pc[c] = "reserving" /\ usage.day <= e /\ sentOn[c] = -1
      BY <1>q, <2>0, <2>1, <2>2
    <2>4. /\ usage' = [day |-> e, count |-> used + 1] /\ used' = -1
          /\ UNCHANGED <<dayOf, sentOn, lost>>
          /\ pc' = [pc EXCEPT ![c] = "reserved"]
      BY <1>4, <2>1, <2>2 DEF WriteUsage
    <2>5. ASSUME NEW d \in 0..MaxDay, d \notin lost, d # e
          PROVE  Cardinality(Counted(d)') <= Recorded(d)'
      <3>1. \A b \in Call : b \in Counted(d)' => b \in Counted(d)
        BY <1>0, <2>2, <2>4, <2>5 DEF Counted, TypeOK
      <3>2. Recorded(d)' >= Recorded(d)  BY <1>0, <2>3, <2>4, <2>5 DEF Recorded, TypeOK
      <3> QED BY <1>0, <3>1, <3>2, <2>5, CountKept
    <2>6. ASSUME e \notin lost
          PROVE  Cardinality(Counted(e)') <= Recorded(e)'
      <3>1. c \notin Counted(e)  BY <2>3 DEF Counted
      <3>2. \A b \in Call : b \in Counted(e)' <=> b \in Counted(e) \/ b = c
        BY <1>0, <2>2, <2>4 DEF Counted, TypeOK
      <3>3. Counted(e)' = Counted(e) \cup {c}  BY <3>2 DEF Counted
      <3>4. Cardinality(Counted(e)') = Cardinality(Counted(e)) + 1 /\ Cardinality(Counted(e)) \in Nat
        BY <3>1, <3>3, CountedFinite, FS_AddElement
      <3>5. Cardinality(Counted(e)) <= Recorded(e)  BY <2>6 DEF Inv, CountInv
      <3>6. Recorded(e) <= used  BY <1>4, <2>1, <2>2, <2>6 DEF Inv, CountInv, WriteUsage
      <3>7. Recorded(e) \in Int  BY <1>0 DEF Recorded, TypeOK
      <3>8. Recorded(e)' = used + 1  BY <2>4 DEF Recorded
      <3> QED BY <2>0, <3>4, <3>5, <3>6, <3>7, <3>8
    <2>7. \A d \in (0..MaxDay) \ lost' : Cardinality(Counted(d)') <= Recorded(d)'
      BY <2>4, <2>5, <2>6
    <2> QED BY <2>4, <2>7 DEF CountInv
  <1>5. CASE WriteFails
    <2>0. queue # <<>>  BY <1>0, <1>5 DEF WriteFails, QueueInv
    <2>1. \A d : \A c \in Call : c \in Counted(d)' => c \in Counted(d)
      BY <1>0, <1>5, <1>q, <2>0 DEF WriteFails, Counted, TypeOK
    <2>2. \A d \in (0..MaxDay) \ lost' : Cardinality(Counted(d)') <= Recorded(d)'
      BY <1>0, <1>5, <2>1, RecordKept DEF WriteFails
    <2> QED BY <1>5, <2>2 DEF WriteFails, CountInv
  <1>6. CASE Crash
    <2>1. \A d : \A c \in Call : c \in Counted(d)' => c \in Counted(d)
      BY <1>0, <1>6 DEF Crash, Dies, Counted, TypeOK
    <2>2. \A d \in (0..MaxDay) \ lost' : Cardinality(Counted(d)') <= Recorded(d)'
      BY <1>0, <1>6, <2>1, RecordKept DEF Crash
    <2> QED BY <1>6, <2>2 DEF Crash, Dies, CountInv
  <1>8. CASE OthersErase
    <2>1. ASSUME NEW d \in 0..MaxDay, d \notin lost'
          PROVE  Cardinality(Counted(d)') <= Recorded(d)'
      <3>1. d \notin lost /\ d # usage.day  BY <1>8, <2>1 DEF OthersErase
      <3>2. \A c \in Call : c \in Counted(d)' => c \in Counted(d)  BY <1>8 DEF OthersErase, Counted
      <3>3. usage'.day = usage.day  BY <1>0, <1>8 DEF OthersErase, TypeOK
      <3>4. Recorded(d)' = Recorded(d) /\ Recorded(d) \in Int  BY <1>0, <3>1, <3>3 DEF Recorded, TypeOK
      <3> QED BY <1>0, <3>1, <3>2, <3>4, CountKept
    <2>2. ASSUME used # -1, dayOf[Head(queue)] \notin lost'
          PROVE  Recorded(dayOf[Head(queue)])' <= used
      <3>1. queue # <<>>  BY <1>0, <2>2 DEF QueueInv
      <3>2. /\ dayOf[Head(queue)] \notin lost /\ dayOf[Head(queue)] # usage.day
            /\ usage'.day = usage.day /\ dayOf' = dayOf /\ queue' = queue
        BY <1>0, <1>8, <2>2 DEF OthersErase, TypeOK
      <3> QED BY <2>2, <3>2 DEF Recorded, Inv, CountInv
    <2> QED BY <1>8, <2>1, <2>2 DEF OthersErase, CountInv, Recorded
  <1>9. CASE Flush
    <2>1. \A d : \A c \in Call : c \in Counted(d)' => c \in Counted(d)  BY <1>9 DEF Flush, Counted
    <2>2. \A d \in (0..MaxDay) \ lost' : Cardinality(Counted(d)') <= Recorded(d)'
      BY <1>0, <1>9, <2>1, RecordKept DEF Flush
    <2> QED BY <1>9, <2>2 DEF Flush, Inv, CountInv, Recorded
  <1>10. CASE PowerLoss
    <2>1. \A d : \A c \in Call : c \in Counted(d)' => c \in Counted(d)
      BY <1>0, <1>10 DEF PowerLoss, Dies, Counted, TypeOK
    <2>2. used' = -1 /\ lost \subseteq lost' /\ usage' = durable
      BY <1>10 DEF PowerLoss, Dies
    <2>3. ASSUME NEW d \in 0..MaxDay, d \notin lost'
          PROVE  Cardinality(Counted(d)') <= Recorded(d)'
      <3>1. CASE durable = usage
        <4>1. Recorded(d)' >= Recorded(d)  BY <1>0, <2>2, <3>1 DEF Recorded, TypeOK
        <4> QED BY <1>0, <2>1, <2>2, <2>3, <4>1, CountKept
      <3>2. CASE durable # usage
        <4>1. d \notin durable.day .. usage.day  BY <1>10, <2>3, <3>2 DEF PowerLoss
        <4>2. durable.day <= usage.day  BY <1>0 DEF QueueInv
        <4>3. durable.day \in 0..MaxDay /\ usage.day \in 0..MaxDay  BY <1>0 DEF TypeOK
        <4>4. (d < durable.day /\ d < usage.day) \/ (d > durable.day /\ d > usage.day)
          BY <4>1, <4>2, <4>3
        <4>5. Recorded(d)' = Recorded(d) /\ Recorded(d) \in Int
          BY <2>2, <4>3, <4>4 DEF Recorded
        <4> QED BY <1>0, <2>1, <2>2, <2>3, <4>5, CountKept
      <3> QED BY <3>1, <3>2
    <2> QED BY <2>2, <2>3 DEF CountInv
  <1>7. ASSUME NEW c \in Call, Refuse(c) \/ Dispatch(c) \/ Send(c) \/ Answer(c)
        PROVE  CountInv'
    <2>1. \A d : \A b \in Call : b \in Counted(d)' => b \in Counted(d)
      <3>1. CASE Refuse(c)    BY <1>0, <3>1 DEF Refuse, Counted, TypeOK, QueueInv
      <3>2. CASE Dispatch(c)  BY <1>0, <3>2 DEF Dispatch, Counted, TypeOK, QueueInv
      <3>3. CASE Send(c)      BY <1>0, <3>3 DEF Send, Counted, TypeOK
      <3>4. CASE Answer(c)    BY <1>0, <3>4 DEF Answer, Counted, TypeOK
      <3> QED BY <1>7, <3>1, <3>2, <3>3, <3>4
    <2>2. UNCHANGED <<usage, used, lost>>  BY <1>7 DEF Refuse, Dispatch, Send, Answer
    <2>3. \A d \in (0..MaxDay) \ lost' : Cardinality(Counted(d)') <= Recorded(d)'
      BY <1>0, <2>1, <2>2, RecordKept
    <2>4. ASSUME used # -1
          PROVE  Head(queue') = Head(queue) /\ dayOf'[Head(queue)] = dayOf[Head(queue)]
      <3>1. queue # <<>>  BY <1>0, <2>4 DEF QueueInv
      <3>2. CASE Dispatch(c)  BY <1>0, <1>q, <3>1, <3>2, Served, Joined DEF Dispatch, TypeOK
      <3> QED BY <1>7, <3>2 DEF Refuse, Send, Answer
    <2> QED BY <2>2, <2>3, <2>4 DEF Inv, CountInv, Recorded
  <1> QED BY <1>1, <1>2, <1>3, <1>4, <1>5, <1>6, <1>7, <1>8, <1>9, <1>10 DEF Next

LEMMA Invariance == Spec => []Inv
PROOF
  <1>1. Inv /\ [Next]_vars => Inv'
    <2> SUFFICES ASSUME Inv, [Next]_vars PROVE Inv'  OBVIOUS
    <2>1. CASE Next  BY <2>1, StepType, StepQueue, StepCount DEF Inv
    <2>2. CASE UNCHANGED vars
      BY <2>2 DEF vars, Inv, TypeOK, QueueInv, CountInv, Recorded, Counted
    <2> QED BY <2>1, <2>2
  <1> QED BY <1>1, InitInv, PTL DEF Spec

\* Every variable of the quota keeps its type; in particular the stored count
\* never exceeds the limit (gemini.ts:154-160).
THEOREM TypeCorrect == Spec => []TypeOK
PROOF
  <1>1. Inv => TypeOK  BY DEF Inv
  <1> QED BY <1>1, Invariance, PTL

\* What was sent for a day is counted for it, and a count is within the record.
LEMMA SentIsRecorded ==
  ASSUME Inv, NEW d \in (0..MaxDay) \ lost
  PROVE  Cardinality(SentFor(d)) <= Recorded(d) /\ Recorded(d) <= Limit
PROOF
  <1>1. SentFor(d) \subseteq Counted(d)  BY DEF SentFor, Counted
  <1>2. /\ Cardinality(SentFor(d)) \in Nat /\ Cardinality(Counted(d)) \in Nat
        /\ Cardinality(SentFor(d)) <= Cardinality(Counted(d))
    BY <1>1, CountedFinite, FS_Subset, FS_CardinalityType
  <1>3. Cardinality(Counted(d)) <= Recorded(d)  BY DEF Inv, CountInv
  <1>4. Recorded(d) \in Int /\ Recorded(d) <= Limit
    BY LimitType DEF Inv, TypeOK, Recorded
  <1> QED BY <1>2, <1>3, <1>4

\* The calls that asked on one day send at most Limit requests, in any
\* interleaving and across restarts, unless the store lost the count of that day
\* to a failed read, to another task's write or to a loss of power
\* (gemini.ts:154-160, state-store.ts:55-66, atomic-write.ts:32).
THEOREM LimitHolds == Spec => []LimitPerAskingDay
PROOF
  <1>1. Inv => LimitPerAskingDay
    <2> SUFFICES ASSUME Inv, NEW d \in (0..MaxDay) \ lost
                 PROVE  Cardinality(SentFor(d)) <= Limit
      BY DEF LimitPerAskingDay
    <2>1. SentFor(d) \subseteq Counted(d)  BY DEF SentFor, Counted
    <2>2. Cardinality(SentFor(d)) \in Nat
      BY <2>1, CountedFinite, FS_Subset, FS_CardinalityType
    <2>3. Recorded(d) \in Int  BY LimitType DEF Inv, TypeOK, Recorded
    <2> QED BY <2>2, <2>3, SentIsRecorded, LimitType
  <1> QED BY <1>1, Invariance, PTL

\* A request that went out is in the stored count of its day, also when it
\* failed or the process died before the answer, unless the store lost the count
\* (gemini.ts:154-160).
THEOREM SentCounted == Spec => []SentIsCounted
PROOF
  <1>1. Inv => SentIsCounted
    <2> SUFFICES ASSUME Inv, usage.day \notin lost
                 PROVE  Cardinality(SentFor(usage.day)) <= usage.count
      BY DEF SentIsCounted
    <2>1. usage.day \in (0..MaxDay) \ lost  BY DEF Inv, TypeOK
    <2>2. Recorded(usage.day) = usage.count  BY DEF Recorded
    <2> QED BY <2>1, <2>2, SentIsRecorded
  <1> QED BY <1>1, Invariance, PTL

\* The day on record moves back only when a loss of power undoes what was not yet
\* on the disk (gemini.ts:152-160, serializer.ts, atomic-write.ts:32).
THEOREM RecordForward == Spec => RecordMovesForward
PROOF
  <1>1. Inv /\ [Next]_vars => [usage'.day < usage.day => crashes' > crashes /\ usage' = durable]_usage
    <2> SUFFICES ASSUME Inv, [Next]_vars, usage' # usage, usage'.day < usage.day
                 PROVE  crashes' > crashes /\ usage' = durable
      OBVIOUS
    <2>1. WriteUsage \/ OthersErase \/ PowerLoss
      BY DEF Next, vars, Midnight, ReadUsage, MisreadUsage, WriteFails, Flush, Crash, Refuse, Dispatch, Send, Answer
    <2>2. CASE WriteUsage
      <3>2. queue \in Seq(Call) /\ queue # <<>>  BY <2>2 DEF WriteUsage, Inv, TypeOK, QueueInv
      <3>3. Head(queue) = queue[1] /\ 1 \in 1..Len(queue)  BY <3>2, Served
      <3>4. usage.day <= dayOf[Head(queue)]  BY <3>3 DEF Inv, QueueInv
      <3>5. dayOf[Head(queue)] \in Int /\ usage.day \in Int
        BY <3>2, Served, MaxDayType DEF Inv, TypeOK
      <3>6. usage'.day = dayOf[Head(queue)]  BY <2>2 DEF WriteUsage
      <3> QED BY <3>4, <3>5, <3>6
    <2>3. CASE OthersErase
      <3>1. usage'.day = usage.day /\ usage.day \in Int
        BY <2>3, MaxDayType DEF OthersErase, Inv, TypeOK
      <3> QED BY <3>1
    <2>4. CASE PowerLoss
      BY <2>4, MaxCrashesType DEF PowerLoss, Dies, Inv, TypeOK
    <2> QED BY <2>1, <2>2, <2>3, <2>4
  <1> QED BY <1>1, Invariance, PTL DEF Spec, RecordMovesForward
=============================================================================
