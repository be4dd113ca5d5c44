-------------------------- MODULE GEMHwDevice_proofs --------------------------
(***************************************************************************)
(* Proofs about the accesses to the registers of a card, for every number of  *)
(* threads, every set of calls, every frequency and every number of retries.    *)
(***************************************************************************)
EXTENDS GEMHwDevice, SequenceTheorems, WellFoundedInduction, TLAPS

(* The i-th register of the call of t, and the value for it.                            *)
Reg(t, i) == call[t].list[i].reg
Val(t, i) == call[t].list[i].val

(* The k-th transaction in the client writes the register.                     *)
WritesTo(k, r) == queue[k].write /\ queue[k].reg = r

(* The answer for place i is still to come, and no write comes before it; or it is   *)
(* there and no write will make it untrue.                                       *)
AnswerIsTrue(t, i) ==
  \/ \E k \in DOMAIN queue :
       /\ ~queue[k].write /\ queue[k].place = i
       /\ \A m \in DOMAIN queue : m > k => ~queue[m].write
  \/ /\ got[t][i] = regs[Reg(t, i)]
     /\ \A m \in DOMAIN queue : ~queue[m].write

(* The value for place i will be the last one written to its register; or it is      *)
(* there and no other will be written.                                          *)
WriteIsTrue(t, i) ==
  \/ \E k \in DOMAIN queue :
       /\ WritesTo(k, Reg(t, i)) /\ queue[k].val = Val(t, i)
       /\ \A m \in DOMAIN queue : m > k => ~WritesTo(m, Reg(t, i))
  \/ /\ regs[Reg(t, i)] = Stored(Reg(t, i), Val(t, i))
     /\ \A m \in DOMAIN queue : ~WritesTo(m, Reg(t, i))

(* No later one of the registers queued so far is the same.                       *)
IsLast(t, i) == \A j \in 1..counter[t] : Reg(t, j) = Reg(t, i) => j <= i

(* The thread is in an attempt that has not raised.                                     *)
Working(t) == pc[t] \in {"queueing", "dispatching", "last", "done"}

(* What the attempt has done so far, as the card will show it when the client has    *)
(* sent what is queued.                                                          *)
AsQueued(t) ==
  \A i \in 1..counter[t] :
    /\ Reg(t, i) \in Registers
    /\ Reads(call[t]) => AnswerIsTrue(t, i)
    /\ Writes(call[t]) /\ IsLast(t, i) => WriteIsTrue(t, i)

(* An attempt that has come this far has done what its counter says, and its retry is   *)
(* one of those allowed.                                                                *)
AttemptInv ==
  \A t \in Threads : Working(t) =>
    /\ AsQueued(t)
    /\ retryCount[t] \in 1..MAX_IPBUS_RETRIES
    /\ pc[t] = "done" => counter[t] = Len(call[t].list) /\ (counter[t] > 0 => queue = <<>>)
    /\ pc[t] = "last" => counter[t] = Len(call[t].list)

(* Whom the answers are for: the places of a list that is being queued, or nobody.    *)
PlacesInv ==
  \A k \in DOMAIN queue :
    \/ queue[k].place = 0
    \/ /\ lock # NoThread /\ Working(lock)
       /\ queue[k].place \in 1..counter[lock]
       /\ queue[k].reg = Reg(lock, queue[k].place)

(* The call has a list, and all its names are in the address table.                     *)
Known(t) == call[t].list # <<>> /\ \A i \in DOMAIN call[t].list : Reg(t, i) \in Registers

(* The client is empty between two attempts of an access whose names are known, and     *)
(* within an attempt whenever a dispatch was just due.                            *)
EmptyInv ==
  \A t \in Threads : Known(t) =>
    /\ pc[t] \in {"attempt", "gaveup"} /\ retryCount[t] > 0 => queue = <<>>
    /\ pc[t] = "gaveup" => retryCount[t] > 0
    /\ pc[t] = "queueing" /\ counter[t] > 0 /\ ~NeedsLast(call[t], counter[t]) => queue = <<>>
    /\ pc[t] = "done" => queue = <<>>

(* A thread without an access has queued nothing of one.                              *)
RestInv ==
  \A t \in Threads : pc[t] \notin Inside => counter[t] = 0 /\ retryCount[t] = 0

(* The inductive invariant of the accesses.                                             *)
DeviceInv == HwDeviceTypeOK /\ RestInv /\ AttemptInv /\ PlacesInv /\ EmptyInv

-----------------------------------------------------------------------------
(* The list of a call, and the registers and values in it.                         *)
LEMMA CallFacts ==
  ASSUME NEW c \in Calls
  PROVE  /\ c.op \in Operations /\ c.list \in Seq(Item)
         /\ Len(c.list) \in Nat /\ DOMAIN c.list = 1..Len(c.list)
         /\ \A i \in 1..Len(c.list) :
              c.list[i].reg \in Registers \cup Unknown /\ c.list[i].val \in Values
         /\ ~OfList(c) => Len(c.list) > 0
  <1>1. c.op \in Operations /\ c.list \in Seq(Item)
    BY DeviceAssumption
  <1>2. Len(c.list) \in Nat /\ DOMAIN c.list = 1..Len(c.list)
    BY <1>1
  <1>3. ASSUME NEW i \in 1..Len(c.list)
        PROVE  c.list[i].reg \in Registers \cup Unknown /\ c.list[i].val \in Values
    <2>1. c.list[i] \in Item
      BY <1>1, <1>3
    <2>2. QED BY <2>1 DEF Item
  <1>4. ~OfList(c) => Len(c.list) > 0
    <2>1. /\ c.op \in {"readReg", "writeReg"} => Len(c.list) = 1
          /\ c.op \in {"readBlock", "writeBlock"} => Len(c.list) > 0
      BY DeviceAssumption
    <2>2. ~OfList(c) => c.op \in {"readReg", "writeReg"} \/ c.op \in {"readBlock", "writeBlock"}
      BY <1>1 DEF OfList, Operations
    <2>3. QED BY <2>1, <2>2, <1>2
  <1>5. QED BY <1>1, <1>2, <1>3, <1>4

(* What one register of a list puts into the client: transactions of that place and  *)
(* register; no write if it is to be read, and else one write of its value.          *)
LEMMA TransactionFacts ==
  ASSUME NEW c \in Calls, NEW i \in 1..Len(c.list), c.list[i].reg \in Registers,
         NEW x, x = Transactions(c, i)
  PROVE  /\ x \in Seq(Transaction) /\ Len(x) \in Nat \ {0} /\ DOMAIN x = 1..Len(x)
         /\ \A k \in 1..Len(x) :
              x[k] \in Transaction /\ x[k].place = i /\ x[k].reg = c.list[i].reg
         /\ Reads(c) => Len(x) = 1 /\ ~x[1].write
         /\ Writes(c) => \E k \in 1..Len(x) :
              /\ x[k].write /\ x[k].val = c.list[i].val
              /\ \A m \in 1..Len(x) : m > k => ~x[m].write
  <1> DEFINE r == c.list[i].reg
             v == c.list[i].val
  <1>1. /\ r \in Registers /\ v \in Values /\ i \in Nat
        /\ v \in Nat /\ 0 \in Values
    <2>1. Values \subseteq Nat /\ 0 \in Values
      BY DeviceAssumption
    <2>2. v \in Values /\ Len(c.list) \in Nat
      BY CallFacts
    <2>3. i \in Nat
      BY <2>2
    <2>4. QED BY <2>1, <2>2, <2>3
  <1>2. Read(r, i) \in Transaction /\ Write(r, v, i) \in Transaction
    BY <1>1 DEF Read, Write, Transaction
  <1>3. CASE Reads(c)
    <2>1. x = <<Read(r, i)>>
      BY <1>3 DEF Transactions, Reads, Writes
    <2>2. /\ Len(x) = 1 /\ x \in Seq(Transaction) /\ DOMAIN x = 1..1
          /\ x[1] = Read(r, i)
      BY <2>1, <1>2
    <2>3. x[1].place = i /\ x[1].reg = r /\ ~x[1].write
      BY <2>2 DEF Read
    <2>4. QED BY <2>2, <2>3, <1>2, <1>3 DEF Writes
  <1>4. CASE Writes(c) /\ c.op = "writeReg" /\ r \notin WriteOnly
    <2>1. x = <<Read(r, i), Write(r, v, i), Read(r, i)>>
      BY <1>4 DEF Transactions, Writes
    <2>2. /\ Len(x) = 3 /\ x \in Seq(Transaction) /\ DOMAIN x = 1..3
          /\ x[1] = Read(r, i) /\ x[2] = Write(r, v, i) /\ x[3] = Read(r, i)
      BY <2>1, <1>2
    <2>3. \A k \in 1..3 : k = 1 \/ k = 2 \/ k = 3
      OBVIOUS
    <2>4. \A k \in 1..3 : x[k] \in Transaction /\ x[k].place = i /\ x[k].reg = r
      <3>1. x[1].place = i /\ x[1].reg = r /\ x[3].place = i /\ x[3].reg = r
        BY <2>2 DEF Read
      <3>2. x[2].place = i /\ x[2].reg = r
        BY <2>2 DEF Write
      <3>3. QED BY <3>1, <3>2, <2>2, <2>3, <1>2
    <2>5. /\ x[2].write /\ x[2].val = v
          /\ \A m \in 1..3 : m > 2 => ~x[m].write
      BY <2>2, <2>3 DEF Read, Write
    <2>6. QED BY <2>2, <2>4, <2>5, <1>4 DEF Writes
  <1>5. CASE Writes(c) /\ (c.op # "writeReg" \/ r \in WriteOnly)
    <2>1. x = <<Write(r, v, i)>>
      BY <1>5 DEF Transactions, Writes
    <2>2. /\ Len(x) = 1 /\ x \in Seq(Transaction) /\ DOMAIN x = 1..1
          /\ x[1] = Write(r, v, i)
      BY <2>1, <1>2
    <2>3. x[1].place = i /\ x[1].reg = r /\ x[1].write /\ x[1].val = v
      BY <2>2 DEF Write
    <2>4. \A k \in 1..1 : k = 1
      OBVIOUS
    <2>5. QED BY <2>2, <2>3, <2>4, <1>2, <1>5 DEF Writes
  <1>6. QED BY <1>3, <1>4, <1>5 DEF Writes

(* The types, as the proofs use them.                                            *)
LEMMA QueueFacts ==
  ASSUME HwDeviceTypeOK
  PROVE  /\ Len(queue) \in Nat /\ DOMAIN queue = 1..Len(queue)
         /\ \A k \in 1..Len(queue) :
              /\ queue[k] \in Transaction
              /\ queue[k].write \in BOOLEAN /\ queue[k].reg \in Registers
              /\ queue[k].val \in Values /\ queue[k].place \in Nat
         /\ queue = <<>> <=> Len(queue) = 0
  <1>1. Len(queue) \in Nat /\ DOMAIN queue = 1..Len(queue) /\ (queue = <<>> <=> Len(queue) = 0)
    BY DEF HwDeviceTypeOK
  <1>2. ASSUME NEW k \in 1..Len(queue) PROVE queue[k] \in Transaction
    BY <1>1 DEF HwDeviceTypeOK
  <1>3. QED BY <1>1, <1>2 DEF Transaction

(* Where a thread is, and that only one of them works. *)
LEMMA ThreadFacts ==
  ASSUME HwDeviceTypeOK, NEW t \in Threads
  PROVE  /\ pc[t] \in Places /\ call[t] \in Calls /\ retryCount[t] \in Nat
         /\ counter[t] \in Nat /\ counter[t] <= Len(call[t].list)
         /\ Len(call[t].list) \in Nat /\ DOMAIN call[t].list = 1..Len(call[t].list)
         /\ got[t] \in [1..Len(call[t].list) -> Values \cup {NoValue}]
         /\ pc[t] \in Inside <=> lock = t
         /\ Working(t) => lock = t
         /\ \A u \in Threads : Working(t) /\ Working(u) => u = t
  <1>1. call[t] \in Calls
    BY DEF HwDeviceTypeOK
  <1>2. Len(call[t].list) \in Nat /\ DOMAIN call[t].list = 1..Len(call[t].list)
    BY <1>1, CallFacts
  <1>3. \A u \in Threads : Working(u) => lock = u
    BY DEF HwDeviceTypeOK, Working, Inside, Places
  <1>4. QED BY <1>1, <1>2, <1>3 DEF HwDeviceTypeOK

-----------------------------------------------------------------------------
(* What the thread of a step finds: it holds the lock and its attempt is counted.     *)
LEMMA WorkerFacts ==
  ASSUME HwDeviceTypeOK, AttemptInv, NEW t \in Threads, Working(t)
  PROVE  lock = t /\ retryCount[t] \in 1..MAX_IPBUS_RETRIES /\ MAX_IPBUS_RETRIES \in Nat
  BY ThreadFacts, DeviceAssumption DEF AttemptInv

(* The answers of a fresh attempt.                                                 *)
LEMMA BlankFacts ==
  ASSUME NEW c \in Calls
  PROVE  Blank(c) \in [1..Len(c.list) -> Values \cup {NoValue}]
  BY CallFacts DEF Blank

(* Where a thread may go without a change of the lock.                              *)
LEMMA GotoKeepsLock ==
  ASSUME HwDeviceTypeOK, NEW t \in Threads, lock = t, NEW p \in Inside, Goto(t, p), lock' = lock
  PROVE  pc' \in [Threads -> Places] /\ \A u \in Threads : pc'[u] \in Inside <=> lock' = u
  BY DEF HwDeviceTypeOK, Goto, Inside

(* The types of what belongs to the threads, from what a step does to one of them.     *)
LEMMA TypeOfThreads ==
  ASSUME HwDeviceTypeOK, NEW t \in Threads,
         call' \in [Threads -> Calls], counter' \in [Threads -> Nat], DOMAIN got' = Threads,
         \A u \in Threads \ {t} :
           call'[u] = call[u] /\ counter'[u] = counter[u] /\ got'[u] = got[u],
         counter'[t] \in 0..Len(call'[t].list),
         got'[t] \in [1..Len(call'[t].list) -> Values \cup {NoValue}],
         \A u \in Threads : pc'[u] \in Inside <=> lock' = u
  PROVE  \A u \in Threads :
           /\ counter'[u] \in 0..Len(call'[u].list)
           /\ got'[u] \in [DOMAIN call'[u].list -> Values \cup {NoValue}]
           /\ pc'[u] \in Inside <=> lock' = u
  <1>1. ASSUME NEW u \in Threads
        PROVE  /\ counter'[u] \in 0..Len(call'[u].list)
               /\ got'[u] \in [1..Len(call'[u].list) -> Values \cup {NoValue}]
               /\ DOMAIN call'[u].list = 1..Len(call'[u].list)
    <2>1. DOMAIN call'[u].list = 1..Len(call'[u].list)
      BY CallFacts
    <2>2. CASE u = t
      BY <2>1, <2>2
    <2>3. CASE u # t
      <3>1. counter[u] \in 0..Len(call[u].list) /\ got[u] \in [DOMAIN call[u].list -> Values \cup {NoValue}]
        BY DEF HwDeviceTypeOK
      <3>2. QED BY <3>1, <2>1, <2>3
    <2>4. QED BY <2>2, <2>3
  <1>2. QED BY <1>1

(* The call of a thread that makes none. *)
LEMMA AnyCallFacts == AnyCall \in Calls
  BY DeviceAssumption DEF AnyCall

(* Every step keeps the types. *)
LEMMA NextTypeOK ==
  ASSUME HwDeviceTypeOK, AttemptInv, RestInv, [HwDeviceNext]_deviceVars
  PROVE  HwDeviceTypeOK'
  <1>1. ASSUME NEW t \in Threads, Call(t) PROVE HwDeviceTypeOK'
    <2>1. regs' \in [Registers -> Values] /\ queue' \in Seq(Transaction)
      BY <1>1 DEF HwDeviceTypeOK, Call
    <2>2. pc' \in [Threads -> Places] /\ \A u \in Threads : pc'[u] \in Inside <=> lock' = u
      BY <1>1 DEF HwDeviceTypeOK, Call, Goto, Inside, Places
    <2>3. /\ lock' \in Threads \cup {NoThread} /\ call' \in [Threads -> Calls]
          /\ retryCount' \in [Threads -> 0..(MAX_IPBUS_RETRIES + 1)]
          /\ made' \in [Threads -> 0..MaxCalls]
      BY <1>1, DeviceAssumption DEF HwDeviceTypeOK, Call
    <2>4. /\ counter' \in [Threads -> Nat] /\ DOMAIN got' = Threads
          /\ \A u \in Threads \ {t} :
               call'[u] = call[u] /\ counter'[u] = counter[u] /\ got'[u] = got[u]
      BY <1>1, ThreadFacts DEF HwDeviceTypeOK, Call
    <2>5. /\ counter'[t] \in 0..Len(call'[t].list)
          /\ got'[t] \in [1..Len(call'[t].list) -> Values \cup {NoValue}]
      <3>1. PICK c \in Calls : /\ call' = [call EXCEPT ![t] = c]
                               /\ got' = [got EXCEPT ![t] = Blank(c)]
        BY <1>1 DEF Call
      <3>2. counter'[t] = 0
        BY <1>1, ThreadFacts DEF Call, RestInv, Inside
      <3>3. QED BY <3>1, <3>2, BlankFacts, CallFacts DEF HwDeviceTypeOK
    <2>6. QED BY <2>1, <2>2, <2>3, <2>4, <2>5, TypeOfThreads DEF HwDeviceTypeOK
  <1>2. ASSUME NEW t \in Threads, TakeLock(t) PROVE HwDeviceTypeOK'
    <2>1. regs' \in [Registers -> Values] /\ queue' \in Seq(Transaction)
      BY <1>2 DEF HwDeviceTypeOK, TakeLock
    <2>2. pc' \in [Threads -> Places] /\ \A u \in Threads : pc'[u] \in Inside <=> lock' = u
      BY <1>2, DeviceAssumption DEF HwDeviceTypeOK, TakeLock, Goto, Inside, Places
    <2>3. /\ lock' \in Threads \cup {NoThread} /\ call' \in [Threads -> Calls]
          /\ retryCount' \in [Threads -> 0..(MAX_IPBUS_RETRIES + 1)]
          /\ made' \in [Threads -> 0..MaxCalls]
      BY <1>2 DEF HwDeviceTypeOK, TakeLock
    <2>4. /\ counter' \in [Threads -> Nat] /\ DOMAIN got' = Threads
          /\ \A u \in Threads \ {t} :
               call'[u] = call[u] /\ counter'[u] = counter[u] /\ got'[u] = got[u]
      BY <1>2, ThreadFacts DEF HwDeviceTypeOK, TakeLock
    <2>5. /\ counter'[t] \in 0..Len(call'[t].list)
          /\ got'[t] \in [1..Len(call'[t].list) -> Values \cup {NoValue}]
      BY <1>2, ThreadFacts DEF TakeLock
    <2>6. QED BY <2>1, <2>2, <2>3, <2>4, <2>5, TypeOfThreads DEF HwDeviceTypeOK
  <1>3. ASSUME NEW t \in Threads, Attempt(t) PROVE HwDeviceTypeOK'
    <2>1. regs' \in [Registers -> Values] /\ queue' \in Seq(Transaction)
      BY <1>3 DEF HwDeviceTypeOK, Attempt
    <2>2. pc' \in [Threads -> Places] /\ \A u \in Threads : pc'[u] \in Inside <=> lock' = u
      <3>1. lock = t /\ lock' = lock /\ Goto(t, "queueing") /\ "queueing" \in Inside
        BY <1>3, ThreadFacts DEF Attempt, Inside, Places
      <3>2. QED BY <3>1, GotoKeepsLock
    <2>3. /\ lock' \in Threads \cup {NoThread} /\ call' \in [Threads -> Calls]
          /\ retryCount' \in [Threads -> 0..(MAX_IPBUS_RETRIES + 1)]
          /\ made' \in [Threads -> 0..MaxCalls]
      BY <1>3, DeviceAssumption DEF HwDeviceTypeOK, Attempt
    <2>4. /\ counter' \in [Threads -> Nat] /\ DOMAIN got' = Threads
          /\ \A u \in Threads \ {t} :
               call'[u] = call[u] /\ counter'[u] = counter[u] /\ got'[u] = got[u]
      BY <1>3, ThreadFacts DEF HwDeviceTypeOK, Attempt
    <2>5. /\ counter'[t] \in 0..Len(call'[t].list)
          /\ got'[t] \in [1..Len(call'[t].list) -> Values \cup {NoValue}]
      BY <1>3, BlankFacts, ThreadFacts DEF HwDeviceTypeOK, Attempt
    <2>6. QED BY <2>1, <2>2, <2>3, <2>4, <2>5, TypeOfThreads DEF HwDeviceTypeOK
  <1>4. ASSUME NEW t \in Threads, GiveUp(t) PROVE HwDeviceTypeOK'
    <2>1. regs' \in [Registers -> Values] /\ queue' \in Seq(Transaction)
      BY <1>4 DEF HwDeviceTypeOK, GiveUp
    <2>2. pc' \in [Threads -> Places] /\ \A u \in Threads : pc'[u] \in Inside <=> lock' = u
      <3>1. lock = t /\ lock' = lock /\ Goto(t, "gaveup") /\ "gaveup" \in Inside
        BY <1>4, ThreadFacts DEF GiveUp, Inside, Places
      <3>2. QED BY <3>1, GotoKeepsLock
    <2>3. /\ lock' \in Threads \cup {NoThread} /\ call' \in [Threads -> Calls]
          /\ retryCount' \in [Threads -> 0..(MAX_IPBUS_RETRIES + 1)]
          /\ made' \in [Threads -> 0..MaxCalls]
      BY <1>4 DEF HwDeviceTypeOK, GiveUp
    <2>4. /\ counter' \in [Threads -> Nat] /\ DOMAIN got' = Threads
          /\ \A u \in Threads \ {t} :
               call'[u] = call[u] /\ counter'[u] = counter[u] /\ got'[u] = got[u]
      BY <1>4, ThreadFacts DEF HwDeviceTypeOK, GiveUp
    <2>5. /\ counter'[t] \in 0..Len(call'[t].list)
          /\ got'[t] \in [1..Len(call'[t].list) -> Values \cup {NoValue}]
      BY <1>4, BlankFacts, ThreadFacts DEF HwDeviceTypeOK, GiveUp
    <2>6. QED BY <2>1, <2>2, <2>3, <2>4, <2>5, TypeOfThreads DEF HwDeviceTypeOK
  <1>5. ASSUME NEW t \in Threads, QueueNext(t) PROVE HwDeviceTypeOK'
    <2>1. regs' \in [Registers -> Values] /\ queue' \in Seq(Transaction)
      <3>1. counter[t] + 1 \in 1..Len(call[t].list) /\ call[t] \in Calls
        BY <1>5, ThreadFacts DEF QueueNext
      <3>2. Transactions(call[t], counter[t] + 1) \in Seq(Transaction)
        BY <3>1, <1>5, TransactionFacts DEF QueueNext
      <3>3. QED BY <3>2, <1>5 DEF QueueNext, HwDeviceTypeOK
    <2>2. pc' \in [Threads -> Places] /\ \A u \in Threads : pc'[u] \in Inside <=> lock' = u
      <3>1. lock = t /\ lock' = lock /\ "dispatching" \in Inside
        BY <1>5, ThreadFacts DEF QueueNext, Inside, Places
      <3>2. CASE Goto(t, "dispatching")
        BY <3>1, <3>2, GotoKeepsLock
      <3>3. CASE UNCHANGED pc
        BY <3>1, <3>3 DEF HwDeviceTypeOK
      <3>4. QED BY <1>5, <3>2, <3>3 DEF QueueNext
    <2>3. /\ lock' \in Threads \cup {NoThread} /\ call' \in [Threads -> Calls]
          /\ retryCount' \in [Threads -> 0..(MAX_IPBUS_RETRIES + 1)]
          /\ made' \in [Threads -> 0..MaxCalls]
      BY <1>5 DEF HwDeviceTypeOK, QueueNext
    <2>4. /\ counter' \in [Threads -> Nat] /\ DOMAIN got' = Threads
          /\ \A u \in Threads \ {t} :
               call'[u] = call[u] /\ counter'[u] = counter[u] /\ got'[u] = got[u]
      BY <1>5, ThreadFacts DEF HwDeviceTypeOK, QueueNext
    <2>5. /\ counter'[t] \in 0..Len(call'[t].list)
          /\ got'[t] \in [1..Len(call'[t].list) -> Values \cup {NoValue}]
      BY <1>5, ThreadFacts DEF HwDeviceTypeOK, QueueNext
    <2>6. QED BY <2>1, <2>2, <2>3, <2>4, <2>5, TypeOfThreads DEF HwDeviceTypeOK
  <1>6. ASSUME NEW t \in Threads, NameIsUnknown(t) PROVE HwDeviceTypeOK'
    <2>1. regs' \in [Registers -> Values] /\ queue' \in Seq(Transaction)
      <3>1. /\ Len(queue) \in Nat /\ queue' = [k \in 1..Len(queue) |-> [queue[k] EXCEPT !.place = 0]]
            /\ regs' = regs
        BY <1>6, QueueFacts DEF NameIsUnknown
      <3>2. ASSUME NEW k \in 1..Len(queue) PROVE [queue[k] EXCEPT !.place = 0] \in Transaction
        BY QueueFacts DEF Transaction
      <3>3. queue' \in [1..Len(queue) -> Transaction]
        BY <3>1, <3>2
      <3>4. queue' \in Seq(Transaction)
        BY <3>1, <3>3, SeqDef
      <3>5. QED BY <3>1, <3>4 DEF HwDeviceTypeOK
    <2>2. pc' \in [Threads -> Places] /\ \A u \in Threads : pc'[u] \in Inside <=> lock' = u
      <3>1. lock = t /\ lock' = lock /\ Goto(t, "attempt") /\ "attempt" \in Inside
        BY <1>6, ThreadFacts DEF NameIsUnknown, Inside, Places
      <3>2. QED BY <3>1, GotoKeepsLock
    <2>3. /\ lock' \in Threads \cup {NoThread} /\ call' \in [Threads -> Calls]
          /\ retryCount' \in [Threads -> 0..(MAX_IPBUS_RETRIES + 1)]
          /\ made' \in [Threads -> 0..MaxCalls]
      BY <1>6 DEF HwDeviceTypeOK, NameIsUnknown
    <2>4. /\ counter' \in [Threads -> Nat] /\ DOMAIN got' = Threads
          /\ \A u \in Threads \ {t} :
               call'[u] = call[u] /\ counter'[u] = counter[u] /\ got'[u] = got[u]
      BY <1>6, ThreadFacts DEF HwDeviceTypeOK, NameIsUnknown
    <2>5. /\ counter'[t] \in 0..Len(call'[t].list)
          /\ got'[t] \in [1..Len(call'[t].list) -> Values \cup {NoValue}]
      BY <1>6, ThreadFacts DEF NameIsUnknown
    <2>6. QED BY <2>1, <2>2, <2>3, <2>4, <2>5, TypeOfThreads DEF HwDeviceTypeOK
  <1>7. ASSUME NEW t \in Threads, ListEnds(t) PROVE HwDeviceTypeOK'
    <2>1. regs' \in [Registers -> Values] /\ queue' \in Seq(Transaction)
      BY <1>7 DEF HwDeviceTypeOK, ListEnds
    <2>2. pc' \in [Threads -> Places] /\ \A u \in Threads : pc'[u] \in Inside <=> lock' = u
      <3>1. PICK p \in {"last", "done"} : Goto(t, p)
        BY <1>7 DEF ListEnds
      <3>2. lock = t /\ lock' = lock /\ p \in Inside
        BY <1>7, ThreadFacts DEF ListEnds, Inside, Places
      <3>3. QED BY <3>1, <3>2, GotoKeepsLock
    <2>3. /\ lock' \in Threads \cup {NoThread} /\ call' \in [Threads -> Calls]
          /\ retryCount' \in [Threads -> 0..(MAX_IPBUS_RETRIES + 1)]
          /\ made' \in [Threads -> 0..MaxCalls]
      BY <1>7 DEF HwDeviceTypeOK, ListEnds
    <2>4. /\ counter' \in [Threads -> Nat] /\ DOMAIN got' = Threads
          /\ \A u \in Threads \ {t} :
               call'[u] = call[u] /\ counter'[u] = counter[u] /\ got'[u] = got[u]
      BY <1>7, ThreadFacts DEF HwDeviceTypeOK, ListEnds
    <2>5. /\ counter'[t] \in 0..Len(call'[t].list)
          /\ got'[t] \in [1..Len(call'[t].list) -> Values \cup {NoValue}]
      BY <1>7, ThreadFacts DEF ListEnds
    <2>6. QED BY <2>1, <2>2, <2>3, <2>4, <2>5, TypeOfThreads DEF HwDeviceTypeOK
  <1>8. ASSUME NEW t \in Threads, Sends(t) PROVE HwDeviceTypeOK'
    <2>1. regs' \in [Registers -> Values] /\ queue' \in Seq(Transaction)
      <3>1. queue # <<>> /\ queue \in Seq(Transaction)
        BY <1>8 DEF Sends, HwDeviceTypeOK
      <3>2. Head(queue) \in Transaction /\ Tail(queue) \in Seq(Transaction)
        BY <3>1, HeadTailProperties
      <3>3. Stored(Head(queue).reg, Head(queue).val) \in Values
        BY <3>2, DeviceAssumption DEF Stored, Transaction
      <3>4. QED BY <3>2, <3>3, <1>8 DEF Sends, HwDeviceTypeOK
    <2>2. pc' \in [Threads -> Places] /\ \A u \in Threads : pc'[u] \in Inside <=> lock' = u
      BY <1>8 DEF HwDeviceTypeOK, Sends
    <2>3. /\ lock' \in Threads \cup {NoThread} /\ call' \in [Threads -> Calls]
          /\ retryCount' \in [Threads -> 0..(MAX_IPBUS_RETRIES + 1)]
          /\ made' \in [Threads -> 0..MaxCalls]
      BY <1>8 DEF HwDeviceTypeOK, Sends
    <2>4. /\ counter' \in [Threads -> Nat] /\ DOMAIN got' = Threads
          /\ \A u \in Threads \ {t} :
               call'[u] = call[u] /\ counter'[u] = counter[u] /\ got'[u] = got[u]
      BY <1>8, ThreadFacts DEF HwDeviceTypeOK, Sends
    <2>5. /\ counter'[t] \in 0..Len(call'[t].list)
          /\ got'[t] \in [1..Len(call'[t].list) -> Values \cup {NoValue}]
      <3>1. CASE got' = got /\ counter' = counter /\ call' = call
        BY <3>1, ThreadFacts DEF HwDeviceTypeOK
      <3>2. CASE got' = [got EXCEPT ![t] = Answered(@, Head(queue).place, regs[Head(queue).reg])]
        <4>1. regs[Head(queue).reg] \in Values
          BY <1>8, QueueFacts DEF Sends, HwDeviceTypeOK
        <4>2. Answered(got[t], Head(queue).place, regs[Head(queue).reg])
                \in [1..Len(call[t].list) -> Values \cup {NoValue}]
          BY <4>1, ThreadFacts DEF Answered
        <4>3. counter' = counter /\ call' = call
          BY <1>8 DEF Sends
        <4>4. QED BY <3>2, <4>2, <4>3, ThreadFacts DEF HwDeviceTypeOK
      <3>3. QED BY <1>8, <3>1, <3>2 DEF Sends
    <2>6. QED BY <2>1, <2>2, <2>3, <2>4, <2>5, TypeOfThreads DEF HwDeviceTypeOK
  <1>9. ASSUME NEW t \in Threads, Dispatched(t) PROVE HwDeviceTypeOK'
    <2>1. regs' \in [Registers -> Values] /\ queue' \in Seq(Transaction)
      BY <1>9 DEF HwDeviceTypeOK, Dispatched
    <2>2. pc' \in [Threads -> Places] /\ \A u \in Threads : pc'[u] \in Inside <=> lock' = u
      <3>1. PICK p \in {"queueing", "attempt", "done"} : Goto(t, p)
        BY <1>9 DEF Dispatched
      <3>2. lock = t /\ lock' = lock /\ p \in Inside
        BY <1>9, ThreadFacts DEF Dispatched, Inside, Places
      <3>3. QED BY <3>1, <3>2, GotoKeepsLock
    <2>3. /\ lock' \in Threads \cup {NoThread} /\ call' \in [Threads -> Calls]
          /\ retryCount' \in [Threads -> 0..(MAX_IPBUS_RETRIES + 1)]
          /\ made' \in [Threads -> 0..MaxCalls]
      BY <1>9 DEF HwDeviceTypeOK, Dispatched
    <2>4. /\ counter' \in [Threads -> Nat] /\ DOMAIN got' = Threads
          /\ \A u \in Threads \ {t} :
               call'[u] = call[u] /\ counter'[u] = counter[u] /\ got'[u] = got[u]
      BY <1>9, ThreadFacts DEF HwDeviceTypeOK, Dispatched
    <2>5. /\ counter'[t] \in 0..Len(call'[t].list)
          /\ got'[t] \in [1..Len(call'[t].list) -> Values \cup {NoValue}]
      BY <1>9, ThreadFacts DEF Dispatched
    <2>6. QED BY <2>1, <2>2, <2>3, <2>4, <2>5, TypeOfThreads DEF HwDeviceTypeOK
  <1>10. ASSUME NEW t \in Threads, DispatchFails(t) PROVE HwDeviceTypeOK'
    <2>1. regs' \in [Registers -> Values] /\ queue' \in Seq(Transaction)
      BY <1>10 DEF HwDeviceTypeOK, DispatchFails
    <2>2. pc' \in [Threads -> Places] /\ \A u \in Threads : pc'[u] \in Inside <=> lock' = u
      <3>1. lock = t /\ lock' = lock /\ Goto(t, "attempt") /\ "attempt" \in Inside
        BY <1>10, ThreadFacts DEF DispatchFails, Inside, Places
      <3>2. QED BY <3>1, GotoKeepsLock
    <2>3. /\ lock' \in Threads \cup {NoThread} /\ call' \in [Threads -> Calls]
          /\ retryCount' \in [Threads -> 0..(MAX_IPBUS_RETRIES + 1)]
          /\ made' \in [Threads -> 0..MaxCalls]
      <3>1. retryCount[t] + 1 \in 0..(MAX_IPBUS_RETRIES + 1)
        BY <1>10, WorkerFacts DEF DispatchFails, Working
      <3>2. QED BY <3>1, <1>10 DEF HwDeviceTypeOK, DispatchFails
    <2>4. /\ counter' \in [Threads -> Nat] /\ DOMAIN got' = Threads
          /\ \A u \in Threads \ {t} :
               call'[u] = call[u] /\ counter'[u] = counter[u] /\ got'[u] = got[u]
      BY <1>10, ThreadFacts DEF HwDeviceTypeOK, DispatchFails
    <2>5. /\ counter'[t] \in 0..Len(call'[t].list)
          /\ got'[t] \in [1..Len(call'[t].list) -> Values \cup {NoValue}]
      BY <1>10, ThreadFacts DEF DispatchFails
    <2>6. QED BY <2>1, <2>2, <2>3, <2>4, <2>5, TypeOfThreads DEF HwDeviceTypeOK
  <1>11. ASSUME NEW t \in Threads, Return(t) PROVE HwDeviceTypeOK'
    <2>1. regs' \in [Registers -> Values] /\ queue' \in Seq(Transaction)
      BY <1>11 DEF HwDeviceTypeOK, Return
    <2>2. pc' \in [Threads -> Places] /\ \A u \in Threads : pc'[u] \in Inside <=> lock' = u
      BY <1>11, DeviceAssumption DEF HwDeviceTypeOK, Return, Goto, Inside, Places
    <2>3. /\ lock' \in Threads \cup {NoThread} /\ call' \in [Threads -> Calls]
          /\ retryCount' \in [Threads -> 0..(MAX_IPBUS_RETRIES + 1)]
          /\ made' \in [Threads -> 0..MaxCalls]
      BY <1>11, AnyCallFacts, DeviceAssumption DEF HwDeviceTypeOK, Return
    <2>4. /\ counter' \in [Threads -> Nat] /\ DOMAIN got' = Threads
          /\ \A u \in Threads \ {t} :
               call'[u] = call[u] /\ counter'[u] = counter[u] /\ got'[u] = got[u]
      BY <1>11, ThreadFacts DEF HwDeviceTypeOK, Return
    <2>5. /\ counter'[t] \in 0..Len(call'[t].list)
          /\ got'[t] \in [1..Len(call'[t].list) -> Values \cup {NoValue}]
      BY <1>11, BlankFacts, AnyCallFacts DEF HwDeviceTypeOK, Return
    <2>6. QED BY <2>1, <2>2, <2>3, <2>4, <2>5, TypeOfThreads DEF HwDeviceTypeOK
  <1>12. CASE UNCHANGED deviceVars
    BY <1>12 DEF HwDeviceTypeOK, deviceVars
  <1>13. QED
    BY <1>1, <1>2, <1>3, <1>4, <1>5, <1>6, <1>7, <1>8, <1>9, <1>10, <1>11, <1>12
    DEF HwDeviceNext, Proceeds

(* A thread that leaves or takes the lock has no attempt to remember.                  *)
LEMMA NextRestInv ==
  ASSUME HwDeviceTypeOK, RestInv, [HwDeviceNext]_deviceVars
  PROVE  RestInv'
  <1>1. ASSUME NEW t \in Threads, Call(t) PROVE RestInv'
    BY <1>1 DEF HwDeviceTypeOK, RestInv, Call, Goto, Inside, Places
  <1>2. ASSUME NEW t \in Threads, TakeLock(t) PROVE RestInv'
    BY <1>2 DEF HwDeviceTypeOK, RestInv, TakeLock, Goto, Inside, Places
  <1>3. ASSUME NEW t \in Threads, Attempt(t) PROVE RestInv'
    BY <1>3 DEF HwDeviceTypeOK, RestInv, Attempt, Goto, Inside, Places
  <1>4. ASSUME NEW t \in Threads, GiveUp(t) PROVE RestInv'
    BY <1>4 DEF HwDeviceTypeOK, RestInv, GiveUp, Goto, Inside, Places
  <1>5. ASSUME NEW t \in Threads, QueueNext(t) PROVE RestInv'
    BY <1>5 DEF HwDeviceTypeOK, RestInv, QueueNext, Goto, Inside, Places
  <1>6. ASSUME NEW t \in Threads, NameIsUnknown(t) PROVE RestInv'
    BY <1>6 DEF HwDeviceTypeOK, RestInv, NameIsUnknown, Goto, Inside, Places
  <1>7. ASSUME NEW t \in Threads, ListEnds(t) PROVE RestInv'
    BY <1>7 DEF HwDeviceTypeOK, RestInv, ListEnds, Goto, Inside, Places
  <1>8. ASSUME NEW t \in Threads, Sends(t) PROVE RestInv'
    BY <1>8 DEF HwDeviceTypeOK, RestInv, Sends, Goto, Inside, Places
  <1>9. ASSUME NEW t \in Threads, Dispatched(t) PROVE RestInv'
    BY <1>9 DEF HwDeviceTypeOK, RestInv, Dispatched, Goto, Inside, Places
  <1>10. ASSUME NEW t \in Threads, DispatchFails(t) PROVE RestInv'
    BY <1>10 DEF HwDeviceTypeOK, RestInv, DispatchFails, Goto, Inside, Places
  <1>11. ASSUME NEW t \in Threads, Return(t) PROVE RestInv'
    BY <1>11 DEF HwDeviceTypeOK, RestInv, Return, Goto, Inside, Places
  <1>12. CASE UNCHANGED deviceVars
    BY <1>12 DEF RestInv, deviceVars
  <1>13. QED
    BY <1>1, <1>2, <1>3, <1>4, <1>5, <1>6, <1>7, <1>8, <1>9, <1>10, <1>11, <1>12
    DEF HwDeviceNext, Proceeds

-----------------------------------------------------------------------------
(* Nobody's answers wait while no list is being queued. *)
LEMMA NoPlaces ==
  ASSUME HwDeviceTypeOK, PlacesInv, lock = NoThread \/ ~Working(lock),
         NEW k \in 1..Len(queue)
  PROVE  queue[k].place = 0
  BY QueueFacts DEF PlacesInv

(* An answer that is waited for still is, as long as its list goes on. *)
LEMMA PlacesStay ==
  ASSUME HwDeviceTypeOK, PlacesInv, NEW k \in 1..Len(queue), queue[k].place # 0,
         lock' = lock, call'[lock] = call[lock],
         counter'[lock] \in Nat, counter'[lock] >= counter[lock], Working(lock)'
  PROVE  /\ lock' # NoThread /\ queue[k].place \in 1..counter'[lock']
         /\ queue[k].reg = call'[lock'].list[queue[k].place].reg
  BY QueueFacts, ThreadFacts DEF PlacesInv, Reg, HwDeviceTypeOK

(* What the head of the client's queue is, and what is left when it is sent. *)
LEMMA TailFacts ==
  ASSUME HwDeviceTypeOK, queue # <<>>, queue' = Tail(queue)
  PROVE  /\ Len(queue) \in Nat \ {0} /\ Head(queue) = queue[1]
         /\ Len(queue') = Len(queue) - 1 /\ DOMAIN queue' = 1..(Len(queue) - 1)
         /\ \A k \in 1..(Len(queue) - 1) : queue'[k] = queue[k + 1]
  <1>1. queue \in Seq(Transaction)
    BY DEF HwDeviceTypeOK
  <1>2. QED BY <1>1, HeadTailProperties

(* What QueueNext adds to the client. *)
LEMMA QueuedFacts ==
  ASSUME HwDeviceTypeOK, NEW t \in Threads, QueueNext(t),
         NEW n, n = counter[t] + 1, NEW x, x = Transactions(call[t], n)
  PROVE  /\ n \in 1..Len(call[t].list) /\ Reg(t, n) \in Registers /\ call[t] \in Calls
         /\ Len(x) \in Nat \ {0}
         /\ Len(queue') = Len(queue) + Len(x) /\ DOMAIN queue' = 1..(Len(queue) + Len(x))
         /\ \A k \in 1..Len(queue) : queue'[k] = queue[k]
         /\ \A k \in 1..Len(x) : queue'[Len(queue) + k] = x[k]
         /\ \A k \in (Len(queue) + 1)..(Len(queue) + Len(x)) :
              queue'[k] = x[k - Len(queue)] /\ k - Len(queue) \in 1..Len(x)
  <1>1. n \in 1..Len(call[t].list) /\ Reg(t, n) \in Registers /\ call[t] \in Calls
    BY ThreadFacts DEF QueueNext, Reg
  <1>2. x \in Seq(Transaction) /\ Len(x) \in Nat \ {0} /\ queue \in Seq(Transaction)
        /\ Len(queue) \in Nat
    BY <1>1, TransactionFacts DEF Reg, HwDeviceTypeOK
  <1>3. queue' = queue \o x
    BY DEF QueueNext
  <1>4. queue' \in Seq(Transaction) /\ Len(queue') = Len(queue) + Len(x)
        /\ \A k \in 1..(Len(queue) + Len(x)) :
             queue'[k] = IF k <= Len(queue) THEN queue[k] ELSE x[k - Len(queue)]
    BY <1>2, <1>3, ConcatProperties
  <1>5. DOMAIN queue' = 1..(Len(queue) + Len(x))
    BY <1>4
  <1>6. \A k \in 1..Len(queue) : k \in 1..(Len(queue) + Len(x)) /\ k <= Len(queue)
    BY <1>2
  <1>7. \A k \in 1..Len(x) : /\ Len(queue) + k \in 1..(Len(queue) + Len(x))
                             /\ ~(Len(queue) + k <= Len(queue))
                             /\ Len(queue) + k - Len(queue) = k
    BY <1>2
  <1>8. \A k \in (Len(queue) + 1)..(Len(queue) + Len(x)) :
          /\ k \in 1..(Len(queue) + Len(x)) /\ ~(k <= Len(queue))
          /\ k - Len(queue) \in 1..Len(x)
    BY <1>2
  <1>9. \A k \in 1..Len(x) : queue'[Len(queue) + k] = x[k]
    BY <1>4, <1>7
  <1>10. QED BY <1>1, <1>2, <1>4, <1>5, <1>6, <1>8, <1>9

(* Every step keeps the answers to the list that waits for them. *)
LEMMA NextPlacesInv ==
  ASSUME HwDeviceTypeOK, AttemptInv, PlacesInv, HwDeviceTypeOK', [HwDeviceNext]_deviceVars
  PROVE  PlacesInv'
  <1>1. ASSUME NEW t \in Threads, Call(t) PROVE PlacesInv'
    <2>1. queue' = queue /\ lock' = lock /\ counter' = counter /\ lock # t
      BY <1>1, ThreadFacts DEF Call, Inside
    <2>2. ASSUME NEW k \in 1..Len(queue), queue[k].place # 0
          PROVE  call'[lock] = call[lock] /\ counter[lock] \in Nat /\ Working(lock)'
      <3>1. lock \in Threads /\ Working(lock)
        BY <2>2, QueueFacts DEF PlacesInv, HwDeviceTypeOK
      <3>2. QED BY <1>1, <2>1, <3>1 DEF Call, Goto, Working, HwDeviceTypeOK
    <2>3. QED BY <2>1, <2>2, QueueFacts, PlacesStay DEF PlacesInv, Reg
  <1>2. ASSUME NEW t \in Threads, TakeLock(t) PROVE PlacesInv'
    BY <1>2, NoPlaces, QueueFacts DEF TakeLock, PlacesInv
  <1>3. ASSUME NEW t \in Threads, Attempt(t) PROVE PlacesInv'
    <2>1. lock = t /\ ~Working(t) /\ queue' = queue
      BY <1>3, ThreadFacts DEF Attempt, Inside, Places, Working
    <2>2. QED BY <2>1, NoPlaces, QueueFacts DEF PlacesInv
  <1>4. ASSUME NEW t \in Threads, GiveUp(t) PROVE PlacesInv'
    <2>1. lock = t /\ ~Working(t) /\ queue' = queue
      BY <1>4, ThreadFacts DEF GiveUp, Inside, Places, Working
    <2>2. QED BY <2>1, NoPlaces, QueueFacts DEF PlacesInv
  <1>5. ASSUME NEW t \in Threads, QueueNext(t) PROVE PlacesInv'
    <2> DEFINE n == counter[t] + 1
               x == Transactions(call[t], n)
    <2>1. /\ lock = t /\ lock' = t /\ call' = call /\ counter'[t] = n
          /\ Working(t)' /\ t # NoThread /\ counter[t] \in Nat
      BY <1>5, ThreadFacts, DeviceAssumption
      DEF QueueNext, Goto, Inside, Places, Working, HwDeviceTypeOK
    <2>2. /\ n \in 1..Len(call[t].list)
          /\ \A k \in 1..Len(x) : x[k].place = n /\ x[k].reg = Reg(t, n)
      BY <1>5, QueuedFacts, TransactionFacts DEF Reg
    <2>3. \A k \in (Len(queue) + 1)..(Len(queue) + Len(x)) :
            queue'[k] = x[k - Len(queue)] /\ k - Len(queue) \in 1..Len(x)
      BY <1>5, QueuedFacts
    <2>4. ASSUME NEW k \in 1..Len(queue)
          PROVE  \/ queue'[k].place = 0
                 \/ /\ queue'[k].place \in 1..counter'[t]
                    /\ queue'[k].reg = call'[t].list[queue'[k].place].reg
      <3>1. queue'[k] = queue[k]
        BY <1>5, QueuedFacts
      <3>2. QED BY <2>1, <3>1, PlacesStay
    <2>5. ASSUME NEW k \in (Len(queue) + 1)..(Len(queue) + Len(x))
          PROVE  /\ queue'[k].place \in 1..counter'[t]
                 /\ queue'[k].reg = call'[t].list[queue'[k].place].reg
      <3> HIDE DEF x, n
      <3>1. queue'[k].place = n /\ queue'[k].reg = Reg(t, n)
        BY <2>2, <2>3
      <3>2. QED BY <2>1, <2>2, <3>1 DEF Reg
    <2>6. Len(queue) \in Nat /\ Len(x) \in Nat /\ DOMAIN queue' = 1..(Len(queue) + Len(x))
      BY <1>5, QueuedFacts, QueueFacts
    <2> HIDE DEF x, n
    <2>7. QED BY <2>1, <2>4, <2>5, <2>6 DEF PlacesInv, Reg
  <1>6. ASSUME NEW t \in Threads, NameIsUnknown(t) PROVE PlacesInv'
    <2>1. DOMAIN queue' = 1..Len(queue) /\ \A k \in 1..Len(queue) : queue'[k].place = 0
      BY <1>6, QueueFacts DEF NameIsUnknown, Transaction
    <2>2. QED BY <2>1 DEF PlacesInv
  <1>7. ASSUME NEW t \in Threads, ListEnds(t) PROVE PlacesInv'
    <2>1. /\ lock = t /\ lock' = lock /\ call' = call /\ counter' = counter /\ queue' = queue
          /\ Working(t)' /\ counter[t] \in Nat
      BY <1>7, ThreadFacts DEF ListEnds, Goto, Inside, Places, Working, HwDeviceTypeOK
    <2>2. QED BY <2>1, QueueFacts, PlacesStay DEF PlacesInv, Reg
  <1>8. ASSUME NEW t \in Threads, Sends(t) PROVE PlacesInv'
    <2>1. /\ lock = t /\ lock' = lock /\ call' = call /\ counter' = counter
          /\ queue # <<>> /\ queue' = Tail(queue)
          /\ Working(t)' /\ counter[t] \in Nat
      BY <1>8, ThreadFacts DEF Sends, Inside, Places, Working, HwDeviceTypeOK
    <2>2. \A k \in 1..(Len(queue) - 1) : queue'[k] = queue[k + 1] /\ k + 1 \in 1..Len(queue)
      BY <2>1, TailFacts
    <2>3. DOMAIN queue' = 1..(Len(queue) - 1)
      BY <2>1, TailFacts
    <2>4. QED BY <2>1, <2>2, <2>3, PlacesStay DEF PlacesInv, Reg
  <1>9. ASSUME NEW t \in Threads, Dispatched(t) PROVE PlacesInv'
    BY <1>9 DEF Dispatched, PlacesInv
  <1>10. ASSUME NEW t \in Threads, DispatchFails(t) PROVE PlacesInv'
    BY <1>10 DEF DispatchFails, PlacesInv
  <1>11. ASSUME NEW t \in Threads, Return(t) PROVE PlacesInv'
    <2>1. lock = t /\ queue' = queue
      BY <1>11, ThreadFacts DEF Return, Inside, Places
    <2>2. ASSUME NEW k \in 1..Len(queue) PROVE queue[k].place = 0
      <3>1. CASE pc[t] = "gaveup"
        BY <2>1, <3>1, NoPlaces DEF Working
      <3>2. CASE pc[t] = "done"
        <4>1. queue # <<>> /\ counter[t] = 0
          BY <2>2, <3>2, QueueFacts, ThreadFacts DEF AttemptInv, Working
        <4>2. QED BY <2>1, <4>1, QueueFacts DEF PlacesInv
      <3>3. QED BY <1>11, <3>1, <3>2 DEF Return
    <2>3. QED BY <2>1, <2>2, QueueFacts DEF PlacesInv
  <1>12. CASE UNCHANGED deviceVars
    BY <1>12 DEF PlacesInv, Working, Reg, deviceVars
  <1>13. QED
    BY <1>1, <1>2, <1>3, <1>4, <1>5, <1>6, <1>7, <1>8, <1>9, <1>10, <1>11, <1>12
    DEF HwDeviceNext, Proceeds

-----------------------------------------------------------------------------
(* The client is empty where EmptyInv says so, for one thread. *)
EmptyFor(t) ==
  Known(t) =>
    /\ pc[t] \in {"attempt", "gaveup"} /\ retryCount[t] > 0 => queue = <<>>
    /\ pc[t] = "gaveup" => retryCount[t] > 0
    /\ pc[t] = "queueing" /\ counter[t] > 0 /\ ~NeedsLast(call[t], counter[t]) => queue = <<>>
    /\ pc[t] = "done" => queue = <<>>

(* It says nothing of a thread without the lock, so a step disturbs it for its own     *)
(* thread only.                                                                  *)
LEMMA EmptyOfOthers ==
  ASSUME HwDeviceTypeOK', NEW t \in Threads, lock' \in {t, NoThread}, EmptyFor(t)'
  PROVE  EmptyInv'
  <1>1. ASSUME NEW u \in Threads PROVE EmptyFor(u)'
    <2>1. u # t => pc'[u] \notin Inside
      BY DeviceAssumption DEF HwDeviceTypeOK
    <2>2. QED BY <2>1 DEF EmptyFor, Inside, Places
  <1>2. QED BY <1>1 DEF EmptyInv, EmptyFor

(* Every step leaves the client empty where it must be. *)
LEMMA NextEmptyInv ==
  ASSUME HwDeviceTypeOK, RestInv, AttemptInv, EmptyInv, HwDeviceTypeOK', [HwDeviceNext]_deviceVars
  PROVE  EmptyInv'
  <1>1. ASSUME NEW t \in Threads, Call(t) PROVE EmptyInv'
    <2>1. ASSUME NEW u \in Threads PROVE EmptyFor(u)'
      <3>1. CASE u = t
        BY <1>1, <3>1 DEF Call, Goto, EmptyFor, HwDeviceTypeOK
      <3>2. CASE u # t
        <4>1. call'[u] = call[u] /\ pc'[u] = pc[u]
          BY <1>1, <3>2 DEF Call, Goto, HwDeviceTypeOK
        <4>2. QED BY <1>1, <4>1 DEF Call, EmptyFor, EmptyInv, Known, Reg
      <3>3. QED BY <3>1, <3>2
    <2>2. QED BY <2>1 DEF EmptyInv, EmptyFor
  <1>2. ASSUME NEW t \in Threads, TakeLock(t) PROVE EmptyInv'
    <2>1. pc'[t] = "attempt" /\ retryCount'[t] = 0 /\ lock' = t
      BY <1>2 DEF TakeLock, Goto, RestInv, Inside, HwDeviceTypeOK
    <2>2. QED BY <2>1, EmptyOfOthers DEF EmptyFor
  <1>3. ASSUME NEW t \in Threads, Attempt(t) PROVE EmptyInv'
    <2>1. pc'[t] = "queueing" /\ counter'[t] = 0 /\ lock' = t
      BY <1>3, ThreadFacts DEF Attempt, Goto, Inside, Places, HwDeviceTypeOK
    <2>2. QED BY <2>1, EmptyOfOthers DEF EmptyFor
  <1>4. ASSUME NEW t \in Threads, GiveUp(t) PROVE EmptyInv'
    <2>1. /\ pc[t] = "attempt" /\ pc'[t] = "gaveup" /\ lock' = t /\ queue' = queue
          /\ retryCount' = retryCount /\ call' = call
      BY <1>4, ThreadFacts DEF GiveUp, Goto, Inside, Places, HwDeviceTypeOK
    <2>2. retryCount[t] > 0
      BY <1>4, ThreadFacts, DeviceAssumption DEF GiveUp
    <2>3. Known(t) => queue = <<>>
      BY <2>1, <2>2 DEF EmptyInv
    <2>4. EmptyFor(t)'
      BY <2>1, <2>2, <2>3 DEF EmptyFor, Known, Reg
    <2>5. QED BY <2>1, <2>4, EmptyOfOthers
  <1>5. ASSUME NEW t \in Threads, QueueNext(t) PROVE EmptyInv'
    <2>1. /\ lock' = t /\ pc'[t] \in {"queueing", "dispatching"}
          /\ counter'[t] \in Nat \ {0} /\ call' = call
          /\ pc'[t] = "queueing" => ~IsDue(call[t], counter'[t])
      <3>1. counter[t] \in Nat /\ counter'[t] = counter[t] + 1 /\ call' = call
        BY <1>5, ThreadFacts DEF QueueNext, HwDeviceTypeOK
      <3>2. lock' = t
        BY <1>5, ThreadFacts DEF QueueNext, Inside, Places
      <3>3. CASE IsDue(call[t], counter[t] + 1)
        BY <1>5, <3>1, <3>2, <3>3 DEF QueueNext, Goto, HwDeviceTypeOK
      <3>4. CASE ~IsDue(call[t], counter[t] + 1)
        BY <1>5, <3>1, <3>2, <3>4 DEF QueueNext
      <3>5. QED BY <3>3, <3>4
    <2>2. pc'[t] = "queueing" => NeedsLast(call[t], counter'[t])
      BY <2>1, DeviceAssumption DEF IsDue, NeedsLast, Freq
    <2>3. EmptyFor(t)'
      BY <2>1, <2>2 DEF EmptyFor
    <2>4. QED BY <2>1, <2>3, EmptyOfOthers
  <1>6. ASSUME NEW t \in Threads, NameIsUnknown(t) PROVE EmptyInv'
    <2>1. lock' = t /\ call' = call
      BY <1>6, ThreadFacts DEF NameIsUnknown, Inside, Places
    <2>2. ~Known(t)
      BY <1>6, DeviceAssumption DEF NameIsUnknown, Known, Reg
    <2>3. QED BY <2>1, <2>2, EmptyOfOthers DEF EmptyFor, Known, Reg
  <1>7. ASSUME NEW t \in Threads, ListEnds(t) PROVE EmptyInv'
    <2>1. /\ lock' = t /\ call' = call /\ pc[t] = "queueing" /\ counter[t] = Len(call[t].list)
          /\ pc'[t] = IF NeedsLast(call[t], counter[t]) THEN "last" ELSE "done"
          /\ queue' = queue
      BY <1>7, ThreadFacts DEF ListEnds, Goto, Inside, Places, HwDeviceTypeOK
    <2>2. Known(t) /\ pc'[t] = "done" => queue = <<>>
      <3>1. Known(t) => counter[t] > 0
        <4>1. call[t].list \in Seq(Item)
          BY ThreadFacts, CallFacts
        <4>2. QED BY <2>1, <4>1, EmptySeq, ThreadFacts DEF Known
      <3>2. QED BY <2>1, <3>1 DEF EmptyInv
    <2>3. EmptyFor(t)'
      BY <2>1, <2>2 DEF EmptyFor, Known, Reg
    <2>4. QED BY <2>1, <2>3, EmptyOfOthers
  <1>8. ASSUME NEW t \in Threads, Sends(t) PROVE EmptyInv'
    <2>1. lock' = t /\ pc'[t] \in {"dispatching", "last"}
      BY <1>8, ThreadFacts DEF Sends, Inside, Places
    <2>2. QED BY <2>1, EmptyOfOthers DEF EmptyFor
  <1>9. ASSUME NEW t \in Threads, Dispatched(t) PROVE EmptyInv'
    <2>1. lock' = t /\ queue' = <<>> /\ pc'[t] \in {"queueing", "attempt", "done"}
      BY <1>9, ThreadFacts DEF Dispatched, Goto, Inside, Places, HwDeviceTypeOK
    <2>2. QED BY <2>1, EmptyOfOthers DEF EmptyFor
  <1>10. ASSUME NEW t \in Threads, DispatchFails(t) PROVE EmptyInv'
    <2>1. lock' = t /\ queue' = <<>> /\ pc'[t] = "attempt"
      BY <1>10, ThreadFacts DEF DispatchFails, Goto, Inside, Places, HwDeviceTypeOK
    <2>2. QED BY <2>1, EmptyOfOthers DEF EmptyFor
  <1>11. ASSUME NEW t \in Threads, Return(t) PROVE EmptyInv'
    <2>1. lock' = NoThread /\ pc'[t] = "idle"
      BY <1>11 DEF Return, Goto, HwDeviceTypeOK
    <2>2. QED BY <2>1, EmptyOfOthers DEF EmptyFor
  <1>12. CASE UNCHANGED deviceVars
    BY <1>12 DEF EmptyInv, Known, Reg, deviceVars
  <1>13. QED
    BY <1>1, <1>2, <1>3, <1>4, <1>5, <1>6, <1>7, <1>8, <1>9, <1>10, <1>11, <1>12
    DEF HwDeviceNext, Proceeds

-----------------------------------------------------------------------------
(* A step disturbs what an attempt has done for its own thread only, or for nobody      *)
(* if it holds no lock.                                                          *)
AttemptFor(t) ==
  Working(t) =>
    /\ AsQueued(t)
    /\ retryCount[t] \in 1..MAX_IPBUS_RETRIES
    /\ pc[t] = "done" => counter[t] = Len(call[t].list) /\ (counter[t] > 0 => queue = <<>>)
    /\ pc[t] = "last" => counter[t] = Len(call[t].list)

(* The same for AttemptInv. *)
LEMMA AttemptOfOthers ==
  ASSUME HwDeviceTypeOK', NEW t \in Threads, lock' \in {t, NoThread}, AttemptFor(t)'
  PROVE  AttemptInv'
  <1>1. ASSUME NEW u \in Threads PROVE AttemptFor(u)'
    <2>1. u # t => pc'[u] \notin Inside
      BY DeviceAssumption DEF HwDeviceTypeOK
    <2>2. QED BY <2>1 DEF AttemptFor, Inside, Places, Working
  <1>2. QED BY <1>1 DEF AttemptInv, AttemptFor

(* What is queued and what is kept stays as good as it was. *)
LEMMA AttemptStays ==
  ASSUME NEW t \in Threads, AsQueued(t), queue' = queue, regs' = regs,
         call'[t] = call[t], counter'[t] = counter[t], got'[t] = got[t]
  PROVE  AsQueued(t)'
  BY DEF AsQueued, AnswerIsTrue, WriteIsTrue, IsLast, WritesTo, Reg, Val

(* One more register is queued: its own answer or value comes last, and it writes     *)
(* nothing to the registers that were named last before.                          *)
LEMMA QueueNextKeeps ==
  ASSUME HwDeviceTypeOK, HwDeviceTypeOK', NEW t \in Threads, QueueNext(t), AsQueued(t)
  PROVE  AsQueued(t)'
  <1> DEFINE n == counter[t] + 1
             x == Transactions(call[t], n)
             L == Len(queue)
  <1>1. /\ call' = call /\ regs' = regs /\ got' = got /\ counter'[t] = n /\ counter[t] \in Nat
    BY ThreadFacts DEF QueueNext, HwDeviceTypeOK
  <1>2. /\ n \in 1..Len(call[t].list) /\ Reg(t, n) \in Registers /\ call[t] \in Calls
        /\ Len(x) \in Nat \ {0} /\ L \in Nat
        /\ DOMAIN queue' = 1..(L + Len(x)) /\ DOMAIN queue = 1..L
        /\ \A k \in 1..L : queue'[k] = queue[k]
        /\ \A k \in 1..Len(x) : queue'[L + k] = x[k]
        /\ \A k \in (L + 1)..(L + Len(x)) :
             queue'[k] = x[k - L] /\ k - L \in 1..Len(x)
    BY QueuedFacts, QueueFacts
  <1>3. /\ \A k \in 1..Len(x) : x[k].place = n /\ x[k].reg = Reg(t, n)
        /\ Reads(call[t]) => Len(x) = 1 /\ ~x[1].write
        /\ Writes(call[t]) => \E k \in 1..Len(x) :
             /\ x[k].write /\ x[k].val = Val(t, n)
             /\ \A m \in 1..Len(x) : m > k => ~x[m].write
    <2>1. n \in 1..Len(call[t].list) /\ call[t].list[n].reg \in Registers /\ call[t] \in Calls
      BY <1>2 DEF Reg
    <2>2. \A k \in 1..Len(x) : x[k].place = n /\ x[k].reg = call[t].list[n].reg
      BY <2>1, TransactionFacts
    <2>3. Reads(call[t]) => Len(x) = 1 /\ ~x[1].write
      BY <2>1, TransactionFacts
    <2>4. Writes(call[t]) => \E k \in 1..Len(x) :
             /\ x[k].write /\ x[k].val = call[t].list[n].val
             /\ \A m \in 1..Len(x) : m > k => ~x[m].write
      BY <2>1, TransactionFacts
    <2>5. QED BY <2>2, <2>3, <2>4 DEF Reg, Val
  <1>4. \A i : Reg(t, i)' = Reg(t, i) /\ Val(t, i)' = Val(t, i)
    BY <1>1 DEF Reg, Val
  <1> HIDE DEF n, x, L
  <1>5. ASSUME NEW i \in 1..n PROVE Reg(t, i) \in Registers
    BY <1>1, <1>2, <1>5 DEF AsQueued, n
  <1>6. ASSUME NEW i \in 1..n, Reads(call[t]) PROVE AnswerIsTrue(t, i)'
    <2>1. /\ Len(x) = 1 /\ DOMAIN queue' = 1..(L + 1) /\ ~queue'[L + 1].write
          /\ queue'[L + 1].place = n
      <3>1. Len(x) = 1 /\ ~x[1].write
        BY <1>3, <1>6
      <3>2. 1 \in 1..Len(x)
        BY <3>1
      <3>3. queue'[L + 1] = x[1] /\ x[1].place = n
        BY <1>2, <1>3, <3>2
      <3>4. QED BY <1>2, <3>1, <3>3
    <2>2. CASE i = n
      <3>1. \A m \in DOMAIN queue' : ~(m > L + 1)
        BY <1>2, <2>1
      <3>2. L + 1 \in DOMAIN queue'
        BY <1>2, <2>1
      <3>3. QED BY <2>1, <2>2, <3>1, <3>2 DEF AnswerIsTrue
    <2>3. CASE i # n
      <3>1. AnswerIsTrue(t, i)
        BY <1>1, <1>6, <2>3 DEF AsQueued, n
      <3>2. \A m \in DOMAIN queue' : m \in 1..L \/ m = L + 1
        BY <1>2, <2>1
      <3>3. CASE \E k \in 1..L : /\ ~queue[k].write /\ queue[k].place = i
                                 /\ \A m \in 1..L : m > k => ~queue[m].write
        <4>1. PICK k \in 1..L : /\ ~queue[k].write /\ queue[k].place = i
                                /\ \A m \in 1..L : m > k => ~queue[m].write
          BY <3>3
        <4>2. \A m \in DOMAIN queue' : m > k => ~queue'[m].write
          BY <1>2, <2>1, <3>2, <4>1
        <4>3. k \in DOMAIN queue'
          BY <1>2, <2>1
        <4>4. QED BY <1>2, <4>1, <4>2, <4>3 DEF AnswerIsTrue
      <3>4. CASE got[t][i] = regs[Reg(t, i)] /\ \A m \in 1..L : ~queue[m].write
        <4>1. \A m \in DOMAIN queue' : ~queue'[m].write
          BY <1>2, <2>1, <3>2, <3>4
        <4>2. got'[t][i] = regs'[Reg(t, i)']
          BY <1>1, <1>4, <3>4
        <4>3. QED BY <4>1, <4>2 DEF AnswerIsTrue
      <3>5. QED BY <1>2, <3>1, <3>3, <3>4 DEF AnswerIsTrue
    <2>4. QED BY <2>2, <2>3
  <1>7. ASSUME NEW i \in 1..n, Writes(call[t]), IsLast(t, i)' PROVE WriteIsTrue(t, i)'
    <2>1. CASE i = n
      <3>1. PICK k \in 1..Len(x) : /\ x[k].write /\ x[k].val = Val(t, n)
                                   /\ \A m \in 1..Len(x) : m > k => ~x[m].write
        BY <1>3, <1>7
      <3>2. L + k \in DOMAIN queue' /\ queue'[L + k] = x[k] /\ x[k].reg = Reg(t, n)
        BY <1>2, <1>3
      <3>3. ASSUME NEW m \in DOMAIN queue', m > L + k PROVE ~queue'[m].write
        <4>1. m \in (L + 1)..(L + Len(x)) /\ m - L > k
          BY <1>2, <3>3
        <4>2. QED BY <1>2, <3>1, <4>1
      <3>4. QED BY <1>4, <2>1, <3>1, <3>2, <3>3 DEF WriteIsTrue, WritesTo
    <2>2. CASE i # n
      <3>1. Reg(t, n) # Reg(t, i)
        BY <1>1, <1>2, <1>4, <1>7, <2>2 DEF IsLast
      <3>2. IsLast(t, i) /\ i \in 1..counter[t]
        BY <1>1, <1>2, <1>4, <1>7, <2>2 DEF IsLast, n
      <3>3. WriteIsTrue(t, i)
        BY <1>7, <3>2 DEF AsQueued
      <3>4. ASSUME NEW m \in DOMAIN queue', m \notin 1..L PROVE queue'[m].reg # Reg(t, i)
        <4>1. m \in (L + 1)..(L + Len(x))
          BY <1>2, <3>4
        <4>2. QED BY <1>2, <1>3, <3>1, <4>1
      <3>5. CASE \E k \in 1..L : /\ queue[k].write /\ queue[k].reg = Reg(t, i)
                                 /\ queue[k].val = Val(t, i)
                                /\ \A m \in 1..L : m > k =>
                                     ~(queue[m].write /\ queue[m].reg = Reg(t, i))
        <4>1. PICK k \in 1..L : /\ queue[k].write /\ queue[k].reg = Reg(t, i)
                                /\ queue[k].val = Val(t, i)
                                /\ \A m \in 1..L : m > k =>
                                     ~(queue[m].write /\ queue[m].reg = Reg(t, i))
          BY <3>5
        <4>2. k \in DOMAIN queue' /\ queue'[k] = queue[k]
          BY <1>2
        <4>3. \A m \in DOMAIN queue' : m > k => ~(queue'[m].write /\ queue'[m].reg = Reg(t, i))
          BY <1>2, <3>4, <4>1
        <4>4. QED BY <1>4, <4>1, <4>2, <4>3 DEF WriteIsTrue, WritesTo
      <3>6. CASE /\ regs[Reg(t, i)] = Stored(Reg(t, i), Val(t, i))
                 /\ \A m \in 1..L : ~(queue[m].write /\ queue[m].reg = Reg(t, i))
        <4>1. \A m \in DOMAIN queue' : ~(queue'[m].write /\ queue'[m].reg = Reg(t, i))
          BY <1>2, <3>4, <3>6
        <4>2. QED BY <1>1, <1>4, <3>6, <4>1 DEF WriteIsTrue, WritesTo
      <3>7. QED BY <1>2, <3>3, <3>5, <3>6 DEF WriteIsTrue, WritesTo
    <2>3. QED BY <2>1, <2>2
  <1>8. Reads(call[t])' = Reads(call[t]) /\ Writes(call[t])' = Writes(call[t])
    BY <1>1
  <1>9. QED BY <1>1, <1>4, <1>5, <1>6, <1>7, <1>8 DEF AsQueued

(* The client sends one transaction: the answer it brings is what the card holds,  *)
(* and the value it writes is the one the card keeps, until the next one.            *)
LEMMA SendsKeeps ==
  ASSUME HwDeviceTypeOK, PlacesInv, NEW t \in Threads, Sends(t), AsQueued(t)
  PROVE  AsQueued(t)'
  <1> DEFINE x == Head(queue)
             L == Len(queue)
  <1>1. /\ call' = call /\ counter' = counter /\ counter[t] \in Nat /\ lock = t
        /\ queue # <<>> /\ queue' = Tail(queue)
    BY ThreadFacts DEF Sends, Inside, Places
  <1>2. /\ L \in Nat \ {0} /\ x = queue[1] /\ DOMAIN queue = 1..L
        /\ DOMAIN queue' = 1..(L - 1)
        /\ \A k \in 1..(L - 1) : queue'[k] = queue[k + 1]
    BY <1>1, TailFacts, QueueFacts
  <1>3. /\ x.reg \in Registers /\ x.write \in BOOLEAN /\ x.place \in Nat
        /\ x.place # 0 => x.reg = Reg(t, x.place)
    BY <1>1, <1>2, QueueFacts DEF PlacesInv
  <1>4. \A i : Reg(t, i)' = Reg(t, i) /\ Val(t, i)' = Val(t, i)
    BY <1>1 DEF Reg, Val
  <1>5. \/ /\ x.write /\ got' = got
           /\ regs' = [regs EXCEPT ![x.reg] = Stored(x.reg, x.val)]
        \/ /\ ~x.write /\ regs' = regs
           /\ got'[t] = Answered(got[t], x.place, regs[x.reg])
    BY DEF Sends, HwDeviceTypeOK
  <1>6. regs \in [Registers -> Values] /\ DOMAIN got[t] = 1..Len(call[t].list)
        /\ counter[t] <= Len(call[t].list) /\ Len(call[t].list) \in Nat
    BY ThreadFacts DEF HwDeviceTypeOK
  <1>7. /\ \A k \in 1..L : k # 1 => k - 1 \in DOMAIN queue' /\ queue'[k - 1] = queue[k]
        /\ \A m \in DOMAIN queue' : m + 1 \in 1..L /\ queue'[m] = queue[m + 1]
    BY <1>2
  <1> HIDE DEF x, L
  <1>8. ASSUME NEW i \in 1..counter[t], Reads(call[t]) PROVE AnswerIsTrue(t, i)'
    <2>1. AnswerIsTrue(t, i) /\ Reg(t, i) \in Registers /\ i \in DOMAIN got[t]
      BY <1>1, <1>6, <1>8 DEF AsQueued
    <2>2. CASE /\ got[t][i] = regs[Reg(t, i)]
               /\ \A m \in 1..L : ~queue[m].write
      <3>1. \A m \in DOMAIN queue' : ~queue'[m].write
        BY <1>7, <2>2
      <3>2. ~x.write
        BY <1>2, <2>2
      <3>3. regs' = regs /\ got'[t] = Answered(got[t], x.place, regs[x.reg])
        BY <1>5, <3>2
      <3>4. got'[t][i] = regs[Reg(t, i)]
        BY <1>3, <2>1, <2>2, <3>3, <1>1 DEF Answered
      <3>5. QED BY <1>4, <3>1, <3>3, <3>4 DEF AnswerIsTrue
    <2>3. ASSUME NEW k \in 1..L, ~queue[k].write, queue[k].place = i,
                 \A m \in 1..L : m > k => ~queue[m].write
          PROVE  AnswerIsTrue(t, i)'
      <3>1. CASE k = 1
        <4>1. \A m \in DOMAIN queue' : ~queue'[m].write
          BY <1>2, <1>7, <2>3, <3>1
        <4>2. regs' = regs /\ got'[t] = Answered(got[t], i, regs[x.reg]) /\ x.place = i
          BY <1>2, <1>5, <2>3, <3>1
        <4>3. x.reg = Reg(t, i)
          BY <1>1, <1>3, <4>2
        <4>4. got'[t][i] = regs[Reg(t, i)]
          BY <2>1, <4>2, <4>3 DEF Answered
        <4>5. QED BY <1>4, <4>1, <4>2, <4>4 DEF AnswerIsTrue
      <3>2. CASE k # 1
        <4>1. k - 1 \in DOMAIN queue' /\ queue'[k - 1] = queue[k]
          BY <1>7, <3>2
        <4>2. ASSUME NEW m \in DOMAIN queue', m > k - 1 PROVE ~queue'[m].write
          <5>1. m + 1 \in 1..L /\ m + 1 > k
            BY <1>2, <1>7, <4>2
          <5>2. QED BY <1>7, <2>3, <5>1
        <4>3. QED BY <2>3, <4>1, <4>2 DEF AnswerIsTrue
      <3>3. QED BY <3>1, <3>2
    <2>4. QED BY <1>2, <2>1, <2>2, <2>3 DEF AnswerIsTrue
  <1>9. ASSUME NEW i \in 1..counter[t], Writes(call[t]), IsLast(t, i)' PROVE WriteIsTrue(t, i)'
    <2>1. IsLast(t, i)
      BY <1>1, <1>4, <1>9 DEF IsLast
    <2>2. WriteIsTrue(t, i) /\ Reg(t, i) \in Registers
      BY <1>9, <2>1 DEF AsQueued
    <2>3. CASE /\ regs[Reg(t, i)] = Stored(Reg(t, i), Val(t, i))
               /\ \A m \in 1..L : ~(queue[m].write /\ queue[m].reg = Reg(t, i))
      <3>1. \A m \in DOMAIN queue' : ~(queue'[m].write /\ queue'[m].reg = Reg(t, i))
        BY <1>7, <2>3
      <3>2. ~(x.write /\ x.reg = Reg(t, i))
        BY <1>2, <2>3
      <3>3. regs'[Reg(t, i)] = regs[Reg(t, i)]
        BY <1>5, <1>6, <2>2, <3>2
      <3>4. QED BY <1>4, <2>3, <3>1, <3>3 DEF WriteIsTrue, WritesTo
    <2>4. ASSUME NEW k \in 1..L, queue[k].write, queue[k].reg = Reg(t, i), queue[k].val = Val(t, i),
                 \A m \in 1..L : m > k => ~(queue[m].write /\ queue[m].reg = Reg(t, i))
          PROVE  WriteIsTrue(t, i)'
      <3>1. CASE k = 1
        <4>1. \A m \in DOMAIN queue' : ~(queue'[m].write /\ queue'[m].reg = Reg(t, i))
          BY <1>2, <1>7, <2>4, <3>1
        <4>2. regs'[Reg(t, i)] = Stored(Reg(t, i), Val(t, i))
          BY <1>2, <1>5, <1>6, <2>2, <2>4, <3>1
        <4>3. QED BY <1>4, <4>1, <4>2 DEF WriteIsTrue, WritesTo
      <3>2. CASE k # 1
        <4>1. k - 1 \in DOMAIN queue' /\ queue'[k - 1] = queue[k]
          BY <1>7, <3>2
        <4>2. ASSUME NEW m \in DOMAIN queue', m > k - 1
              PROVE  ~(queue'[m].write /\ queue'[m].reg = Reg(t, i))
          <5>1. m + 1 \in 1..L /\ m + 1 > k
            BY <1>2, <1>7, <4>2
          <5>2. QED BY <1>7, <2>4, <5>1
        <4>3. QED BY <1>4, <2>4, <4>1, <4>2 DEF WriteIsTrue, WritesTo
      <3>3. QED BY <3>1, <3>2
    <2>5. QED BY <1>2, <2>2, <2>3, <2>4 DEF WriteIsTrue, WritesTo
  <1>10. \A i \in 1..counter[t] : Reg(t, i) \in Registers
    BY DEF AsQueued
  <1>11. QED BY <1>1, <1>4, <1>8, <1>9, <1>10 DEF AsQueued

(* Every step keeps what the attempts have done. *)
LEMMA NextAttemptInv ==
  ASSUME HwDeviceTypeOK, RestInv, AttemptInv, PlacesInv, EmptyInv, HwDeviceTypeOK',
         [HwDeviceNext]_deviceVars
  PROVE  AttemptInv'
  <1>1. ASSUME NEW t \in Threads, Call(t) PROVE AttemptInv'
    <2>1. ASSUME NEW u \in Threads PROVE AttemptFor(u)'
      <3>1. CASE u = t
        BY <1>1, <3>1 DEF Call, Goto, AttemptFor, Working, HwDeviceTypeOK
      <3>2. CASE u # t
        <4>1. /\ call'[u] = call[u] /\ pc'[u] = pc[u] /\ got'[u] = got[u]
              /\ counter' = counter /\ retryCount' = retryCount /\ queue' = queue /\ regs' = regs
          BY <1>1, <3>2 DEF Call, Goto, HwDeviceTypeOK
        <4>2. QED BY <4>1, AttemptStays DEF AttemptFor, AttemptInv, Working
      <3>3. QED BY <3>1, <3>2
    <2>2. QED BY <2>1 DEF AttemptInv, AttemptFor
  <1>2. ASSUME NEW t \in Threads, TakeLock(t) PROVE AttemptInv'
    <2>1. pc'[t] = "attempt" /\ lock' = t
      BY <1>2 DEF TakeLock, Goto, HwDeviceTypeOK
    <2>2. QED BY <2>1, AttemptOfOthers DEF AttemptFor, Working
  <1>3. ASSUME NEW t \in Threads, Attempt(t) PROVE AttemptInv'
    <2>1. /\ pc'[t] = "queueing" /\ counter'[t] = 0 /\ lock' = t
          /\ retryCount'[t] \in 1..MAX_IPBUS_RETRIES
      BY <1>3, ThreadFacts, DeviceAssumption DEF Attempt, Goto, Inside, Places, HwDeviceTypeOK
    <2>2. QED BY <2>1, AttemptOfOthers DEF AttemptFor, AsQueued
  <1>4. ASSUME NEW t \in Threads, GiveUp(t) PROVE AttemptInv'
    <2>1. pc'[t] = "gaveup" /\ lock' = t
      BY <1>4, ThreadFacts DEF GiveUp, Goto, Inside, Places, HwDeviceTypeOK
    <2>2. QED BY <2>1, AttemptOfOthers DEF AttemptFor, Working
  <1>5. ASSUME NEW t \in Threads, QueueNext(t) PROVE AttemptInv'
    <2>1. AsQueued(t)'
      BY <1>5, QueueNextKeeps DEF AttemptInv, Working, QueueNext
    <2>2. /\ lock' = t /\ retryCount'[t] \in 1..MAX_IPBUS_RETRIES
          /\ pc'[t] \in {"queueing", "dispatching"}
      BY <1>5, WorkerFacts DEF QueueNext, Goto, Working, HwDeviceTypeOK
    <2>3. QED BY <2>1, <2>2, AttemptOfOthers DEF AttemptFor
  <1>6. ASSUME NEW t \in Threads, NameIsUnknown(t) PROVE AttemptInv'
    <2>1. pc'[t] = "attempt" /\ lock' = t
      BY <1>6, ThreadFacts DEF NameIsUnknown, Goto, Inside, Places, HwDeviceTypeOK
    <2>2. QED BY <2>1, AttemptOfOthers DEF AttemptFor, Working
  <1>7. ASSUME NEW t \in Threads, ListEnds(t) PROVE AttemptInv'
    <2>1. /\ pc[t] = "queueing" /\ counter[t] = Len(call[t].list) /\ lock' = t
          /\ pc'[t] = IF NeedsLast(call[t], counter[t]) THEN "last" ELSE "done"
          /\ call' = call /\ counter' = counter /\ got' = got /\ queue' = queue /\ regs' = regs
          /\ retryCount' = retryCount
      BY <1>7, ThreadFacts DEF ListEnds, Goto, Inside, Places, HwDeviceTypeOK
    <2>2. AsQueued(t) /\ retryCount[t] \in 1..MAX_IPBUS_RETRIES
      BY <2>1 DEF AttemptInv, Working
    <2>3. AsQueued(t)'
      BY <2>1, <2>2, AttemptStays
    <2>4. pc'[t] = "done" /\ counter[t] > 0 => queue = <<>>
      <3>1. \A i \in DOMAIN call[t].list : Reg(t, i) \in Registers
        BY <2>1, <2>2, ThreadFacts DEF AsQueued
      <3>2. counter[t] > 0 => call[t].list # <<>>
        BY <2>1
      <3>3. QED BY <2>1, <3>1, <3>2 DEF EmptyInv, Known
    <2>5. AttemptFor(t)'
      BY <2>1, <2>2, <2>3, <2>4 DEF AttemptFor
    <2>6. QED BY <2>1, <2>5, AttemptOfOthers
  <1>8. ASSUME NEW t \in Threads, Sends(t) PROVE AttemptInv'
    <2>1. /\ Working(t) /\ pc' = pc /\ lock' = t /\ retryCount' = retryCount
          /\ call' = call /\ counter' = counter /\ pc[t] # "done"
      BY <1>8, ThreadFacts DEF Sends, Working, Inside, Places
    <2>2. AsQueued(t)'
      BY <1>8, <2>1, SendsKeeps DEF AttemptInv
    <2>3. AttemptFor(t)'
      BY <2>1, <2>2 DEF AttemptFor, AttemptInv
    <2>4. QED BY <2>1, <2>3, AttemptOfOthers
  <1>9. ASSUME NEW t \in Threads, Dispatched(t) PROVE AttemptInv'
    <2>1. /\ Working(t) /\ lock' = t /\ retryCount' = retryCount /\ call' = call
          /\ counter' = counter /\ got' = got /\ regs' = regs /\ queue' = queue
          /\ queue = <<>>
          /\ \/ pc[t] = "dispatching" /\ pc'[t] = "queueing"
             \/ pc[t] = "last" /\ pc'[t] \in {"attempt", "done"}
      BY <1>9, ThreadFacts DEF Dispatched, Goto, Working, Inside, Places, HwDeviceTypeOK
    <2>2. AsQueued(t)'
      BY <2>1, AttemptStays DEF AttemptInv
    <2>3. AttemptFor(t)'
      BY <2>1, <2>2 DEF AttemptFor, AttemptInv, Working
    <2>4. QED BY <2>1, <2>3, AttemptOfOthers
  <1>10. ASSUME NEW t \in Threads, DispatchFails(t) PROVE AttemptInv'
    <2>1. pc'[t] = "attempt" /\ lock' = t
      BY <1>10, ThreadFacts DEF DispatchFails, Goto, Inside, Places, HwDeviceTypeOK
    <2>2. QED BY <2>1, AttemptOfOthers DEF AttemptFor, Working
  <1>11. ASSUME NEW t \in Threads, Return(t) PROVE AttemptInv'
    <2>1. pc'[t] = "idle" /\ lock' = NoThread
      BY <1>11 DEF Return, Goto, HwDeviceTypeOK
    <2>2. QED BY <2>1, AttemptOfOthers DEF AttemptFor, Working
  <1>12. CASE UNCHANGED deviceVars
    <2>1. ASSUME NEW t \in Threads PROVE AttemptFor(t)'
      BY <1>12, AttemptStays DEF deviceVars, AttemptFor, AttemptInv, Working
    <2>2. QED BY <2>1 DEF AttemptInv, AttemptFor
  <1>13. QED
    BY <1>1, <1>2, <1>3, <1>4, <1>5, <1>6, <1>7, <1>8, <1>9, <1>10, <1>11, <1>12
    DEF HwDeviceNext, Proceeds

-----------------------------------------------------------------------------
(* The invariant holds at first, and every step keeps it. *)
LEMMA InitDeviceInv == HwDeviceInit => DeviceInv
  <1> SUFFICES ASSUME HwDeviceInit PROVE DeviceInv
    OBVIOUS
  <1>1. AnyCall \in Calls /\ Blank(AnyCall) \in [1..Len(AnyCall.list) -> Values \cup {NoValue}]
        /\ DOMAIN AnyCall.list = 1..Len(AnyCall.list) /\ Len(AnyCall.list) \in Nat
    BY AnyCallFacts, BlankFacts, CallFacts
  <1>2. \A t \in Threads : /\ call[t] = AnyCall /\ got[t] = Blank(AnyCall)
                           /\ counter[t] = 0 /\ pc[t] = "idle" /\ retryCount[t] = 0
                           /\ lock # t
    BY DeviceAssumption DEF HwDeviceInit
  <1>3. HwDeviceTypeOK
    <2>1. /\ regs \in [Registers -> Values] /\ queue \in Seq(Transaction)
          /\ lock \in Threads \cup {NoThread} /\ pc \in [Threads -> Places]
      BY DeviceAssumption DEF HwDeviceInit, Places
    <2>2. /\ call \in [Threads -> Calls] /\ retryCount \in [Threads -> 0..(MAX_IPBUS_RETRIES + 1)]
          /\ counter \in [Threads -> Nat] /\ DOMAIN got = Threads
          /\ made \in [Threads -> 0..MaxCalls]
      BY <1>1, DeviceAssumption DEF HwDeviceInit
    <2>3. ASSUME NEW t \in Threads
          PROVE  /\ counter[t] \in 0..Len(call[t].list)
                 /\ got[t] \in [DOMAIN call[t].list -> Values \cup {NoValue}]
                 /\ pc[t] \in Inside <=> lock = t
      BY <1>1, <1>2 DEF Inside, Places
    <2>4. QED BY <2>1, <2>2, <2>3 DEF HwDeviceTypeOK
  <1>4. RestInv /\ AttemptInv /\ EmptyInv
    BY <1>2 DEF RestInv, AttemptInv, EmptyInv, Working
  <1>5. PlacesInv
    BY DEF HwDeviceInit, PlacesInv
  <1>6. QED BY <1>3, <1>4, <1>5 DEF DeviceInv

(* Every step of a thread preserves the invariant.                                      *)
LEMMA NextDeviceInv == DeviceInv /\ [HwDeviceNext]_deviceVars => DeviceInv'
  <1> SUFFICES ASSUME DeviceInv, [HwDeviceNext]_deviceVars PROVE DeviceInv'
    OBVIOUS
  <1>1. HwDeviceTypeOK'
    BY NextTypeOK DEF DeviceInv
  <1>2. QED BY <1>1, NextRestInv, NextPlacesInv, NextEmptyInv, NextAttemptInv DEF DeviceInv

(* The invariant holds in every reachable state.                                        *)
LEMMA DeviceInvariant == HwDeviceSpec => []DeviceInv
  <1>1. QED BY InitDeviceInv, NextDeviceInv, PTL DEF HwDeviceSpec

(* A register that is in a list has a last place there. *)
LEMMA LastExists ==
  ASSUME NEW c \in Calls, NEW i \in DOMAIN c.list
  PROVE  LET r == c.list[i].reg
             l == LastOf(c, r)
         IN  /\ l \in DOMAIN c.list /\ c.list[l].reg = r
             /\ \A j \in DOMAIN c.list : c.list[j].reg = r => j <= l
  <1> DEFINE r == c.list[i].reg
             n == Len(c.list)
             T == {d \in 0..n : n - d \in DOMAIN c.list /\ c.list[n - d].reg = r}
             IsSo(l) == /\ l \in DOMAIN c.list /\ c.list[l].reg = r
                        /\ \A j \in DOMAIN c.list : c.list[j].reg = r => j <= l
  <1>1. n \in Nat /\ DOMAIN c.list = 1..n
    BY CallFacts
  <1>2. T \subseteq Nat /\ n - i \in T
    BY <1>1
  <1>3. PICK d \in T : \A e \in T : <<e, d>> \notin OpToRel(<, Nat)
    <2>1. T # {}
      BY <1>2
    <2> HIDE DEF T
    <2>2. QED BY <1>2, <2>1, WFMin, NatLessThanWellFounded
  <1>4. \A e \in T : ~(e < d)
    BY <1>2, <1>3 DEF OpToRel
  <1>5. ASSUME NEW j \in DOMAIN c.list, c.list[j].reg = r PROVE j <= n - d
    <2>1. n - j \in T
      <3>1. j \in 1..n
        BY <1>1, <1>5
      <3> HIDE DEF n
      <3>2. n - j \in 0..n /\ n - (n - j) = j
        BY <1>1, <3>1
      <3>3. QED BY <1>5, <3>2
    <2>2. ~(n - j < d)
      BY <1>4, <2>1
    <2>3. QED BY <1>1, <1>2, <2>2
  <1>6. IsSo(n - d)
    BY <1>5
  <1>7. \E l \in DOMAIN c.list : c.list[l].reg = r /\ \A j \in DOMAIN c.list : c.list[j].reg = r => j <= l
    BY <1>6
  <1>8. QED BY <1>7 DEF LastOf

-----------------------------------------------------------------------------
(* The variables keep their types: no attempt counts beyond its limit, no list is     *)
(* left at a place it does not have, and whoever is inside an access, and nobody       *)
(* else, holds the lock.                                                         *)
THEOREM DeviceTypeCorrect == HwDeviceSpec => []HwDeviceTypeOK
  <1>1. DeviceInv => HwDeviceTypeOK
    BY DEF DeviceInv
  <1>2. QED BY <1>1, DeviceInvariant, PTL

(* An access that returns as done has read what the card holds and written what the    *)
(* card keeps, all at one moment, and an access that names only known registers leaves   *)
(* nothing in the client, whatever failed on the way.                              *)
THEOREM AccessesAreOver == HwDeviceSpec => []AccessIsOver
  <1>1. DeviceInv => SuccessIsTrue
    <2> SUFFICES ASSUME DeviceInv, NEW t \in Threads, pc[t] = "done", NEW i \in DOMAIN call[t].list
                 PROVE  LET r == call[t].list[i].reg
                        IN  /\ r \in Registers
                            /\ Reads(call[t]) => got[t][i] = regs[r]
                            /\ Writes(call[t]) =>
                                 regs[r] = Stored(r, call[t].list[LastOf(call[t], r)].val)
      BY DEF SuccessIsTrue
    <2>1. /\ AsQueued(t) /\ counter[t] = Len(call[t].list)
          /\ DOMAIN call[t].list = 1..counter[t] /\ counter[t] \in Nat
          /\ call[t] \in Calls
      BY ThreadFacts DEF DeviceInv, AttemptInv, Working
    <2>2. queue = <<>>
      BY <2>1 DEF DeviceInv, AttemptInv, Working
    <2>3. Reg(t, i) \in Registers
      BY <2>1 DEF AsQueued
    <2>4. ASSUME Reads(call[t]) PROVE got[t][i] = regs[Reg(t, i)]
      <3>1. AnswerIsTrue(t, i)
        BY <2>1, <2>4 DEF AsQueued
      <3>2. DOMAIN queue = {}
        BY <2>2
      <3>3. QED BY <3>1, <3>2 DEF AnswerIsTrue
    <2>5. ASSUME Writes(call[t])
          PROVE  regs[Reg(t, i)] = Stored(Reg(t, i), Val(t, LastOf(call[t], Reg(t, i))))
      <3> DEFINE l == LastOf(call[t], Reg(t, i))
      <3>1. /\ l \in DOMAIN call[t].list /\ Reg(t, l) = Reg(t, i)
            /\ \A j \in DOMAIN call[t].list : Reg(t, j) = Reg(t, i) => j <= l
        BY <2>1, LastExists DEF Reg
      <3> HIDE DEF l
      <3>2. IsLast(t, l) /\ l \in 1..counter[t]
        BY <2>1, <3>1 DEF IsLast
      <3>3. WriteIsTrue(t, l)
        BY <2>5, <3>2, <2>1 DEF AsQueued
      <3>4. DOMAIN queue = {}
        BY <2>2
      <3>5. regs[Reg(t, l)] = Stored(Reg(t, l), Val(t, l))
        BY <3>3, <3>4 DEF WriteIsTrue
      <3>6. QED BY <3>1, <3>5 DEF l
    <2>6. QED BY <2>3, <2>4, <2>5 DEF Reg, Val
  <1>2. DeviceInv => NothingIsLeftBehind
    BY DEF DeviceInv, EmptyInv, Known, Reg, NothingIsLeftBehind
  <1>3. DeviceInv => AccessIsOver
    BY <1>1, <1>2 DEF AccessIsOver
  <1>4. QED BY <1>3, DeviceInvariant, PTL
=============================================================================
