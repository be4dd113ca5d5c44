------------------------------ MODULE GEMHwDevice ------------------------------
(***************************************************************************)
(* Access to the registers of one card.                                       *)
(*                                                                          *)
(* Every manager and every monitor reaches its card through a GEMHwDevice.      *)
(* Two threads, the transition's job and the monitor's timer, share one: an      *)
(* access takes m_hwLock and keeps it through all its attempts.  An attempt      *)
(* queues transactions in the uHAL client and dispatches them; the client sends  *)
(* them one by one in order, and a dispatch that fails on the way forgets the     *)
(* rest.  An access that fails too often logs an error and returns:  *)
(* 0, a block of zeros, or an untouched list.                                 *)
(*                                                                          *)
(* Registers hold small values.  A pulse register does not keep what is written *)
(* (a reset, a "shift now").  A FIFO access is a series of single accesses.      *)
(***************************************************************************)
EXTENDS Integers, Sequences

CONSTANTS
  Threads,
  Registers,           (* the registers of the address table                     *)
  Pulses,              (* those that read 0 whatever was written                  *)
  WriteOnly,           (* those whose permission is uhal::defs::WRITE              *)
  Unknown,             (* names that are not in the address table                  *)
  Values,              (* what a register can hold, 0 among it                    *)
  Calls,               (* the calls that threads make: [op, list]                  *)
  Frequency,           (* freq: after so many registers of a list a dispatch       *)
  MAX_IPBUS_RETRIES,
  MaxCalls,            (* bounds the calls of a thread                            *)
  NoThread, NoValue

Operations == {"readReg", "writeReg", "readBlock", "writeBlock", "readRegs", "writeRegs"}

Item == [reg : Registers \cup Unknown, val : Values]

(* A frequency of 0 would divide by zero; a single access names one register, and
   a block has words and a name that is known (its size is looked up first).      *)
ASSUME DeviceAssumption ==
  /\ Pulses \subseteq Registers /\ WriteOnly \subseteq Registers
  /\ Unknown \cap Registers = {}
  /\ Values \subseteq Nat /\ 0 \in Values /\ NoValue \notin Values
  /\ NoThread \notin Threads
  /\ Calls # {}
  /\ Frequency \in Int \ {0}
  /\ MAX_IPBUS_RETRIES \in Nat \ {0} /\ MaxCalls \in Nat
  /\ \A c \in Calls :
       /\ c.op \in Operations /\ c.list \in Seq(Item)
       /\ c.op \in {"readReg", "writeReg"} => Len(c.list) = 1
       /\ c.op \in {"readBlock", "writeBlock"} =>
            Len(c.list) > 0 /\ \A i \in DOMAIN c.list : c.list[i].reg \in Registers

VARIABLES
  regs,           (* the card's registers                                        *)
  queue,          (* the transactions that wait in the client                      *)
  lock,           (* the thread that holds m_hwLock                               *)
  pc,             (* where each thread is                                         *)
  call,           (* its call                                                     *)
  retryCount,
  counter,        (* how many registers of the list are queued                      *)
  got,            (* the values read in this attempt, by place in the list           *)
  made            (* how many calls a thread has made                              *)

deviceVars == <<regs, queue, lock, pc, call, retryCount, counter, got, made>>

Places == {"idle", "waiting", "attempt", "queueing", "dispatching", "last", "done", "gaveup"}

Inside == Places \ {"idle", "waiting"}

(* A transaction knows the place in the list its answer is for; 0 if nobody asks. *)
Transaction == [write : BOOLEAN, reg : Registers, val : Values, place : Nat]

HwDeviceTypeOK ==
  /\ regs \in [Registers -> Values]
  /\ queue \in Seq(Transaction)
  /\ lock \in Threads \cup {NoThread}
  /\ pc \in [Threads -> Places]
  /\ call \in [Threads -> Calls]
  /\ retryCount \in [Threads -> 0..(MAX_IPBUS_RETRIES + 1)]
  /\ counter \in [Threads -> Nat] /\ DOMAIN got = Threads
  /\ \A t \in Threads :
       /\ counter[t] \in 0..Len(call[t].list)
       /\ got[t] \in [DOMAIN call[t].list -> Values \cup {NoValue}]
       /\ pc[t] \in Inside <=> lock = t
  /\ made \in [Threads -> 0..MaxCalls]

Reads(c)  == c.op \in {"readReg", "readBlock", "readRegs"}
Writes(c) == ~Reads(c)
OfList(c) == c.op \in {"readRegs", "writeRegs"}

Blank(c) == [i \in DOMAIN c.list |-> NoValue]

(* Only the list operations dispatch in between; the others do so once, at the end. *)
Freq(c) == IF OfList(c) THEN Frequency ELSE -1

-----------------------------------------------------------------------------
(* The uHAL client and the card (external).                                       *)

Read(r, i)     == [write |-> FALSE, reg |-> r, val |-> 0, place |-> i]
Write(r, v, i) == [write |-> TRUE,  reg |-> r, val |-> v, place |-> i]

Stored(r, v) == IF r \in Pulses THEN 0 ELSE v

(* The answer goes to the place that asked for it.                                *)
Answered(ans, i, v) == [j \in DOMAIN ans |-> IF j = i THEN v ELSE ans[j]]

-----------------------------------------------------------------------------
(* The transactions of the i-th register of a call: writeReg() reads before it
   writes and reads back afterwards.                                              *)
Transactions(c, i) ==
  LET r == c.list[i].reg
      v == c.list[i].val
  IN  CASE Reads(c)                                     -> <<Read(r, i)>>
        [] c.op = "writeReg" /\ r \notin WriteOnly       -> <<Read(r, i), Write(r, v, i), Read(r, i)>>
        [] Writes(c) /\ (c.op # "writeReg" \/ r \in WriteOnly) -> <<Write(r, v, i)>>

AnyCall == CHOOSE c \in Calls : TRUE

HwDeviceInit ==
  /\ regs = [r \in Registers |-> 0]
  /\ queue = <<>> /\ lock = NoThread
  /\ pc = [t \in Threads |-> "idle"]
  /\ call = [t \in Threads |-> AnyCall]
  /\ retryCount = [t \in Threads |-> 0]
  /\ counter = [t \in Threads |-> 0]
  /\ got = [t \in Threads |-> Blank(call[t])]
  /\ made = [t \in Threads |-> 0]

Goto(t, place) == pc' = [pc EXCEPT ![t] = place]

(* A thread calls and waits for the lock.                                          *)
Call(t) ==
  /\ pc[t] = "idle" /\ made[t] < MaxCalls
  /\ made' = [made EXCEPT ![t] = @ + 1]
  /\ \E c \in Calls :
       /\ call' = [call EXCEPT ![t] = c]
       /\ got' = [got EXCEPT ![t] = Blank(c)]
  /\ Goto(t, "waiting")
  /\ UNCHANGED <<regs, queue, lock, retryCount, counter>>

TakeLock(t) ==
  /\ pc[t] = "waiting" /\ lock = NoThread
  /\ lock' = t
  /\ Goto(t, "attempt")
  /\ UNCHANGED <<regs, queue, call, retryCount, counter, got, made>>

AttemptOnceMore(t) ==          (* fault: one attempt too many *)
  /\ pc[t] = "attempt" /\ retryCount[t] <= MAX_IPBUS_RETRIES
  /\ retryCount' = [retryCount EXCEPT ![t] = @ + 1]
  /\ counter' = [counter EXCEPT ![t] = 0]
  /\ got' = [got EXCEPT ![t] = Blank(call[t])]
  /\ Goto(t, "queueing")
  /\ UNCHANGED <<regs, queue, lock, call, made>>

AttemptGoesOn(t) ==            (* fault: goes on in the list where the last attempt failed *)
  /\ pc[t] = "attempt" /\ retryCount[t] < MAX_IPBUS_RETRIES
  /\ retryCount' = [retryCount EXCEPT ![t] = @ + 1]
  /\ Goto(t, "queueing")
  /\ UNCHANGED <<regs, queue, lock, call, counter, got, made>>

(* The head of the retry loop: one more attempt, with fresh answers.                *)
Attempt(t) ==
  /\ pc[t] = "attempt" /\ retryCount[t] < MAX_IPBUS_RETRIES
  /\ retryCount' = [retryCount EXCEPT ![t] = @ + 1]
  /\ counter' = [counter EXCEPT ![t] = 0]
  /\ got' = [got EXCEPT ![t] = Blank(call[t])]
  /\ Goto(t, "queueing")
  /\ UNCHANGED <<regs, queue, lock, call, made>>

GiveUp(t) ==
  /\ pc[t] = "attempt" /\ retryCount[t] >= MAX_IPBUS_RETRIES
  /\ got' = [got EXCEPT ![t] = Blank(call[t])]
  /\ Goto(t, "gaveup")
  /\ UNCHANGED <<regs, queue, lock, call, retryCount, counter, made>>

(* Within the list a dispatch is due at every multiple of the frequency.            *)
IsDue(c, n) == Freq(c) > 0 /\ n % Freq(c) = 0

QueueNext(t) ==
  LET n == counter[t] + 1
  IN  /\ pc[t] = "queueing" /\ n \in DOMAIN call[t].list
      /\ call[t].list[n].reg \in Registers
      /\ queue' = queue \o Transactions(call[t], n)
      /\ counter' = [counter EXCEPT ![t] = n]
      /\ IF IsDue(call[t], n) THEN Goto(t, "dispatching") ELSE UNCHANGED pc
      /\ UNCHANGED <<regs, lock, call, retryCount, got, made>>

(* getNode() raises: what is already queued stays in the client, and nobody will
   look at its answers.  The error is not a known one.                            *)
NameIsUnknown(t) ==
  LET n == counter[t] + 1
  IN  /\ pc[t] = "queueing" /\ n \in DOMAIN call[t].list
      /\ call[t].list[n].reg \in Unknown
      /\ queue' = [i \in DOMAIN queue |-> [queue[i] EXCEPT !.place = 0]]
      /\ Goto(t, "attempt")
      /\ UNCHANGED <<regs, lock, call, retryCount, counter, got, made>>

(* After the list: what the loop has not dispatched is dispatched now.              *)
NeedsLast(c, n) == Freq(c) < 0 \/ n % Freq(c) # 0

ListEnds(t) ==
  /\ pc[t] = "queueing" /\ counter[t] = Len(call[t].list)
  /\ Goto(t, IF NeedsLast(call[t], counter[t]) THEN "last" ELSE "done")
  /\ UNCHANGED <<regs, queue, lock, call, retryCount, counter, got, made>>

(* writeReg() compares what it read back: WriteValueMismatch.                       *)
Mismatch(c, ans) ==
  /\ c.op = "writeReg" /\ c.list[1].reg \notin WriteOnly
  /\ ans[1] # c.list[1].val

(* The client sends the next transaction and keeps the answer.                     *)
Sends(t) ==
  LET x == Head(queue)
  IN  /\ pc[t] \in {"dispatching", "last"} /\ queue # <<>>
      /\ queue' = Tail(queue)
      /\ \/ x.write /\ regs' = [regs EXCEPT ![x.reg] = Stored(x.reg, x.val)] /\ UNCHANGED got
         \/ ~x.write /\ got' = [got EXCEPT ![t] = Answered(@, x.place, regs[x.reg])] /\ UNCHANGED regs
      /\ UNCHANGED <<lock, pc, call, retryCount, counter, made>>

Dispatched(t) ==
  /\ pc[t] \in {"dispatching", "last"} /\ queue = <<>>
  /\ Goto(t, CASE pc[t] = "dispatching"                           -> "queueing"
               [] pc[t] = "last" /\ Mismatch(call[t], got[t])      -> "attempt"
               [] pc[t] = "last" /\ ~Mismatch(call[t], got[t])     -> "done")
  /\ UNCHANGED <<regs, queue, lock, call, retryCount, counter, got, made>>

(* The dispatch fails wherever it is.  A known error of a single access or a block
   counts as a second retry.                                                      *)
DispatchFails(t) ==
  /\ pc[t] \in {"dispatching", "last"}
  /\ retryCount' \in {retryCount}
       \cup IF OfList(call[t]) THEN {} ELSE {[retryCount EXCEPT ![t] = @ + 1]}
  /\ queue' = <<>>
  /\ Goto(t, "attempt")
  /\ UNCHANGED <<regs, lock, call, counter, got, made>>

(* The guard of the lock goes out of scope, and with it the locals of the access.   *)
Return(t) ==
  /\ pc[t] \in {"done", "gaveup"}
  /\ lock' = NoThread
  /\ call' = [call EXCEPT ![t] = AnyCall]
  /\ got' = [got EXCEPT ![t] = Blank(AnyCall)]
  /\ retryCount' = [retryCount EXCEPT ![t] = 0]
  /\ counter' = [counter EXCEPT ![t] = 0]
  /\ Goto(t, "idle")
  /\ UNCHANGED <<regs, queue, made>>

Proceeds(t) ==
  TakeLock(t) \/ Attempt(t) \/ GiveUp(t) \/ QueueNext(t) \/ NameIsUnknown(t) \/ ListEnds(t)
    \/ Sends(t) \/ Dispatched(t) \/ DispatchFails(t) \/ Return(t)

HwDeviceNext == \E t \in Threads : Call(t) \/ Proceeds(t)

HwDeviceSpec == HwDeviceInit /\ [][HwDeviceNext]_deviceVars

-----------------------------------------------------------------------------
(* The last place of the list at which a register is named.                        *)
LastOf(c, r) ==
  CHOOSE i \in DOMAIN c.list :
    c.list[i].reg = r /\ \A j \in DOMAIN c.list : c.list[j].reg = r => j <= i

(* When an access returns as done, the whole list it read is what the card holds at
   that moment, and the whole list it wrote is what the card keeps: one moment for
   all registers, although the list went out in several dispatches, some attempts
   failed half-way and another thread wants the same registers.                    *)
SuccessIsTrue ==
  \A t \in Threads : pc[t] = "done" =>
    \A i \in DOMAIN call[t].list :
      LET r == call[t].list[i].reg
      IN  /\ r \in Registers
          /\ Reads(call[t]) => got[t][i] = regs[r]
          /\ Writes(call[t]) => regs[r] = Stored(r, call[t].list[LastOf(call[t], r)].val)

(* An access that names only known registers leaves nothing in the client, whether
   it succeeds or gives up: no write of it is sent later with the access of
   another thread.  (An unknown name in a list does leave the writes before it, and
   an empty list whatever it found.)                                              *)
NothingIsLeftBehind ==
  \A t \in Threads :
    (/\ pc[t] \in {"done", "gaveup"} /\ call[t].list # <<>>
     /\ \A i \in DOMAIN call[t].list : call[t].list[i].reg \in Registers)
      => queue = <<>>

(* An access is over when it returns. *)
AccessIsOver == SuccessIsTrue /\ NothingIsLeftBehind
=============================================================================
