------------------------------ MODULE Bridges ------------------------------
(***************************************************************************)
(* Calls that can fail, and callbacks inside of them.  A failure reaches   *)
(* the caller in one of two ways: an exception is pending in the JVM when  *)
(* the native method returns, and is rethrown; or the method returns a     *)
(* status and the wrapper reads the engine's last error, which is one slot *)
(* per thread.  update and scan run Kotlin code inside the engine's call,  *)
(* which may throw, and may call other databases, whose errors go to the   *)
(* same slot.                                                              *)
(***************************************************************************)
EXTENDS Naturals, Sequences

CONSTANTS
  Thread,    \* Java threads
  Db,        \* databases, one collection in each
  None,      \* no exception
  MaxCalls,  \* bound: calls of a thread
  Ops        \* the operations called

ASSUME OpsAssumption == 
  Ops \subseteq {"write", "conditional", "auto", "update", "scan", "schema"}
ASSUME BoundAssumption == MaxCalls \in Nat

VARIABLES
  slot,    \* [Thread -> Nat]: the call whose failure is the last error, 0 for none
  pend,    \* [Thread -> Exception, or None]: the pending exception
  frames,  \* [Thread -> Seq(Frame)]: the calls in progress, the innermost last
  calls,   \* [Thread -> Nat]: calls begun; they number the calls
  last     \* [Thread -> the frame of the last call that returned, and what it threw]

vars == <<slot, pend, frames, calls, last>>

(* What can be thrown: an exception of the callback, of the shim (a copy,  *)
(* a conversion), or the CorvidException for the error of a call.          *)
Exception == [kind : {"user", "shim", "corvid"}, id : 0..MaxCalls]
Exc(k, n) == [kind |-> k, id |-> n]

(* A call: inside its bridge or not, the exception that was raised in it,  *)
(* whether the engine has failed it or refused its decoder a key cursor,   *)
(* what its callback returned, and what the engine has done: it wrote, or  *)
(* found that there is nothing to write.                                   *)
Frame(x, d, n) ==
  [op |-> x, db |-> d, id |-> n, pc |-> "native",
   inside |-> FALSE, raised |-> None, failed |-> FALSE, refused |-> FALSE,
   gave |-> "nothing", done |-> "nothing"]
FrameSet ==
  [op : Ops, db : Db, id : 1..MaxCalls, pc : {"native", "bridge", "user", "commit", "back"},
   inside : BOOLEAN, raised : Exception \cup {None}, failed : BOOLEAN,
   refused : BOOLEAN, gave : {"nothing", "document", "null"},
   done : {"nothing", "wrote", "idle"}]
ASSUME NoneAssumption == None \notin Exception \cup FrameSet

Top(t) == frames[t][Len(frames[t])]
At(t, p) == frames[t] # <<>> /\ Top(t).pc = p
Set(t, f) == frames' = [frames EXCEPT ![t][Len(frames[t])] = f]
Goto(t, p) == Set(t, [Top(t) EXCEPT !.pc = p])

(* The engine fails and records the error of this call. *)
Record(t) == slot' = [slot EXCEPT ![t] = Top(t).id]
EngineFails(t) ==
  /\ Record(t)
  /\ Set(t, [Top(t) EXCEPT !.pc = "back", !.failed = TRUE])
  /\ UNCHANGED <<pend, calls, last>>

(* An exception comes up, of kind k. *)
Raise(t, k) ==
  /\ pend' = [pend EXCEPT ![t] = Exc(k, Top(t).id)]
  /\ Set(t, [Top(t) EXCEPT !.pc = "back", !.raised = Exc(k, Top(t).id)])

(* One that comes up inside the callback's bridge: 0 ends a scan, which is *)
(* no failure; CORVID_ERR aborts an update, and the engine records it.     *)
Abort(t, k) ==
  /\ Raise(t, k)
  /\ IF Top(t).op = "update" THEN Record(t) ELSE UNCHANGED slot
  /\ UNCHANGED <<calls, last>>

----------------------------------------------------------------------------
(* A thread calls a method; in a callback, of another database only. *)
Begin(t, x, d) ==
  /\ frames[t] = <<>> \/ At(t, "user")
  /\ \A i \in DOMAIN frames[t] : frames[t][i].db # d
  /\ calls[t] < MaxCalls
  /\ calls' = [calls EXCEPT ![t] = @ + 1]
  /\ frames' = [frames EXCEPT ![t] = Append(@, Frame(x, d, calls[t] + 1))]
  /\ UNCHANGED <<slot, pend, last>>

(* The method of the callback cannot be resolved, or an argument not be    *)
(* copied or encoded.                                                      *)
ShimFails(t) ==
  /\ At(t, "native") /\ Top(t).op # "schema"
  /\ Raise(t, "shim")
  /\ UNCHANGED <<slot, calls, last>>

(* The engine refuses a call, or fails in a scan or in the commit of an    *)
(* update.                                                                 *)
NativeFails(t) ==
  /\ \/ At(t, "native") \/ At(t, "commit")
     \/ At(t, "bridge") /\ Top(t).op = "scan"
  /\ EngineFails(t)

(* insert, insertTTL and patch, and insertAuto. *)
Write(t) ==
  /\ At(t, "native") /\ Top(t).op \in {"write", "auto"}
  /\ Set(t, [Top(t) EXCEPT !.pc = "back", !.done = "wrote"])
  /\ UNCHANGED <<slot, pend, calls, last>>

(* compareAndSet, whose compare may fail, delete, deleteWhere and          *)
(* deleteBatch, and the others that may find nothing to do: which it was   *)
(* is their answer, and no error.                                          *)
WriteIf(t) ==
  /\ At(t, "native") /\ Top(t).op = "conditional"
  /\ \E x \in {"wrote", "idle"} : Set(t, [Top(t) EXCEPT !.pc = "back", !.done = x])
  /\ UNCHANGED <<slot, pend, calls, last>>

(* insertAuto cannot make the array of the key that the engine has given   *)
(* the document.                                                           *)
KeyFails(t) ==
  /\ At(t, "back") /\ Top(t).op = "auto" /\ Top(t).done = "wrote" /\ pend[t] = None
  /\ Raise(t, "shim")
  /\ UNCHANGED <<slot, calls, last>>

(* nSchema: an iterator, or none. *)
Schema(t) ==
  /\ At(t, "native") /\ Top(t).op = "schema"
  /\ Goto(t, "back")
  /\ UNCHANGED <<slot, pend, calls, last>>

(* corvid_update and corvid_scan call the bridge, once or for each row.    *)
EngineCallsBack(t) ==
  /\ At(t, "native") /\ Top(t).op \in {"update", "scan"}
  /\ Set(t, [Top(t) EXCEPT !.pc = "bridge", !.inside = TRUE])
  /\ UNCHANGED <<slot, pend, calls, last>>

(* The bridge has decoded the document, and invokes the callback ...       *)
Invoke(t) ==
  /\ At(t, "bridge")
  /\ Goto(t, "user")
  /\ UNCHANGED <<slot, pend, calls, last>>

(* ... or was refused the key cursor of a map in it: no exception, but a   *)
(* null in its place, and the engine's error in the slot ...               *)
DecodeRefused(t) ==
  /\ At(t, "bridge")
  /\ Record(t)
  /\ Set(t, [Top(t) EXCEPT !.pc = "user", !.refused = TRUE])
  /\ UNCHANGED <<pend, calls, last>>

(* ... or could not decode it. *)
DecodeFails(t) ==
  /\ At(t, "bridge")
  /\ Abort(t, "shim")

(* The rows of a scan are at their end. *)
ScanEnds(t) ==
  /\ At(t, "bridge") /\ Top(t).op = "scan"
  /\ Goto(t, "back")
  /\ UNCHANGED <<slot, pend, calls, last>>

(* The callback of a scan wants the next row, or not. *)
ScanAnswer(t, go) ==
  /\ At(t, "user") /\ Top(t).op = "scan"
  /\ Goto(t, IF go THEN "bridge" ELSE "back")
  /\ UNCHANGED <<slot, pend, calls, last>>

(* The callback of an update returns a document, or null to delete. *)
UpdateAnswer(t, x) ==
  /\ At(t, "user") /\ Top(t).op = "update"
  /\ Set(t, [Top(t) EXCEPT !.pc = "commit", !.gave = x])
  /\ UNCHANGED <<slot, pend, calls, last>>

(* Mutant: a document that cannot be encoded is NULL, which is to delete.  *)
EncodeFailsAsNull(t) ==
  /\ At(t, "user") /\ Top(t).op = "update"
  /\ pend' = [pend EXCEPT ![t] = Exc("shim", Top(t).id)]
  /\ Set(t, [Top(t) EXCEPT !.pc = "commit", !.raised = Exc("shim", Top(t).id)])
  /\ UNCHANGED <<slot, calls, last>>

(* Its document cannot be encoded. *)
EncodeFails(t) ==
  /\ At(t, "user") /\ Top(t).op = "update"
  /\ Abort(t, "shim")

(* Mutant: update_bridge takes the NULL of a callback that threw for null. *)
CallbackThrowsUnseen(t) ==
  /\ At(t, "user")
  /\ pend' = [pend EXCEPT ![t] = Exc("user", Top(t).id)]
  /\ Set(t, [Top(t) EXCEPT !.pc = IF Top(t).op = "update" THEN "commit" ELSE "back",
                           !.raised = Exc("user", Top(t).id)])
  /\ UNCHANGED <<slot, calls, last>>

(* Mutant: scan_bridge goes on to the next row. *)
CallbackThrowsOn(t) ==
  /\ At(t, "user")
  /\ pend' = [pend EXCEPT ![t] = Exc("user", Top(t).id)]
  /\ Set(t, [Top(t) EXCEPT !.pc = IF Top(t).op = "scan" THEN "bridge" ELSE "back",
                           !.raised = Exc("user", Top(t).id)])
  /\ UNCHANGED <<slot, calls, last>>

(* The callback throws. *)
CallbackThrows(t) ==
  /\ At(t, "user")
  /\ Abort(t, "user")

(* The engine writes what the callback of an update returned, or deletes   *)
(* the document, if there is one.                                          *)
Commit(t) ==
  /\ At(t, "commit")
  /\ \E x \in {"wrote"} \cup (IF Top(t).gave = "null" THEN {"idle"} ELSE {}) :
       Set(t, [Top(t) EXCEPT !.pc = "back", !.done = x])
  /\ UNCHANGED <<slot, pend, calls, last>>

(* Mutant: schema() throws the last error whenever it is given 0. *)
ThrownForNone(t) ==
  IF pend[t] # None THEN pend[t]
  ELSE IF Top(t).failed \/ Top(t).op = "schema" THEN Exc("corvid", slot[t])
  ELSE None

(* Mutant: only a status is looked at. *)
ThrownByStatus(t) ==
  IF Top(t).failed \/ (pend[t] # None /\ Top(t).op = "update")
    THEN Exc("corvid", slot[t]) ELSE None

(* Mutant: the wrapper of scan does not look at the status. *)
ThrownNotByScan(t) ==
  IF pend[t] # None THEN pend[t]
  ELSE IF Top(t).failed /\ Top(t).op \notin {"schema", "scan"} THEN Exc("corvid", slot[t])
  ELSE None

(* What the wrapper throws: the JVM rethrows a pending exception; a status *)
(* is checked, and the last error read.  schema() takes 0 for no schema.   *)
Thrown(t) ==
  IF pend[t] # None THEN pend[t]
  ELSE IF Top(t).failed /\ Top(t).op # "schema" THEN Exc("corvid", slot[t])
  ELSE None

(* The call returns or throws, to the client or into a callback, which     *)
(* goes on, or throws too.                                                 *)
Return(t) ==
  /\ At(t, "back")
  /\ last' = [last EXCEPT ![t] = [call |-> Top(t), threw |-> Thrown(t)]]
  /\ pend' = [pend EXCEPT ![t] = None]
  /\ frames' = [frames EXCEPT ![t] = SubSeq(@, 1, Len(@) - 1)]
  /\ UNCHANGED <<slot, calls>>

----------------------------------------------------------------------------
NoCall == [call |-> None, threw |-> None]

Init ==
  /\ slot = [t \in Thread |-> 0]
  /\ pend = [t \in Thread |-> None]
  /\ frames = [t \in Thread |-> <<>>]
  /\ calls = [t \in Thread |-> 0]
  /\ last = [t \in Thread |-> NoCall]

Next ==
  \E t \in Thread :
    \/ \E x \in Ops, d \in Db : Begin(t, x, d)
    \/ ShimFails(t) \/ NativeFails(t) \/ KeyFails(t) \/ Schema(t)
    \/ EngineCallsBack(t) \/ Invoke(t) \/ DecodeRefused(t) \/ DecodeFails(t)
    \/ ScanEnds(t) \/ Write(t) \/ WriteIf(t)
    \/ \E x \in {"document", "null"} : UpdateAnswer(t, x)
    \/ \E go \in BOOLEAN : ScanAnswer(t, go)
    \/ EncodeFails(t) \/ CallbackThrows(t) \/ Commit(t) \/ Return(t)

Spec == Init /\ [][Next]_vars

----------------------------------------------------------------------------
TypeOK ==
  /\ slot \in [Thread -> 0..MaxCalls]
  /\ pend \in [Thread -> Exception \cup {None}]
  /\ frames \in [Thread -> Seq(FrameSet)]
  /\ calls \in [Thread -> 0..MaxCalls]
  /\ last \in [Thread -> [call : FrameSet \cup {None}, threw : Exception \cup {None}]]

(* The last call of a thread that has returned is one of these. *)
Ended(t, ops) == last[t] # NoCall /\ last[t].call.op \in ops

(* "THROWING aborts (the store stays untouched ...)": a call that throws   *)
(* has written nothing, and one that does not has done what it was called  *)
(* for, however it failed and in whatever call its callback caught a       *)
(* failure before.  If that was to write nothing, the client had made it   *)
(* depend ("a failed compare is NOT an error"), or its callback returned   *)
(* null where nothing was.  insertAuto alone may have written and still    *)
(* throw an exception of the shim, for want of memory.                     *)
ThrowsOrWrites ==
  \A t \in Thread : Ended(t, {"write", "conditional", "auto", "update"}) =>
    LET call == last[t].call
        threw == last[t].threw IN
    /\ threw = None =>
         \/ call.done = "wrote"
         \/ call.done = "idle" /\ (call.op = "conditional" \/ call.gave = "null")
    /\ threw # None =>
         call.done = "nothing" \/ (call.op = "auto" /\ threw.kind = "shim")

(* "the exception surfaces here at the call site": an exception raised in  *)
(* a call, in its callback or around it, is what the call throws, never a  *)
(* CorvidException for the status that the shim returned with it.          *)
RaisedIsThrown ==
  \A t \in Thread : Ended(t, Ops) /\ last[t].call.raised # None =>
    last[t].threw = last[t].call.raised

(* "The same-call guarantee": a CorvidException tells of a failure of the  *)
(* engine in the very call that throws it, though calls inside of it, on   *)
(* other databases, have failed before it and used the same slot.          *)
ErrorIsOfThisCall ==
  \A t \in Thread : Ended(t, Ops) =>
    LET threw == last[t].threw IN
    threw # None /\ threw.kind = "corvid" =>
      last[t].call.failed /\ threw.id = last[t].call.id

(* The last error is that of the last call, if not of a refusal behind it. *)
SlotIsLast(t) ==
  \/ slot[t] = last[t].call.id
  \/ \E i \in DOMAIN frames[t] : frames[t][i].refused /\ slot[t] = frames[t][i].id

(* "the engine records ARGUMENT": behind an update whose bridge was left   *)
(* with an exception, the last error of the thread is that of the update,  *)
(* or of a call in progress whose decoder was refused a key cursor.        *)
AbortIsReadable ==
  \A t \in Thread :
    /\ Ended(t, {"update"}) /\ last[t].call.inside /\ last[t].call.raised # None
    /\ frames[t] = <<>> \/ At(t, "user")
    => SlotIsLast(t)

(* Neither the engine's bridges nor Kotlin code ever run with an exception *)
(* pending, which JNI forbids, and which the next call would throw.        *)
CallbacksRunClean ==
  \A t \in Thread : At(t, "bridge") \/ At(t, "user") => pend[t] = None

(* "The failure surface of every API call": a failure of the engine is     *)
(* thrown.  schema() throws none: null is "when none is" declared, and     *)
(* what it answers when the engine fails.  Nor does the bridge of a        *)
(* callback whose document is decoded to null for want of a key cursor.    *)
FailureIsThrown ==
  \A t \in Thread :
    Ended(t, Ops) /\ (last[t].call.failed \/ last[t].call.refused) =>
      last[t].threw # None

(* A failure that the engine returns from a call is thrown: the            *)
(* CorvidException of this very failure, wherever in the call it came,     *)
(* whatever its callback caught before and whatever was refused to its     *)
(* decoder.  That leaves the two above: schema(), and a refused key        *)
(* cursor, which is not the outcome of the call it comes up in.            *)
ReturnedIsThrown ==
  \A t \in Thread : Ended(t, Ops \ {"schema"}) /\ last[t].call.failed =>
    last[t].threw = Exc("corvid", last[t].call.id)

----------------------------------------------------------------------------
(* The inductive invariant behind them.                                    *)

(* Refusals aside, a call in progress has met no failure until it is on    *)
(* its way back, and then one at most: an exception, which is pending, or  *)
(* a failure of the engine, which is the last error; without either it has *)
(* done its work.                                                          *)
FrameOK(f, p, s) ==
  /\ f.pc # "back" => p = None /\ f.raised = None /\ ~f.failed /\ f.done = "nothing"
  /\ p = f.raised
  /\ f.raised # None =>
       /\ f.raised.kind # "corvid" /\ ~f.failed
       /\ f.done # "nothing" => f.op = "auto" /\ f.raised.kind = "shim"
       /\ f.inside /\ f.op = "update" => s = f.id
  /\ f.failed => s = f.id /\ f.done = "nothing"
  /\ f.pc = "back" /\ f.raised = None /\ ~f.failed
     /\ f.op \in {"write", "conditional", "auto", "update"} => f.done # "nothing"
  /\ f.done = "idle" => f.op = "conditional" \/ f.gave = "null"
  /\ f.pc \in {"bridge", "user"} => f.op \in {"update", "scan"}
  /\ f.pc = "commit" => f.op = "update"
  /\ f.pc = "native" => ~f.inside

(* All calls but the innermost are in their callbacks. *)
CallsNest ==
  \A t \in Thread :
    /\ frames[t] = <<>> => pend[t] = None
    /\ frames[t] # <<>> => FrameOK(Top(t), pend[t], slot[t])
    /\ \A i \in 1..(Len(frames[t]) - 1) :
         frames[t][i].pc = "user" /\ FrameOK(frames[t][i], None, 0)

(* AbortIsReadable holds until the next call is on its way back. *)
AbortStaysReadable ==
  \A t \in Thread :
    /\ Ended(t, {"update"}) /\ last[t].call.inside /\ last[t].call.raised # None
    /\ frames[t] # <<>> => Top(t).pc # "back"
    => SlotIsLast(t)

IInv ==
  /\ TypeOK /\ CallsNest
  /\ ThrowsOrWrites /\ RaisedIsThrown /\ ErrorIsOfThisCall /\ ReturnedIsThrown
  /\ AbortStaysReadable
=============================================================================
