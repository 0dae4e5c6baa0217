--------------------------- MODULE BridgesProofs ---------------------------
(***************************************************************************)
(* Proofs about Bridges, for any threads, databases and calls.  Every      *)
(* action but Begin and Return changes the innermost call of a thread, its *)
(* pending exception and its last error: one lemma covers them all.        *)
(***************************************************************************)
EXTENDS Bridges, TLAPS

(* What a stack of calls holds after its innermost call changed, one was   *)
(* put on it, and one taken off.                                           *)
LEMMA ChangeTop ==
  ASSUME NEW S, NEW q \in Seq(S), q # <<>>, NEW f \in S,
         NEW r, r = [q EXCEPT ![Len(q)] = f]
  PROVE  /\ r \in Seq(S) /\ r # <<>> /\ Len(r) = Len(q) /\ r[Len(r)] = f
         /\ \A i \in 1..(Len(q) - 1) : r[i] = q[i]
OBVIOUS

LEMMA Push ==
  ASSUME NEW S, NEW q \in Seq(S), NEW f \in S
  PROVE  /\ Append(q, f) \in Seq(S) /\ Append(q, f) # <<>>
         /\ Len(Append(q, f)) = Len(q) + 1 /\ Append(q, f)[Len(q) + 1] = f
         /\ \A i \in 1..Len(q) : Append(q, f)[i] = q[i]
OBVIOUS

LEMMA Pop ==
  ASSUME NEW S, NEW q \in Seq(S), q # <<>>
  PROVE  /\ SubSeq(q, 1, Len(q) - 1) \in Seq(S)
         /\ Len(SubSeq(q, 1, Len(q) - 1)) = Len(q) - 1
         /\ \A i \in 1..(Len(q) - 1) : SubSeq(q, 1, Len(q) - 1)[i] = q[i]
OBVIOUS

(* The innermost call of a thread is one of its calls. *)
LEMMA TopIsAFrame ==
  ASSUME TypeOK, NEW t \in Thread, frames[t] # <<>>
  PROVE  Top(t) \in FrameSet /\ Len(frames[t]) \in Nat \ {0}
BY DEF TypeOK, Top

(* A step of the innermost call of t, that leaves f of it, p pending and s *)
(* as the last error.                                                      *)
LEMMA FrameStep ==
  ASSUME IInv, NEW t \in Thread, frames[t] # <<>>,
         NEW f \in FrameSet, Set(t, f),
         NEW p \in Exception \cup {None}, pend' = [pend EXCEPT ![t] = p],
         NEW s \in 0..MaxCalls, slot' = [slot EXCEPT ![t] = s],
         FrameOK(f, p, s),
         f.id = Top(t).id, Top(t).refused => f.refused,
         f.pc # "back" =>
           Top(t).pc # "back" /\ (s = slot[t] \/ (f.refused /\ s = f.id)),
         UNCHANGED <<calls, last>>
  PROVE  IInv'
<1> USE NoneAssumption, BoundAssumption
<1>a. TypeOK
  BY DEF IInv
<1>b. /\ frames'[t] = [frames[t] EXCEPT ![Len(frames[t])] = f]
      /\ \A u \in Thread : u # t => frames'[u] = frames[u]
  BY <1>a DEF TypeOK, Set
<1>c. /\ frames'[t] \in Seq(FrameSet) /\ frames'[t] # <<>>
      /\ Len(frames'[t]) = Len(frames[t]) /\ frames'[t][Len(frames'[t])] = f
      /\ \A i \in 1..(Len(frames[t]) - 1) : frames'[t][i] = frames[t][i]
  <2>1. frames[t] \in Seq(FrameSet)
    BY <1>a DEF TypeOK
  <2> QED
    BY <1>b, <2>1, ChangeTop
<1>d. Top(t)' = f /\ \A u \in Thread : u # t => Top(u)' = Top(u)
  BY <1>b, <1>c DEF Top
<1>e. /\ pend'[t] = p /\ slot'[t] = s
      /\ \A u \in Thread : u # t => pend'[u] = pend[u] /\ slot'[u] = slot[u]
  BY <1>a DEF TypeOK
<1>1. TypeOK'
  <2>1. frames' \in [Thread -> Seq(FrameSet)]
    BY <1>a, <1>c DEF TypeOK, Set
  <2> QED
    BY <1>a, <2>1 DEF TypeOK
<1>2. CallsNest'
  <2> SUFFICES ASSUME NEW u \in Thread
               PROVE  /\ frames'[u] = <<>> => pend'[u] = None
                      /\ frames'[u] # <<>> => FrameOK(Top(u)', pend'[u], slot'[u])
                      /\ \A i \in 1..(Len(frames'[u]) - 1) :
                           frames'[u][i].pc = "user" /\ FrameOK(frames'[u][i], None, 0)
    BY DEF CallsNest
  <2>1. CASE u = t
    BY <1>c, <1>d, <1>e, <2>1 DEF IInv, CallsNest
  <2>2. CASE u # t
    BY <1>b, <1>d, <1>e, <2>2 DEF IInv, CallsNest
  <2> QED
    BY <2>1, <2>2
<1>3. ThrowsOrWrites' /\ RaisedIsThrown' /\ ErrorIsOfThisCall' /\ ReturnedIsThrown'
  BY DEF IInv, ThrowsOrWrites, RaisedIsThrown, ErrorIsOfThisCall, ReturnedIsThrown, Ended
<1>4. AbortStaysReadable'
  <2> SUFFICES ASSUME NEW u \in Thread, Ended(u, {"update"}),
                      last[u].call.inside, last[u].call.raised # None,
                      frames'[u] # <<>> => Top(u)'.pc # "back"
               PROVE  \/ slot'[u] = last[u].call.id
                      \/ \E i \in DOMAIN frames'[u] :
                           frames'[u][i].refused /\ slot'[u] = frames'[u][i].id
    BY DEF AbortStaysReadable, Ended, SlotIsLast
  <2>1. CASE u = t
    <3>1. f.pc # "back" /\ Top(t).pc # "back"
      BY <1>c, <1>d, <2>1
    <3>2. /\ Len(frames'[t]) = Len(frames[t]) /\ Len(frames[t]) \in Nat \ {0}
          /\ DOMAIN frames'[t] = 1..Len(frames[t]) /\ DOMAIN frames[t] = 1..Len(frames[t])
          /\ frames'[t][Len(frames[t])] = f
      BY <1>a, <1>c DEF TypeOK
    <3>3. CASE s = slot[t]
      <4>1. CASE slot[t] = last[t].call.id
        BY <1>e, <2>1, <3>3, <4>1
      <4>2. ASSUME NEW i \in DOMAIN frames[t],
                   frames[t][i].refused /\ slot[t] = frames[t][i].id
            PROVE  i \in DOMAIN frames'[t] /\ frames'[t][i].refused
                     /\ slot'[t] = frames'[t][i].id
        <5>1. CASE i = Len(frames[t])
          BY <1>e, <3>2, <3>3, <4>2, <5>1 DEF Top
        <5>2. CASE i # Len(frames[t])
          BY <1>c, <1>e, <3>2, <3>3, <4>2, <5>2
        <5> QED
          BY <5>1, <5>2
      <4>3. SlotIsLast(t)
        BY <2>1, <3>1 DEF IInv, AbortStaysReadable
      <4> QED
        BY <2>1, <4>1, <4>2, <4>3 DEF SlotIsLast
    <3>4. CASE f.refused /\ s = f.id
      BY <1>e, <2>1, <3>2, <3>4
    <3> QED
      BY <3>1, <3>3, <3>4
  <2>2. CASE u # t
    BY <1>b, <1>d, <1>e, <2>2 DEF IInv, AbortStaysReadable, SlotIsLast
  <2> QED
    BY <2>1, <2>2
<1> QED
  BY <1>1, <1>2, <1>3, <1>4 DEF IInv

(* A call begins. *)
LEMMA BeginStep ==
  ASSUME IInv, NEW t \in Thread, NEW x \in Ops, NEW d \in Db, Begin(t, x, d)
  PROVE  IInv'
<1> USE NoneAssumption, BoundAssumption
<1> DEFINE f == Frame(x, d, calls[t] + 1)
<1>a. TypeOK
  BY DEF IInv
<1>f. /\ f \in FrameSet /\ f.pc = "native" /\ ~f.inside /\ f.raised = None
      /\ ~f.failed /\ f.done = "nothing"
  BY <1>a DEF TypeOK, Begin, Frame, FrameSet
<1> HIDE DEF f
<1>b. /\ frames'[t] = Append(frames[t], f)
      /\ \A u \in Thread : u # t => frames'[u] = frames[u]
  BY <1>a DEF TypeOK, Begin, f
<1>c. /\ frames'[t] \in Seq(FrameSet) /\ frames'[t] # <<>>
      /\ Len(frames'[t]) = Len(frames[t]) + 1 /\ frames'[t][Len(frames[t]) + 1] = f
      /\ \A i \in 1..Len(frames[t]) : frames'[t][i] = frames[t][i]
  <2>1. frames[t] \in Seq(FrameSet)
    BY <1>a DEF TypeOK
  <2> QED
    BY <1>b, <1>f, <2>1, Push
<1>d. Top(t)' = f /\ \A u \in Thread : u # t => Top(u)' = Top(u)
  BY <1>b, <1>c DEF Top
<1>e. UNCHANGED <<slot, pend, last>>
  BY DEF Begin
<1>g. frames[t] = <<>> \/ (frames[t] # <<>> /\ Top(t).pc = "user")
  BY DEF Begin, At
<1>1. TypeOK'
  <2>1. frames' \in [Thread -> Seq(FrameSet)]
    BY <1>a, <1>c DEF TypeOK, Begin
  <2> QED
    BY <1>a, <1>e, <2>1 DEF TypeOK, Begin
<1>2. CallsNest'
  <2> SUFFICES ASSUME NEW u \in Thread
               PROVE  /\ frames'[u] = <<>> => pend[u] = None
                      /\ frames'[u] # <<>> => FrameOK(Top(u)', pend[u], slot[u])
                      /\ \A i \in 1..(Len(frames'[u]) - 1) :
                           frames'[u][i].pc = "user" /\ FrameOK(frames'[u][i], None, 0)
    BY <1>e DEF CallsNest
  <2>1. CASE u = t
    <3>1. pend[t] = None
      BY <1>g DEF IInv, CallsNest, FrameOK
    <3>2. FrameOK(f, None, slot[t])
      BY <1>f DEF FrameOK
    <3>3. ASSUME NEW i \in 1..Len(frames[t])
          PROVE  frames[t][i].pc = "user" /\ FrameOK(frames[t][i], None, 0)
      <4>1. CASE i = Len(frames[t])
        BY <1>a, <1>g, <4>1 DEF IInv, CallsNest, FrameOK, Top, TypeOK
      <4>2. CASE i # Len(frames[t])
        BY <1>a, <4>2 DEF IInv, CallsNest, TypeOK
      <4> QED
        BY <4>1, <4>2
    <3>4. Len(frames[t]) \in Nat
      BY <1>a DEF TypeOK
    <3> QED
      BY <1>c, <1>d, <2>1, <3>1, <3>2, <3>3, <3>4
  <2>2. CASE u # t
    BY <1>b, <1>d, <2>2 DEF IInv, CallsNest
  <2> QED
    BY <2>1, <2>2
<1>3. ThrowsOrWrites' /\ RaisedIsThrown' /\ ErrorIsOfThisCall' /\ ReturnedIsThrown'
  BY <1>e
  DEF IInv, ThrowsOrWrites, RaisedIsThrown, ErrorIsOfThisCall, ReturnedIsThrown, Ended
<1>4. AbortStaysReadable'
  <2> SUFFICES ASSUME NEW u \in Thread, Ended(u, {"update"}),
                      last[u].call.inside, last[u].call.raised # None,
                      frames'[u] # <<>> => Top(u)'.pc # "back"
               PROVE  \/ slot[u] = last[u].call.id
                      \/ \E i \in DOMAIN frames'[u] :
                           frames'[u][i].refused /\ slot[u] = frames'[u][i].id
    BY <1>e DEF AbortStaysReadable, Ended, SlotIsLast
  <2>1. CASE u = t
    <3>1. SlotIsLast(t)
      BY <1>g, <2>1 DEF IInv, AbortStaysReadable
    <3>2. /\ DOMAIN frames[t] = 1..Len(frames[t]) /\ Len(frames[t]) \in Nat
          /\ DOMAIN frames'[t] = 1..(Len(frames[t]) + 1)
      BY <1>a, <1>c DEF TypeOK
    <3>3. \A i \in DOMAIN frames[t] : i \in DOMAIN frames'[t] /\ frames'[t][i] = frames[t][i]
      BY <1>c, <3>2
    <3> QED
      BY <2>1, <3>1, <3>3 DEF SlotIsLast
  <2>2. CASE u # t
    BY <1>b, <1>d, <2>2 DEF IInv, AbortStaysReadable, SlotIsLast
  <2> QED
    BY <2>1, <2>2
<1> QED
  BY <1>1, <1>2, <1>3, <1>4 DEF IInv

(* A call returns, and the one it was made from goes on. *)
LEMMA ReturnStep ==
  ASSUME IInv, NEW t \in Thread, Return(t)
  PROVE  IInv'
<1> USE NoneAssumption, BoundAssumption
<1> DEFINE f == Top(t)
<1>a. TypeOK
  BY DEF IInv
<1>f. /\ f \in FrameSet /\ f.pc = "back" /\ FrameOK(f, pend[t], slot[t])
      /\ frames[t] \in Seq(FrameSet) /\ frames[t] # <<>>
  BY <1>a, TopIsAFrame DEF Return, At, IInv, CallsNest, TypeOK
<1> DEFINE w == Thrown(t)
<1>w. w = IF f.raised # None THEN f.raised
          ELSE IF f.failed /\ f.op # "schema" THEN Exc("corvid", f.id) ELSE None
  BY <1>f DEF Thrown, FrameOK
<1>v. w \in Exception \cup {None}
  <2>1. f.id \in 0..MaxCalls /\ f.raised \in Exception \cup {None}
    BY <1>f DEF FrameSet
  <2> QED
    BY <1>w, <2>1 DEF Exc, Exception
<1>b. /\ frames'[t] = SubSeq(frames[t], 1, Len(frames[t]) - 1)
      /\ \A u \in Thread : u # t => frames'[u] = frames[u]
  BY <1>a DEF TypeOK, Return
<1>c. /\ frames'[t] \in Seq(FrameSet) /\ Len(frames'[t]) = Len(frames[t]) - 1
      /\ \A i \in 1..(Len(frames[t]) - 1) : frames'[t][i] = frames[t][i]
      /\ Len(frames[t]) \in Nat \ {0}
  BY <1>b, <1>f, Pop
<1>d. \A u \in Thread : u # t => Top(u)' = Top(u)
  BY <1>b DEF Top
<1>e. /\ pend'[t] = None /\ UNCHANGED <<slot, calls>>
      /\ \A u \in Thread : u # t => pend'[u] = pend[u]
  BY <1>a DEF TypeOK, Return
<1>g. frames'[t] # <<>> =>
        Top(t)'.pc = "user" /\ FrameOK(Top(t)', None, 0)
  <2> SUFFICES ASSUME frames'[t] # <<>>
               PROVE  Top(t)'.pc = "user" /\ FrameOK(Top(t)', None, 0)
    OBVIOUS
  <2>1. Len(frames[t]) - 1 \in 1..(Len(frames[t]) - 1)
    BY <1>c
  <2>2. Top(t)' = frames[t][Len(frames[t]) - 1]
    BY <1>c, <2>1 DEF Top
  <2> QED
    BY <2>1, <2>2 DEF IInv, CallsNest
<1>h. /\ last'[t] = [call |-> f, threw |-> w]
      /\ \A u \in Thread : u # t => last'[u] = last[u]
  BY <1>a DEF TypeOK, Return
<1> HIDE DEF f, w
<1>1. TypeOK'
  <2>1. frames' \in [Thread -> Seq(FrameSet)]
    BY <1>a, <1>c DEF TypeOK, Return
  <2>2. pend' \in [Thread -> Exception \cup {None}]
    BY <1>a DEF TypeOK, Return
  <2>3. last' \in [Thread -> [call : FrameSet \cup {None}, threw : Exception \cup {None}]]
    BY <1>a, <1>f, <1>v DEF TypeOK, Return, f, w
  <2> QED
    BY <1>a, <1>e, <2>1, <2>2, <2>3 DEF TypeOK
<1>2. CallsNest'
  <2> SUFFICES ASSUME NEW u \in Thread
               PROVE  /\ frames'[u] = <<>> => pend'[u] = None
                      /\ frames'[u] # <<>> => FrameOK(Top(u)', pend'[u], slot[u])
                      /\ \A i \in 1..(Len(frames'[u]) - 1) :
                           frames'[u][i].pc = "user" /\ FrameOK(frames'[u][i], None, 0)
    BY <1>e DEF CallsNest
  <2>1. CASE u = t
    <3>1. frames'[t] # <<>> => FrameOK(Top(t)', None, slot[t])
      BY <1>g DEF FrameOK
    <3>2. \A i \in 1..(Len(frames'[t]) - 1) :
             frames'[t][i].pc = "user" /\ FrameOK(frames'[t][i], None, 0)
      <4>1. \A i \in 1..(Len(frames'[t]) - 1) : i \in 1..(Len(frames[t]) - 1)
        BY <1>c
      <4> QED
        BY <1>c, <4>1 DEF IInv, CallsNest
    <3> QED
      BY <1>e, <2>1, <3>1, <3>2
  <2>2. CASE u # t
    BY <1>b, <1>d, <1>e, <2>2 DEF IInv, CallsNest
  <2> QED
    BY <2>1, <2>2
<1>3. ThrowsOrWrites'
  <2> SUFFICES ASSUME NEW u \in Thread,
                      Ended(u, {"write", "conditional", "auto", "update"})'
               PROVE  /\ last'[u].threw = None =>
                           \/ last'[u].call.done = "wrote"
                           \/ /\ last'[u].call.done = "idle"
                              /\ last'[u].call.op = "conditional" \/ last'[u].call.gave = "null"
                      /\ last'[u].threw # None =>
                           \/ last'[u].call.done = "nothing"
                           \/ last'[u].call.op = "auto" /\ last'[u].threw.kind = "shim"
    BY DEF ThrowsOrWrites
  <2>1. CASE u = t
    <3>1. f.op \in {"write", "conditional", "auto", "update"}
      BY <1>h, <2>1 DEF Ended
    <3>2. Exc("corvid", f.id) # None
      BY <1>f, NoneAssumption DEF Exc, Exception, FrameSet
    <3>3. /\ f.done \in {"nothing", "wrote", "idle"} /\ FrameOK(f, pend[t], slot[t])
          /\ f.pc = "back"
      BY <1>f DEF FrameSet
    <3>4. CASE f.raised # None
      BY <1>h, <1>w, <2>1, <3>3, <3>4 DEF FrameOK
    <3>5. CASE f.raised = None /\ f.failed
      BY <1>h, <1>w, <2>1, <3>1, <3>2, <3>3, <3>5 DEF FrameOK
    <3>6. CASE f.raised = None /\ ~f.failed
      <4>1. w = None /\ f.done # "nothing" /\ (f.done = "idle" => f.op = "conditional" \/ f.gave = "null")
        BY <1>w, <3>1, <3>3, <3>6 DEF FrameOK
      <4> QED
        BY <1>h, <2>1, <3>3, <4>1
    <3> QED
      BY <3>4, <3>5, <3>6
  <2>2. CASE u # t
    BY <1>h, <2>2 DEF IInv, ThrowsOrWrites, Ended, NoCall
  <2> QED
    BY <2>1, <2>2
<1>4. RaisedIsThrown'
  BY <1>h, <1>w DEF IInv, RaisedIsThrown, Ended, NoCall
<1>5. ErrorIsOfThisCall'
  <2> SUFFICES ASSUME NEW u \in Thread, Ended(u, Ops)', last'[u].threw # None,
                      last'[u].threw.kind = "corvid"
               PROVE  last'[u].call.failed /\ last'[u].threw.id = last'[u].call.id
    BY DEF ErrorIsOfThisCall
  <2>1. CASE u = t
    BY <1>f, <1>h, <1>w, <2>1 DEF FrameOK, Exc
  <2>2. CASE u # t
    BY <1>h, <2>2 DEF IInv, ErrorIsOfThisCall, Ended, NoCall
  <2> QED
    BY <2>1, <2>2
<1>6. ReturnedIsThrown'
  <2> SUFFICES ASSUME NEW u \in Thread, Ended(u, Ops \ {"schema"})', last'[u].call.failed
               PROVE  last'[u].threw = Exc("corvid", last'[u].call.id)
    BY DEF ReturnedIsThrown
  <2>1. CASE u = t
    BY <1>f, <1>h, <1>w, <2>1 DEF FrameOK, Ended
  <2>2. CASE u # t
    BY <1>h, <2>2 DEF IInv, ReturnedIsThrown, Ended, NoCall
  <2> QED
    BY <2>1, <2>2
<1>7. AbortStaysReadable'
  <2> SUFFICES ASSUME NEW u \in Thread, Ended(u, {"update"})',
                      last'[u].call.inside, last'[u].call.raised # None,
                      frames'[u] # <<>> => Top(u)'.pc # "back"
               PROVE  \/ slot[u] = last'[u].call.id
                      \/ \E i \in DOMAIN frames'[u] :
                           frames'[u][i].refused /\ slot[u] = frames'[u][i].id
    BY <1>e DEF AbortStaysReadable, SlotIsLast
  <2>1. CASE u = t
    BY <1>f, <1>h, <2>1 DEF FrameOK, Ended
  <2>2. CASE u # t
    BY <1>b, <1>d, <1>h, <2>2 DEF IInv, AbortStaysReadable, SlotIsLast, Ended, NoCall
  <2> QED
    BY <2>1, <2>2
<1> QED
  BY <1>1, <1>2, <1>3, <1>4, <1>5, <1>6, <1>7 DEF IInv

LEMMA Initially == Init => IInv
<1> SUFFICES ASSUME Init PROVE IInv
  OBVIOUS
<1> USE BoundAssumption, NoneAssumption
<1>1. TypeOK
  BY DEF Init, TypeOK, NoCall
<1>2. CallsNest
  <2>1. \A t \in Thread : frames[t] = <<>> /\ pend[t] = None
    BY DEF Init
  <2>2. \A i : i \notin 1..(Len(<<>>) - 1)
    OBVIOUS
  <2> QED
    BY <2>1, <2>2, Zenon DEF CallsNest
<1>3. \A t \in Thread : \A ops : ~Ended(t, ops)
  BY DEF Init, Ended
<1> QED
  BY <1>1, <1>2, <1>3 DEF IInv, ThrowsOrWrites, RaisedIsThrown, ErrorIsOfThisCall,
     ReturnedIsThrown, AbortStaysReadable

LEMMA Inductively == IInv /\ [Next]_vars => IInv'
<1> SUFFICES ASSUME IInv, [Next]_vars PROVE IInv'
  OBVIOUS
<1> USE BoundAssumption, NoneAssumption
<1>a. TypeOK
  BY DEF IInv
<1>f. ASSUME NEW t \in Thread, frames[t] # <<>>
      PROVE  /\ Top(t) \in FrameSet /\ FrameOK(Top(t), pend[t], slot[t])
             /\ pend[t] \in Exception \cup {None} /\ slot[t] \in 0..MaxCalls
             /\ pend = [pend EXCEPT ![t] = pend[t]] /\ slot = [slot EXCEPT ![t] = slot[t]]
             /\ Top(t).id \in 0..MaxCalls
             /\ \A k \in {"user", "shim"} :
                  /\ Exc(k, Top(t).id) \in Exception /\ Exc(k, Top(t).id) # None
                  /\ Exc(k, Top(t).id).kind = k
  <2>1. Top(t) \in FrameSet
    BY <1>a, <1>f, TopIsAFrame
  <2>2. Top(t).id \in 0..MaxCalls
    BY <2>1 DEF FrameSet
  <2>3. FrameOK(Top(t), pend[t], slot[t])
    BY <1>f DEF IInv, CallsNest
  <2> QED
    BY <1>a, <2>1, <2>2, <2>3 DEF TypeOK, Exc, Exception
<1>1. ASSUME NEW t \in Thread, ShimFails(t) PROVE IInv'
  <2> DEFINE f == [Top(t) EXCEPT !.pc = "back", !.raised = Exc("shim", Top(t).id)]
             p == Exc("shim", Top(t).id)
             s == slot[t]
  <2>1. /\ frames[t] # <<>> /\ Set(t, f)
        /\ pend' = [pend EXCEPT ![t] = p] /\ slot' = [slot EXCEPT ![t] = s]
        /\ UNCHANGED <<calls, last>>
    BY <1>f, <1>1 DEF ShimFails, At, Raise
  <2>2. f \in FrameSet /\ p \in Exception \cup {None} /\ s \in 0..MaxCalls
    BY <1>f, <2>1 DEF FrameSet
  <2>3. /\ FrameOK(f, p, s) /\ f.id = Top(t).id /\ (Top(t).refused => f.refused)
        /\ f.pc # "back" =>
             Top(t).pc # "back" /\ (s = slot[t] \/ (f.refused /\ s = f.id))
    BY <1>f, <1>1, <2>1 DEF ShimFails, At, FrameSet, FrameOK
  <2> HIDE DEF f, p, s
  <2> QED
    BY <2>1, <2>2, <2>3, FrameStep
<1>2. ASSUME NEW t \in Thread, NativeFails(t) PROVE IInv'
  <2> DEFINE f == [Top(t) EXCEPT !.pc = "back", !.failed = TRUE]
             p == pend[t]
             s == Top(t).id
  <2>1. /\ frames[t] # <<>> /\ Set(t, f)
        /\ pend' = [pend EXCEPT ![t] = p] /\ slot' = [slot EXCEPT ![t] = s]
        /\ UNCHANGED <<calls, last>>
    BY <1>f, <1>2 DEF NativeFails, At, EngineFails, Record
  <2>2. f \in FrameSet /\ p \in Exception \cup {None} /\ s \in 0..MaxCalls
    BY <1>f, <2>1 DEF FrameSet
  <2>3. /\ FrameOK(f, p, s) /\ f.id = Top(t).id /\ (Top(t).refused => f.refused)
        /\ f.pc # "back" =>
             Top(t).pc # "back" /\ (s = slot[t] \/ (f.refused /\ s = f.id))
    BY <1>f, <1>2, <2>1 DEF NativeFails, At, FrameSet, FrameOK
  <2> HIDE DEF f, p, s
  <2> QED
    BY <2>1, <2>2, <2>3, FrameStep
<1>3. ASSUME NEW t \in Thread, KeyFails(t) PROVE IInv'
  <2> DEFINE f == [Top(t) EXCEPT !.pc = "back", !.raised = Exc("shim", Top(t).id)]
             p == Exc("shim", Top(t).id)
             s == slot[t]
  <2>1. /\ frames[t] # <<>> /\ Set(t, f)
        /\ pend' = [pend EXCEPT ![t] = p] /\ slot' = [slot EXCEPT ![t] = s]
        /\ UNCHANGED <<calls, last>>
    BY <1>f, <1>3 DEF KeyFails, At, Raise
  <2>2. f \in FrameSet /\ p \in Exception \cup {None} /\ s \in 0..MaxCalls
    BY <1>f, <2>1 DEF FrameSet
  <2>3. /\ FrameOK(f, p, s) /\ f.id = Top(t).id /\ (Top(t).refused => f.refused)
        /\ f.pc # "back" =>
             Top(t).pc # "back" /\ (s = slot[t] \/ (f.refused /\ s = f.id))
    BY <1>f, <1>3, <2>1 DEF KeyFails, At, FrameSet, FrameOK
  <2> HIDE DEF f, p, s
  <2> QED
    BY <2>1, <2>2, <2>3, FrameStep
<1>4. ASSUME NEW t \in Thread, Schema(t) PROVE IInv'
  <2> DEFINE f == [Top(t) EXCEPT !.pc = "back"]
             p == pend[t]
             s == slot[t]
  <2>1. /\ frames[t] # <<>> /\ Set(t, f)
        /\ pend' = [pend EXCEPT ![t] = p] /\ slot' = [slot EXCEPT ![t] = s]
        /\ UNCHANGED <<calls, last>>
    BY <1>f, <1>4 DEF Schema, At, Goto
  <2>2. f \in FrameSet /\ p \in Exception \cup {None} /\ s \in 0..MaxCalls
    BY <1>f, <2>1 DEF FrameSet
  <2>3. /\ FrameOK(f, p, s) /\ f.id = Top(t).id /\ (Top(t).refused => f.refused)
        /\ f.pc # "back" =>
             Top(t).pc # "back" /\ (s = slot[t] \/ (f.refused /\ s = f.id))
    BY <1>f, <1>4, <2>1 DEF Schema, At, FrameSet, FrameOK
  <2> HIDE DEF f, p, s
  <2> QED
    BY <2>1, <2>2, <2>3, FrameStep
<1>5. ASSUME NEW t \in Thread, EngineCallsBack(t) PROVE IInv'
  <2> DEFINE f == [Top(t) EXCEPT !.pc = "bridge", !.inside = TRUE]
             p == pend[t]
             s == slot[t]
  <2>1. /\ frames[t] # <<>> /\ Set(t, f)
        /\ pend' = [pend EXCEPT ![t] = p] /\ slot' = [slot EXCEPT ![t] = s]
        /\ UNCHANGED <<calls, last>>
    BY <1>f, <1>5 DEF EngineCallsBack, At
  <2>2. f \in FrameSet /\ p \in Exception \cup {None} /\ s \in 0..MaxCalls
    BY <1>f, <2>1 DEF FrameSet
  <2>3. /\ FrameOK(f, p, s) /\ f.id = Top(t).id /\ (Top(t).refused => f.refused)
        /\ f.pc # "back" =>
             Top(t).pc # "back" /\ (s = slot[t] \/ (f.refused /\ s = f.id))
    BY <1>f, <1>5, <2>1 DEF EngineCallsBack, At, FrameSet, FrameOK
  <2> HIDE DEF f, p, s
  <2> QED
    BY <2>1, <2>2, <2>3, FrameStep
<1>6. ASSUME NEW t \in Thread, Invoke(t) PROVE IInv'
  <2> DEFINE f == [Top(t) EXCEPT !.pc = "user"]
             p == pend[t]
             s == slot[t]
  <2>1. /\ frames[t] # <<>> /\ Set(t, f)
        /\ pend' = [pend EXCEPT ![t] = p] /\ slot' = [slot EXCEPT ![t] = s]
        /\ UNCHANGED <<calls, last>>
    BY <1>f, <1>6 DEF Invoke, At, Goto
  <2>2. f \in FrameSet /\ p \in Exception \cup {None} /\ s \in 0..MaxCalls
    BY <1>f, <2>1 DEF FrameSet
  <2>3. /\ FrameOK(f, p, s) /\ f.id = Top(t).id /\ (Top(t).refused => f.refused)
        /\ f.pc # "back" =>
             Top(t).pc # "back" /\ (s = slot[t] \/ (f.refused /\ s = f.id))
    BY <1>f, <1>6, <2>1 DEF Invoke, At, FrameSet, FrameOK
  <2> HIDE DEF f, p, s
  <2> QED
    BY <2>1, <2>2, <2>3, FrameStep
<1>7. ASSUME NEW t \in Thread, DecodeFails(t) PROVE IInv'
  <2> DEFINE f == [Top(t) EXCEPT !.pc = "back", !.raised = Exc("shim", Top(t).id)]
             p == Exc("shim", Top(t).id)
             s == IF Top(t).op = "update" THEN Top(t).id ELSE slot[t]
  <2>1. /\ frames[t] # <<>> /\ Set(t, f)
        /\ pend' = [pend EXCEPT ![t] = p] /\ slot' = [slot EXCEPT ![t] = s]
        /\ UNCHANGED <<calls, last>>
    BY <1>f, <1>7 DEF DecodeFails, At, Abort, Raise, Record
  <2>2. f \in FrameSet /\ p \in Exception \cup {None} /\ s \in 0..MaxCalls
    BY <1>f, <2>1 DEF FrameSet
  <2>3. /\ FrameOK(f, p, s) /\ f.id = Top(t).id /\ (Top(t).refused => f.refused)
        /\ f.pc # "back" =>
             Top(t).pc # "back" /\ (s = slot[t] \/ (f.refused /\ s = f.id))
    BY <1>f, <1>7, <2>1 DEF DecodeFails, At, FrameSet, FrameOK
  <2> HIDE DEF f, p, s
  <2> QED
    BY <2>1, <2>2, <2>3, FrameStep
<1>8. ASSUME NEW t \in Thread, ScanEnds(t) PROVE IInv'
  <2> DEFINE f == [Top(t) EXCEPT !.pc = "back"]
             p == pend[t]
             s == slot[t]
  <2>1. /\ frames[t] # <<>> /\ Set(t, f)
        /\ pend' = [pend EXCEPT ![t] = p] /\ slot' = [slot EXCEPT ![t] = s]
        /\ UNCHANGED <<calls, last>>
    BY <1>f, <1>8 DEF ScanEnds, At, Goto
  <2>2. f \in FrameSet /\ p \in Exception \cup {None} /\ s \in 0..MaxCalls
    BY <1>f, <2>1 DEF FrameSet
  <2>3. /\ FrameOK(f, p, s) /\ f.id = Top(t).id /\ (Top(t).refused => f.refused)
        /\ f.pc # "back" =>
             Top(t).pc # "back" /\ (s = slot[t] \/ (f.refused /\ s = f.id))
    BY <1>f, <1>8, <2>1 DEF ScanEnds, At, FrameSet, FrameOK
  <2> HIDE DEF f, p, s
  <2> QED
    BY <2>1, <2>2, <2>3, FrameStep
<1>9. ASSUME NEW t \in Thread, Write(t) PROVE IInv'
  <2> DEFINE f == [Top(t) EXCEPT !.pc = "back", !.done = "wrote"]
             p == pend[t]
             s == slot[t]
  <2>1. /\ frames[t] # <<>> /\ Set(t, f)
        /\ pend' = [pend EXCEPT ![t] = p] /\ slot' = [slot EXCEPT ![t] = s]
        /\ UNCHANGED <<calls, last>>
    BY <1>f, <1>9 DEF Write, At
  <2>2. f \in FrameSet /\ p \in Exception \cup {None} /\ s \in 0..MaxCalls
    BY <1>f, <2>1 DEF FrameSet
  <2>3. /\ FrameOK(f, p, s) /\ f.id = Top(t).id /\ (Top(t).refused => f.refused)
        /\ f.pc # "back" =>
             Top(t).pc # "back" /\ (s = slot[t] \/ (f.refused /\ s = f.id))
    BY <1>f, <1>9, <2>1 DEF Write, At, FrameSet, FrameOK
  <2> HIDE DEF f, p, s
  <2> QED
    BY <2>1, <2>2, <2>3, FrameStep
<1>10. ASSUME NEW t \in Thread, NEW x \in {"document", "null"}, UpdateAnswer(t, x)
       PROVE  IInv'
  <2> DEFINE f == [Top(t) EXCEPT !.pc = "commit", !.gave = x]
             p == pend[t]
             s == slot[t]
  <2>1. /\ frames[t] # <<>> /\ Set(t, f)
        /\ pend' = [pend EXCEPT ![t] = p] /\ slot' = [slot EXCEPT ![t] = s]
        /\ UNCHANGED <<calls, last>>
    BY <1>f, <1>10 DEF UpdateAnswer, At, Goto
  <2>2. f \in FrameSet /\ p \in Exception \cup {None} /\ s \in 0..MaxCalls
    BY <1>f, <2>1 DEF FrameSet
  <2>3. /\ FrameOK(f, p, s) /\ f.id = Top(t).id /\ (Top(t).refused => f.refused)
        /\ f.pc # "back" =>
             Top(t).pc # "back" /\ (s = slot[t] \/ (f.refused /\ s = f.id))
    BY <1>f, <1>10, <2>1 DEF UpdateAnswer, At, FrameSet, FrameOK
  <2> HIDE DEF f, p, s
  <2> QED
    BY <2>1, <2>2, <2>3, FrameStep
<1>11. ASSUME NEW t \in Thread, NEW go \in BOOLEAN, ScanAnswer(t, go) PROVE IInv'
  <2> DEFINE f == [Top(t) EXCEPT !.pc = IF go THEN "bridge" ELSE "back"]
             p == pend[t]
             s == slot[t]
  <2>1. /\ frames[t] # <<>> /\ Set(t, f)
        /\ pend' = [pend EXCEPT ![t] = p] /\ slot' = [slot EXCEPT ![t] = s]
        /\ UNCHANGED <<calls, last>>
    BY <1>f, <1>11 DEF ScanAnswer, At, Goto
  <2>2. f \in FrameSet /\ p \in Exception \cup {None} /\ s \in 0..MaxCalls
    BY <1>f, <2>1 DEF FrameSet
  <2>3. /\ FrameOK(f, p, s) /\ f.id = Top(t).id /\ (Top(t).refused => f.refused)
        /\ f.pc # "back" =>
             Top(t).pc # "back" /\ (s = slot[t] \/ (f.refused /\ s = f.id))
    BY <1>f, <1>11, <2>1 DEF ScanAnswer, At, FrameSet, FrameOK
  <2> HIDE DEF f, p, s
  <2> QED
    BY <2>1, <2>2, <2>3, FrameStep
<1>12. ASSUME NEW t \in Thread, EncodeFails(t) PROVE IInv'
  <2> DEFINE f == [Top(t) EXCEPT !.pc = "back", !.raised = Exc("shim", Top(t).id)]
             p == Exc("shim", Top(t).id)
             s == IF Top(t).op = "update" THEN Top(t).id ELSE slot[t]
  <2>1. /\ frames[t] # <<>> /\ Set(t, f)
        /\ pend' = [pend EXCEPT ![t] = p] /\ slot' = [slot EXCEPT ![t] = s]
        /\ UNCHANGED <<calls, last>>
    BY <1>f, <1>12 DEF EncodeFails, At, Abort, Raise, Record
  <2>2. f \in FrameSet /\ p \in Exception \cup {None} /\ s \in 0..MaxCalls
    BY <1>f, <2>1 DEF FrameSet
  <2>3. /\ FrameOK(f, p, s) /\ f.id = Top(t).id /\ (Top(t).refused => f.refused)
        /\ f.pc # "back" =>
             Top(t).pc # "back" /\ (s = slot[t] \/ (f.refused /\ s = f.id))
    BY <1>f, <1>12, <2>1 DEF EncodeFails, At, FrameSet, FrameOK
  <2> HIDE DEF f, p, s
  <2> QED
    BY <2>1, <2>2, <2>3, FrameStep
<1>13. ASSUME NEW t \in Thread, CallbackThrows(t) PROVE IInv'
  <2> DEFINE f == [Top(t) EXCEPT !.pc = "back", !.raised = Exc("user", Top(t).id)]
             p == Exc("user", Top(t).id)
             s == IF Top(t).op = "update" THEN Top(t).id ELSE slot[t]
  <2>1. /\ frames[t] # <<>> /\ Set(t, f)
        /\ pend' = [pend EXCEPT ![t] = p] /\ slot' = [slot EXCEPT ![t] = s]
        /\ UNCHANGED <<calls, last>>
    BY <1>f, <1>13 DEF CallbackThrows, At, Abort, Raise, Record
  <2>2. f \in FrameSet /\ p \in Exception \cup {None} /\ s \in 0..MaxCalls
    BY <1>f, <2>1 DEF FrameSet
  <2>3. /\ FrameOK(f, p, s) /\ f.id = Top(t).id /\ (Top(t).refused => f.refused)
        /\ f.pc # "back" =>
             Top(t).pc # "back" /\ (s = slot[t] \/ (f.refused /\ s = f.id))
    BY <1>f, <1>13, <2>1 DEF CallbackThrows, At, FrameSet, FrameOK
  <2> HIDE DEF f, p, s
  <2> QED
    BY <2>1, <2>2, <2>3, FrameStep
<1>14. ASSUME NEW t \in Thread, Commit(t) PROVE IInv'
  <2>a. PICK x \in {"wrote"} \cup (IF Top(t).gave = "null" THEN {"idle"} ELSE {}) :
          Set(t, [Top(t) EXCEPT !.pc = "back", !.done = x])
    BY <1>14 DEF Commit
  <2>b. x \in {"wrote", "idle"} /\ (x = "idle" => Top(t).gave = "null")
    OBVIOUS
  <2> DEFINE f == [Top(t) EXCEPT !.pc = "back", !.done = x]
             p == pend[t]
             s == slot[t]
  <2>1. /\ frames[t] # <<>> /\ Set(t, f)
        /\ pend' = [pend EXCEPT ![t] = p] /\ slot' = [slot EXCEPT ![t] = s]
        /\ UNCHANGED <<calls, last>>
    BY <1>f, <1>14, <2>a, <2>b DEF Commit, At
  <2>2. f \in FrameSet /\ p \in Exception \cup {None} /\ s \in 0..MaxCalls
    BY <1>f, <2>1, <2>a, <2>b DEF FrameSet
  <2>3. /\ FrameOK(f, p, s) /\ f.id = Top(t).id /\ (Top(t).refused => f.refused)
        /\ f.pc # "back" =>
             Top(t).pc # "back" /\ (s = slot[t] \/ (f.refused /\ s = f.id))
    BY <1>f, <1>14, <2>1, <2>a, <2>b DEF Commit, At, FrameSet, FrameOK
  <2> HIDE DEF f, p, s
  <2> QED
    BY <2>1, <2>2, <2>3, FrameStep
<1>16. ASSUME NEW t \in Thread, WriteIf(t) PROVE IInv'
  <2>a. PICK x \in {"wrote", "idle"} : Set(t, [Top(t) EXCEPT !.pc = "back", !.done = x])
    BY <1>16 DEF WriteIf
  <2> DEFINE f == [Top(t) EXCEPT !.pc = "back", !.done = x]
             p == pend[t]
             s == slot[t]
  <2>1. /\ frames[t] # <<>> /\ Set(t, f)
        /\ pend' = [pend EXCEPT ![t] = p] /\ slot' = [slot EXCEPT ![t] = s]
        /\ UNCHANGED <<calls, last>>
    BY <1>f, <1>16, <2>a DEF WriteIf, At
  <2>2. f \in FrameSet /\ p \in Exception \cup {None} /\ s \in 0..MaxCalls
    BY <1>f, <2>1, <2>a DEF FrameSet
  <2>3. /\ FrameOK(f, p, s) /\ f.id = Top(t).id /\ (Top(t).refused => f.refused)
        /\ f.pc # "back" =>
             Top(t).pc # "back" /\ (s = slot[t] \/ (f.refused /\ s = f.id))
    <3>1. Top(t).op = "conditional" /\ Top(t).pc = "native" /\ x # "nothing"
      BY <1>16, <2>a DEF WriteIf, At
    <3>2. /\ Top(t) \in FrameSet /\ FrameOK(Top(t), p, s)
          /\ p = None /\ Top(t).raised = None /\ ~Top(t).failed
      BY <1>f, <2>1, <3>1 DEF FrameOK
    <3>3. /\ f.pc = "back" /\ f.done = x /\ f.op = "conditional" /\ f.raised = None
          /\ ~f.failed /\ f.id = Top(t).id /\ f.refused = Top(t).refused
      BY <3>1, <3>2 DEF FrameSet
    <3> HIDE DEF f, p, s
    <3> QED
      BY <3>1, <3>2, <3>3 DEF FrameOK
  <2> HIDE DEF f, p, s
  <2> QED
    BY <2>1, <2>2, <2>3, FrameStep
<1>17. ASSUME NEW t \in Thread, DecodeRefused(t) PROVE IInv'
  <2> DEFINE f == [Top(t) EXCEPT !.pc = "user", !.refused = TRUE]
             p == pend[t]
             s == Top(t).id
  <2>1. /\ frames[t] # <<>> /\ Set(t, f)
        /\ pend' = [pend EXCEPT ![t] = p] /\ slot' = [slot EXCEPT ![t] = s]
        /\ UNCHANGED <<calls, last>>
    BY <1>f, <1>17 DEF DecodeRefused, At, Record
  <2>2. f \in FrameSet /\ p \in Exception \cup {None} /\ s \in 0..MaxCalls
    BY <1>f, <2>1 DEF FrameSet
  <2>3. /\ FrameOK(f, p, s) /\ f.id = Top(t).id /\ (Top(t).refused => f.refused)
        /\ f.pc # "back" =>
             Top(t).pc # "back" /\ (s = slot[t] \/ (f.refused /\ s = f.id))
    BY <1>f, <1>17, <2>1 DEF DecodeRefused, At, FrameSet, FrameOK
  <2> HIDE DEF f, p, s
  <2> QED
    BY <2>1, <2>2, <2>3, FrameStep
<1>15. CASE UNCHANGED vars
  BY <1>15 DEF vars, IInv, TypeOK, CallsNest, ThrowsOrWrites, RaisedIsThrown,
     ErrorIsOfThisCall, ReturnedIsThrown, AbortStaysReadable, SlotIsLast, Ended, Top
<1> QED
  BY <1>1, <1>2, <1>3, <1>4, <1>5, <1>6, <1>7, <1>8, <1>9, <1>10, <1>11, <1>12, <1>13, <1>14, <1>15, <1>16, <1>17,
     BeginStep, ReturnStep DEF Next

(* The inductive invariant holds of every behaviour. *)
THEOREM Inductive == Spec => []IInv
BY Initially, Inductively, PTL DEF Spec

(* Every variable stays in its type, whatever the threads call. *)
THEOREM TypeCorrect == Spec => []TypeOK
<1>1. IInv => TypeOK
  BY DEF IInv
<1> QED
  BY <1>1, Inductive, PTL

(* A call that throws has written nothing, and one that does not has done  *)
(* its work, which was to write unless the client had made it depend, for  *)
(* any nesting of calls on any databases; insertAuto, for want of memory   *)
(* behind its write, is the exception.                                     *)
THEOREM WritesOrThrows == Spec => []ThrowsOrWrites
<1>1. IInv => ThrowsOrWrites
  BY DEF IInv
<1> QED
  BY <1>1, Inductive, PTL

(* An exception raised in a call, by a callback or by the shim, is what    *)
(* the call throws.                                                        *)
THEOREM ExceptionsSurface == Spec => []RaisedIsThrown
<1>1. IInv => RaisedIsThrown
  BY DEF IInv
<1> QED
  BY <1>1, Inductive, PTL

(* The last error that a wrapper reads is the one of its own call, however *)
(* deep the calls inside of it have failed on the same thread.             *)
THEOREM SameCallGuarantee == Spec => []ErrorIsOfThisCall
<1>1. IInv => ErrorIsOfThisCall
  BY DEF IInv
<1> QED
  BY <1>1, Inductive, PTL

(* A call that the engine fails throws, and its own failure, in whatever   *)
(* nesting and whatever key cursors were refused before; schema() does not.*)
THEOREM OthersThrow == Spec => []ReturnedIsThrown
<1>1. IInv => ReturnedIsThrown
  BY DEF IInv
<1> QED
  BY <1>1, Inductive, PTL

(* Behind an aborted update the last error of the thread is the update's,  *)
(* until another call of the thread is made.                               *)
THEOREM AbortRecorded == Spec => []AbortIsReadable
<1>1. IInv => AbortIsReadable
  BY DEF IInv, AbortStaysReadable, AbortIsReadable, At
<1> QED
  BY <1>1, Inductive, PTL

(* No bridge and no callback runs with an exception pending. *)
THEOREM CleanCallbacks == Spec => []CallbacksRunClean
<1>1. IInv => CallbacksRunClean
  BY DEF IInv, CallsNest, FrameOK, CallbacksRunClean, At
<1> QED
  BY <1>1, Inductive, PTL
=============================================================================
