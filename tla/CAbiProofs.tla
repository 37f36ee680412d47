----------------------------- MODULE CAbiProofs -----------------------------
(***************************************************************************)
(* Memory safety of the C ABI, for any number of callers, addresses and     *)
(* lengths and for every allocator: IInv is inductive, so nothing undefined *)
(* happens, nothing leaks and every method returns its own call's answer.   *)
(***************************************************************************)
EXTENDS CAbi, TLAPS

USE CAbiAssumption DEF Caller

\* The allocator hands out addresses that were free.
LEMMA MallocFree ==
  ASSUME TypeOK, NEW s \in Malloc[IsFree(heap)]
  PROVE  /\ s \subseteq Addr
         /\ \A a \in s : heap[a] = Unused
  <1>1. IsFree(heap) \in SUBSET Addr
    BY DEF TypeOK, IsFree
  <1>2. s \subseteq IsFree(heap)
    BY <1>1
  <1> QED BY <1>2 DEF IsFree, TypeOK

\* The same after the library has dropped a buffer.
LEMMA MallocFreeIn ==
  ASSUME NEW h \in [Addr -> Block \cup {Unused}], NEW s \in Malloc[IsFree(h)]
  PROVE  /\ s \subseteq Addr
         /\ \A a \in s : h[a] = Unused
  <1>1. IsFree(h) \in SUBSET Addr
    BY DEF IsFree
  <1>2. s \subseteq IsFree(h)
    BY <1>1
  <1> QED BY <1>2 DEF IsFree

\* What caller c does leaves alone: the heap's blocks of other callers, and
\* their variables.
Frame(c) ==
  /\ \A a \in Addr : heap[a] # Unused /\ heap[a].of # c => heap'[a] = heap[a]
  /\ \A a \in Addr : heap'[a] # Unused /\ heap'[a].of # c => heap'[a] = heap[a]
  /\ \A d \in Caller \ {c} :
       /\ pc'[d] = pc[d] /\ call'[d] = call[d] /\ arrays'[d] = arrays[d]
       /\ held'[d] = held[d] /\ outcome'[d] = outcome[d] /\ status'[d] = status[d]
       /\ cvar'[d] = cvar[d] /\ answer'[d] = answer[d]

LEMMA OthersKeep ==
  ASSUME TypeOK, NEW c \in Caller, NEW d \in Caller \ {c}, CallerInv(d), Frame(c)
  PROVE  CallerInv(d)'
  <1>1. /\ Buffer(d)' = Buffer(d) /\ ErrorString(d)' = ErrorString(d)
        /\ Holds(d)' = Holds(d) /\ arrays'[d] = arrays[d]
    BY DEF Frame, Buffer, ErrorString, Holds
  <1>2. \A a \in Addr : heap[a] # Unused /\ heap[a].of = d => heap'[a] = heap[a]
    BY DEF Frame
  <1>3. \A a \in Addr : heap'[a] # Unused /\ heap'[a].of = d => heap'[a] = heap[a]
    BY DEF Frame
  <1>4. HeldIsLive(d)'
    BY <1>1, <1>2 DEF CallerInv, HeldIsLive, IsBlock, Frame
  <1>5. NothingLost(d)'
    BY <1>1, <1>3 DEF CallerInv, NothingLost
  <1>6. ErrorTellsFailure(d)' /\ Stages(d)'
    BY DEF CallerInv, ErrorTellsFailure, Stages, Frame
  <1>7. d \in GoCaller => AnswerIsOwn(d)'
    BY DEF CallerInv, AnswerIsOwn, Frame
  <1> QED BY <1>4, <1>5, <1>6, <1>7 DEF CallerInv

\* A step of caller c that touches only its own keeps the invariant if it
\* keeps c's part of it.
LEMMA StepKeeps ==
  ASSUME IInv, NEW c \in Caller, Frame(c), TypeOK', undefined' = FALSE, CallerInv(c)'
  PROVE  IInv'
  BY OthersKeep DEF IInv, NoUndefined

-----------------------------------------------------------------------------
LEMMA InitIInv == Init => IInv
  <1> SUFFICES ASSUME Init PROVE IInv
    OBVIOUS
  <1>1. TypeOK
    BY DEF Init, TypeOK, NoCall, NullVars, NoAnswer
  <1>2. ASSUME NEW c \in Caller PROVE CallerInv(c)
    BY DEF Init, CallerInv, HeldIsLive, NothingLost, ErrorTellsFailure, Stages,
           AnswerIsOwn, Buffer, ErrorString, Holds
  <1> QED BY <1>1, <1>2 DEF IInv, NoUndefined, Init

LEMMA GoCallKeeps ==
  ASSUME IInv, NEW c \in Caller, GoCall(c)
  PROVE  IInv'
  <1> USE DEF IInv
  <1>1. PICK op \in GoOps, count \in 0 .. MaxItems, s \in Malloc[IsFree(heap)] :
          /\ call' = [call EXCEPT ![c] = [op |-> op, count |-> count,
                                          out |-> ReturnsBuffer(op), error |-> TRUE]]
          /\ arrays' = [arrays EXCEPT ![c] = s]
          /\ heap' = Alloc(heap, s, [kind |-> "array", len |-> 1, of |-> c, text |-> "array"])
    BY DEF GoCall
  <1>2. s \subseteq Addr /\ \A a \in s : heap[a] = Unused
    BY MallocFree
  <1> DEFINE b == [kind |-> "array", len |-> 1, of |-> c, text |-> "array"]
  <1>3. b \in Block /\ b # Unused
    BY DEF Block, Text
  <1>4. /\ c \in GoCaller /\ pc[c] = "idle"
        /\ pc' = [pc EXCEPT ![c] = "call"]
        /\ cvar' = [cvar EXCEPT ![c] = NullVars]
        /\ UNCHANGED <<held, outcome, status, answer, undefined>>
    BY DEF GoCall
  <1>5. TypeOK'
    <2>1. heap' \in [Addr -> Block \cup {Unused}]
      BY <1>1, <1>3 DEF Alloc, TypeOK
    <2>2. call' \in [Caller -> [op : Ops \cup {"none"}, count : Nat, out : BOOLEAN, error : BOOLEAN]]
      BY <1>1 DEF TypeOK, Ops, GoOps, ReturnsBuffer
    <2>3. arrays' \in [Caller -> SUBSET Addr]
      BY <1>1, <1>2 DEF TypeOK
    <2>4. cvar' \in [Caller -> [out : Addr \cup {Null}, len : Nat, err : Addr \cup {Null}]]
      BY <1>4 DEF TypeOK, NullVars
    <2> QED BY <1>4, <2>1, <2>2, <2>3, <2>4 DEF TypeOK
  <1>6. \A a \in Addr : heap'[a] = IF a \in s THEN b ELSE heap[a]
    BY <1>1 DEF Alloc
  <1>7. Frame(c)
    BY <1>1, <1>2, <1>4, <1>6 DEF Frame, TypeOK
  <1>8. CallerInv(c)'
    <2>1. /\ pc'[c] = "call" /\ arrays'[c] = s /\ call'[c].error = TRUE
          /\ call'[c].op \in GoOps
          /\ answer'[c] = answer[c]
      BY <1>1, <1>4 DEF TypeOK
    <2>2. Buffer(c)' = {} /\ ErrorString(c)' = {} /\ Holds(c)' = s
      BY <2>1 DEF Buffer, ErrorString, Holds
    <2>3. Holds(c) = {}
      BY <1>4 DEF CallerInv, Stages, Holds, Buffer, ErrorString
    <2>4. HeldIsLive(c)'
      BY <1>2, <1>3, <1>6, <2>1, <2>2 DEF HeldIsLive, IsBlock
    <2>5. NothingLost(c)'
      BY <1>6, <2>2, <2>3 DEF NothingLost, CallerInv
    <2>6. ErrorTellsFailure(c)' /\ Stages(c)' /\ AnswerIsOwn(c)'
      BY <1>4, <2>1 DEF ErrorTellsFailure, Stages, AnswerIsOwn, CallerInv
    <2> QED BY <2>4, <2>5, <2>6 DEF CallerInv
  <1>9. undefined' = FALSE
    BY <1>4 DEF NoUndefined, TypeOK
  <1> QED BY <1>5, <1>7, <1>8, <1>9, StepKeeps

LEMMA RawCallKeeps ==
  ASSUME IInv, NEW c \in Caller, RawCall(c)
  PROVE  IInv'
  <1> USE DEF IInv
  <1>1. /\ c \in RawCaller /\ pc[c] = "idle"
        /\ pc' = [pc EXCEPT ![c] = "call"]
        /\ UNCHANGED <<heap, arrays, held, outcome, status, cvar, answer, undefined>>
    BY DEF RawCall
  <1>2. PICK op \in RawOps, out \in BOOLEAN, error \in BOOLEAN :
          call' = [call EXCEPT ![c] = [op |-> op, count |-> 0, out |-> out, error |-> error]]
    BY DEF RawCall
  <1>3. TypeOK'
    BY <1>1, <1>2 DEF TypeOK
  <1>4. Frame(c)
    BY <1>1, <1>2 DEF Frame, TypeOK
  <1>5. CallerInv(c)'
    <2>1. pc'[c] = "call" /\ c \notin GoCaller /\ call'[c].op \in RawOps
      BY <1>1, <1>2 DEF TypeOK
    <2>2. /\ Buffer(c)' = {} /\ ErrorString(c)' = {} /\ Holds(c)' = {} /\ Holds(c) = {}
          /\ arrays'[c] = {}
      BY <1>1, <2>1, ZenonT(40) DEF Buffer, ErrorString, Holds, CallerInv, Stages
    <2>3. HeldIsLive(c)' /\ NothingLost(c)'
      BY <1>1, <2>2 DEF HeldIsLive, NothingLost, CallerInv
    <2>4. ErrorTellsFailure(c)' /\ Stages(c)'
      BY <1>1, <2>1 DEF ErrorTellsFailure, Stages, CallerInv
    <2> QED BY <2>1, <2>3, <2>4 DEF CallerInv
  <1>6. undefined' = FALSE
    BY <1>1 DEF NoUndefined, TypeOK
  <1> QED BY <1>3, <1>4, <1>5, <1>6, StepKeeps

\* What a body can end with, and that it reads no null pointer: bytes_or_empty
\* reads only what is not null.
LEMMA BodyEndsOK ==
  ASSUME NEW c \in Caller, NEW op \in Ops, c \in GoCaller => op \in GoOps,
         c \notin GoCaller => op \in RawOps, NEW end \in EndsOf(c, op)
  PROVE  end.outcome \in {"result", "error", "panic"} /\ ~end.null
  <1>1. PICK arguments : end \in Ends(op, arguments)
    BY DEF EndsOf, BodyEnds
  <1> DEFINE Possible(a) == IF Refused(op, a) THEN {"error"}
                             ELSE {"result", "error", "panic"}
              End(a, o) == [outcome |-> o,
                            null |-> bytes_or_empty(a.input) = "read" /\ a.input.null]
  <1>2. PICK a \in arguments : end \in {End(a, o) : o \in Possible(a)}
    BY <1>1 DEF Ends
  <1>3. PICK o \in Possible(a) : end = End(a, o)
    BY <1>2
  <1>4. o \in {"result", "error", "panic"}
    OBVIOUS
  <1>5. ~(bytes_or_empty(a.input) = "read" /\ a.input.null)
    BY DEF bytes_or_empty
  <1>6. end.outcome = o
    BY <1>3
  <1>7. ~end.null
    BY <1>3, <1>5
  <1> QED BY <1>4, <1>6, <1>7

LEMMA BodyKeeps ==
  ASSUME IInv, NEW c \in Caller, Body(c)
  PROVE  IInv'
  <1> USE DEF IInv
  <1> DEFINE op == call[c].op
  <1>1. /\ pc[c] = "call" /\ pc' = [pc EXCEPT ![c] = "finish"]
        /\ UNCHANGED <<call, arrays, status, cvar, answer>>
    BY DEF Body
  <1>2. /\ c \in GoCaller => call[c].error /\ op \in GoOps
        /\ c \notin GoCaller => op \in RawOps
        /\ op \in Ops
    <2>1. Stages(c)
      BY DEF CallerInv
    <2>2. IF c \in GoCaller THEN call[c].error /\ op \in GoOps ELSE op \in RawOps
      BY <1>1, <2>1 DEF Stages
    <2> QED BY <2>2 DEF Ops
  <1>3. PICK end \in EndsOf(c, op) :
          /\ undefined' = (\/ undefined \/ end.null
                           \/ \E x \in arrays[c] : ~IsBlock(heap, x, "array"))
          /\ outcome' = [outcome EXCEPT ![c] = end.outcome]
          /\ \/ /\ end.outcome = "result" /\ ReturnsBuffer(op)
                /\ \E x \in Addr, n \in Lens :
                     /\ {x} \in Malloc[IsFree(heap)]
                     /\ held' = [held EXCEPT ![c] = x]
                     /\ heap' = Alloc(heap, {x}, [kind |-> "buffer", len |-> n,
                                                  of |-> c, text |-> "result"])
             \/ /\ ~(end.outcome = "result" /\ ReturnsBuffer(op))
                /\ UNCHANGED <<held, heap>>
    BY DEF Body
  <1>4. end.outcome \in {"result", "error", "panic"} /\ ~end.null
    BY <1>2, BodyEndsOK
  <1>5. undefined' = FALSE
    <2>1. \A x \in arrays[c] : IsBlock(heap, x, "array")
      BY DEF CallerInv, HeldIsLive
    <2> QED BY <1>3, <1>4, <2>1 DEF NoUndefined
  <1>6. /\ pc'[c] = "finish" /\ outcome'[c] = end.outcome /\ answer'[c] = NoAnswer
        /\ outcome' = [outcome EXCEPT ![c] = end.outcome]
        /\ outcome' \in [Caller -> Text \cup {"none"}]
    BY <1>1, <1>3, <1>4 DEF TypeOK, CallerInv, Stages, Text
  <1>7. ErrorTellsFailure(c)' /\ Stages(c)' /\ AnswerIsOwn(c)'
    BY <1>1, <1>2, <1>4, <1>6 DEF ErrorTellsFailure, Stages, AnswerIsOwn
  <1>8. CASE end.outcome = "result" /\ ReturnsBuffer(op)
    <2>1. PICK x \in Addr, n \in Lens :
            /\ {x} \in Malloc[IsFree(heap)]
            /\ held' = [held EXCEPT ![c] = x]
            /\ heap' = Alloc(heap, {x}, [kind |-> "buffer", len |-> n,
                                         of |-> c, text |-> "result"])
      BY <1>3, <1>8
    <2> DEFINE b == [kind |-> "buffer", len |-> n, of |-> c, text |-> "result"]
    <2>2. heap[x] = Unused
      BY <2>1, MallocFree
    <2>3. b \in Block /\ b # Unused /\ n \in Nat \ {0}
      BY DEF Block, Text
    <2>4. \A a \in Addr : heap'[a] = IF a = x THEN b ELSE heap[a]
      BY <2>1 DEF Alloc
    <2>5. TypeOK'
      <3>1. heap' \in [Addr -> Block \cup {Unused}]
        BY <2>1, <2>3 DEF TypeOK, Alloc
      <3>2. held' \in [Caller -> Addr \cup {Null}]
        BY <2>1 DEF TypeOK
      <3> QED BY <1>1, <1>5, <1>6, <3>1, <3>2 DEF TypeOK
    <2>6. Frame(c)
      <3>1. /\ \A a \in Addr : heap[a] # Unused => heap'[a] = heap[a]
            /\ \A a \in Addr : heap'[a] # Unused /\ heap'[a].of # c => heap'[a] = heap[a]
        BY <2>2, <2>4
      <3>2. \A d \in Caller \ {c} : held'[d] = held[d] /\ outcome'[d] = outcome[d]
        BY <1>6, <2>1 DEF TypeOK
      <3>3. \A d \in Caller \ {c} : pc'[d] = pc[d]
        BY <1>1 DEF TypeOK
      <3> QED BY <1>1, <3>1, <3>2, <3>3 DEF Frame
    <2>7. Buffer(c)' = {x} /\ ErrorString(c)' = {} /\ Holds(c)' = arrays[c] \cup {x}
      BY <1>1, <1>6, <1>8, <2>1 DEF Buffer, ErrorString, Holds, TypeOK
    <2>8. Holds(c) = arrays[c]
      BY <1>1 DEF Buffer, ErrorString, Holds
    <2>9. HeldIsLive(c)'
      BY <1>1, <1>6, <2>2, <2>3, <2>4, <2>7 DEF HeldIsLive, IsBlock, CallerInv
    <2>10. NothingLost(c)'
      BY <2>4, <2>7, <2>8 DEF NothingLost, CallerInv
    <2> QED BY <1>5, <1>7, <2>5, <2>6, <2>9, <2>10, StepKeeps DEF CallerInv
  <1>9. CASE ~(end.outcome = "result" /\ ReturnsBuffer(op))
    <2>1. UNCHANGED <<held, heap>>
      BY <1>3, <1>9
    <2>2. TypeOK'
      BY <1>1, <1>5, <1>6, <2>1 DEF TypeOK
    <2>3. Frame(c)
      BY <1>1, <1>6, <2>1 DEF Frame, TypeOK
    <2>4. Buffer(c)' = {} /\ ErrorString(c)' = {} /\ Holds(c)' = arrays[c] /\ Holds(c) = arrays[c]
      BY <1>1, <1>6, <1>9 DEF Buffer, ErrorString, Holds
    <2>5. HeldIsLive(c)' /\ NothingLost(c)'
      BY <1>1, <2>1, <2>4 DEF HeldIsLive, NothingLost, CallerInv
    <2> QED BY <1>5, <1>7, <2>2, <2>3, <2>5, StepKeeps DEF CallerInv
  <1> QED BY <1>8, <1>9

LEMMA FinishOkKeeps ==
  ASSUME IInv, NEW c \in Caller, FinishOk(c)
  PROVE  IInv'
  <1> USE DEF IInv
  <1> DEFINE op == call[c].op
             handed == IF ReturnsBuffer(op)
                       THEN [cvar[c] EXCEPT !.out = held[c], !.len = heap[held[c]].len]
                       ELSE cvar[c]
  <1>1. /\ pc[c] = "finish" /\ outcome[c] = "result"
        /\ cvar' = [cvar EXCEPT ![c] = clear_error_out(c, handed)]
        /\ held' = [held EXCEPT ![c] = Null]
        /\ status' = [status EXCEPT ![c] = "OK"]
        /\ pc' = [pc EXCEPT ![c] = "returned"]
        /\ outcome' = [outcome EXCEPT ![c] = "none"]
        /\ UNCHANGED <<heap, call, arrays, answer, undefined>>
    BY DEF FinishOk
  <1>2. cvar[c] \in [out : Addr \cup {Null}, len : Nat, err : Addr \cup {Null}]
    BY DEF TypeOK
  <1>3. ReturnsBuffer(op) => /\ Buffer(c) = {held[c]} /\ IsBlock(heap, held[c], "buffer")
                            /\ heap[held[c]] \in Block
    BY <1>1 DEF Buffer, CallerInv, HeldIsLive, TypeOK, IsBlock
  <1>4. /\ handed \in [out : Addr \cup {Null}, len : Nat, err : Addr \cup {Null}]
        /\ ReturnsBuffer(op) => handed.out = held[c] /\ handed.len = heap[held[c]].len
    BY <1>2, <1>3 DEF IsBlock, Block
  <1>5. /\ clear_error_out(c, handed) \in [out : Addr \cup {Null}, len : Nat, err : Addr \cup {Null}]
        /\ clear_error_out(c, handed).out = handed.out
        /\ clear_error_out(c, handed).len = handed.len
        /\ call[c].error => clear_error_out(c, handed).err = Null
    BY <1>4 DEF clear_error_out
  <1> HIDE DEF handed
  <1>6. TypeOK'
    <2>1. cvar' \in [Caller -> [out : Addr \cup {Null}, len : Nat, err : Addr \cup {Null}]]
      BY <1>1, <1>5 DEF TypeOK
    <2> QED BY <1>1, <2>1 DEF TypeOK
  <1>7. Frame(c)
    BY <1>1 DEF Frame, TypeOK
  <1>8. /\ pc'[c] = "returned" /\ status'[c] = "OK" /\ outcome'[c] = "none"
        /\ cvar'[c] = clear_error_out(c, handed)
    BY <1>1 DEF TypeOK
  <1>9. /\ Buffer(c)' = Buffer(c) /\ ErrorString(c)' = {} /\ ErrorString(c) = {}
        /\ Holds(c)' = Holds(c)
    <2>1. Buffer(c)' = IF ReturnsBuffer(op) THEN {held[c]} ELSE {}
      <3>1. ReturnsBuffer(op) => cvar'[c].out = held[c]
        BY <1>4, <1>5, <1>8
      <3>2. ReturnsBuffer(call'[c].op) <=> ReturnsBuffer(op)
        BY <1>1
      <3> QED BY <1>8, <3>1, <3>2 DEF Buffer
    <2>2. Buffer(c) = IF ReturnsBuffer(op) THEN {held[c]} ELSE {}
      BY <1>1 DEF Buffer
    <2>3. ErrorString(c)' = {} /\ ErrorString(c) = {}
      BY <1>1, <1>8 DEF ErrorString
    <2> QED BY <1>1, <2>1, <2>2, <2>3 DEF Holds
  <1>10. HeldIsLive(c)'
    <2>1. \A a \in Buffer(c) : heap[a].len = cvar'[c].len
      BY <1>1, <1>3, <1>4, <1>5, <1>8 DEF Buffer
    <2> QED BY <1>1, <1>9, <2>1 DEF HeldIsLive, CallerInv
  <1>11. NothingLost(c)'
    BY <1>1, <1>9 DEF NothingLost, CallerInv
  <1>12. ErrorTellsFailure(c)' /\ Stages(c)' /\ AnswerIsOwn(c)'
    BY <1>1, <1>5, <1>8 DEF ErrorTellsFailure, Stages, AnswerIsOwn, CallerInv
  <1> QED BY <1>1, <1>6, <1>7, <1>10, <1>11, <1>12, StepKeeps DEF CallerInv, NoUndefined, TypeOK
\* What both failing tails do: set_error_out over the heap h, from which c's
\* buffer is gone.
Failing(c, h, text) ==
  /\ pc[c] = "finish"
  /\ h \in [Addr -> Block \cup {Unused}]
  /\ \A a \in Addr : h[a] = IF a \in Buffer(c) THEN Unused ELSE heap[a]
  /\ text \in {"error", "panic"}
  /\ set_error_out(h, c, text)
  /\ held' \in [Caller -> Addr \cup {Null}]
  /\ \A d \in Caller \ {c} : held'[d] = held[d]
  /\ status' = [status EXCEPT ![c] = StatusOf(text)]
  /\ pc' = [pc EXCEPT ![c] = "returned"]
  /\ outcome' = [outcome EXCEPT ![c] = "none"]
  /\ UNCHANGED <<call, arrays, answer, undefined>>

LEMMA FailedKeeps ==
  ASSUME IInv, NEW c \in Caller, NEW h, NEW text, Failing(c, h, text)
  PROVE  IInv'
  <1> USE DEF IInv, Failing
  <1>1. /\ pc'[c] = "returned" /\ status'[c] = StatusOf(text) /\ outcome'[c] = "none"
        /\ StatusOf(text) \in {"ERR", "PANIC"}
        /\ StatusOf(text) = "PANIC" <=> text = "panic"
    BY DEF TypeOK, StatusOf
  <1>2. Buffer(c)' = {} /\ ErrorString(c) = {} /\ Holds(c) = arrays[c] \cup Buffer(c)
    BY <1>1 DEF Buffer, ErrorString, Holds
  <1>3. \A a \in Buffer(c) : heap[a].of = c /\ heap[a].kind = "buffer"
    BY DEF CallerInv, HeldIsLive, IsBlock
  <1>4. \A a \in arrays[c] : a \in Addr /\ heap[a] # Unused /\ heap[a].kind = "array"
                           /\ heap[a].of = c
    BY DEF CallerInv, HeldIsLive, IsBlock
  <1>5. ErrorTellsFailure(c)' /\ Stages(c)' /\ AnswerIsOwn(c)'
    BY <1>1 DEF ErrorTellsFailure, Stages, AnswerIsOwn, CallerInv
  <1>6. undefined' = FALSE
    BY DEF NoUndefined, TypeOK
  <1>7. CASE call[c].error
    <2>1. PICK x \in Addr :
            /\ {x} \in Malloc[IsFree(h)]
            /\ heap' = Alloc(h, {x}, [kind |-> "string", len |-> 1, of |-> c, text |-> text])
            /\ cvar' = [cvar EXCEPT ![c].err = x]
      BY <1>7 DEF set_error_out
    <2> DEFINE b == [kind |-> "string", len |-> 1, of |-> c, text |-> text]
    <2>2. h[x] = Unused
      BY <2>1, MallocFreeIn
    <2>3. b \in Block /\ b # Unused
      BY DEF Block, Text
    <2>4. \A a \in Addr : heap'[a] = IF a = x THEN b ELSE h[a]
      BY <2>1 DEF Alloc
    <2>5. TypeOK'
      <3>1. heap' \in [Addr -> Block \cup {Unused}]
        BY <2>1, <2>3 DEF Alloc
      <3>2. cvar' \in [Caller -> [out : Addr \cup {Null}, len : Nat, err : Addr \cup {Null}]]
        <4>1. cvar[c] \in [out : Addr \cup {Null}, len : Nat, err : Addr \cup {Null}]
          BY DEF TypeOK
        <4>2. [cvar[c] EXCEPT !.err = x]
                \in [out : Addr \cup {Null}, len : Nat, err : Addr \cup {Null}]
          BY <4>1
        <4>3. cvar' = [cvar EXCEPT ![c] = [cvar[c] EXCEPT !.err = x]]
          BY <2>1
        <4> QED BY <4>2, <4>3 DEF TypeOK
      <3> QED BY <1>1, <3>1, <3>2 DEF TypeOK
    <2>6. Frame(c)
      <3>1. /\ \A a \in Addr : heap[a] # Unused /\ heap[a].of # c => heap'[a] = heap[a]
            /\ \A a \in Addr : heap'[a] # Unused /\ heap'[a].of # c => heap'[a] = heap[a]
        BY <1>3, <2>2, <2>4
      <3>2. \A d \in Caller \ {c} : /\ pc'[d] = pc[d] /\ status'[d] = status[d]
                                   /\ outcome'[d] = outcome[d] /\ cvar'[d] = cvar[d]
        BY <2>1 DEF TypeOK
      <3> QED BY <3>1, <3>2 DEF Frame
    <2>7. cvar'[c].err = x
      BY <2>1 DEF TypeOK
    <2>8. ErrorString(c)' = {x} /\ Holds(c)' = arrays[c] \cup {x}
      BY <1>1, <1>2, <1>7, <2>7 DEF ErrorString, Holds
    <2>9. HeldIsLive(c)'
      <3>1. \A a \in arrays[c] : heap'[a] = heap[a]
        BY <1>3, <1>4, <2>2, <2>4
      <3>2. heap'[x] = b
        BY <2>4
      <3>3. /\ IsBlock(heap', x, "string") /\ heap'[x].of = c
            /\ heap'[x].text \notin {"none", "result", "array"}
            /\ status'[c] = "PANIC" <=> heap'[x].text = "panic"
        BY <1>1, <2>3, <3>2 DEF IsBlock
      <3> QED BY <1>2, <1>4, <2>8, <3>1, <3>3 DEF HeldIsLive, IsBlock
    <2>10. NothingLost(c)'
      BY <1>2, <2>4, <2>8 DEF NothingLost, CallerInv
    <2> QED BY <1>5, <1>6, <2>5, <2>6, <2>9, <2>10, StepKeeps DEF CallerInv
  <1>8. CASE ~call[c].error
    <2>1. heap' = h /\ UNCHANGED cvar
      BY <1>8 DEF set_error_out
    <2>2. TypeOK'
      BY <1>1, <2>1 DEF TypeOK
    <2>3. Frame(c)
      BY <1>3, <2>1 DEF Frame, TypeOK
    <2>4. ErrorString(c)' = {} /\ Holds(c)' = arrays[c]
      BY <1>1, <1>2, <1>8 DEF ErrorString, Holds
    <2>5. HeldIsLive(c)' /\ NothingLost(c)'
      BY <1>2, <1>3, <1>4, <2>1, <2>4 DEF HeldIsLive, NothingLost, CallerInv, IsBlock
    <2> QED BY <1>5, <1>6, <2>2, <2>3, <2>5, StepKeeps DEF CallerInv
  <1> QED BY <1>7, <1>8

LEMMA FinishNoOutKeeps ==
  ASSUME IInv, NEW c \in Caller, FinishNoOut(c)
  PROVE  IInv'
  <1>1. /\ pc[c] = "finish" /\ set_error_out(DropBuffer(heap, c), c, "error")
        /\ held' = [held EXCEPT ![c] = Null]
        /\ status' = [status EXCEPT ![c] = StatusOf("error")]
        /\ pc' = [pc EXCEPT ![c] = "returned"]
        /\ outcome' = [outcome EXCEPT ![c] = "none"]
        /\ UNCHANGED <<call, arrays, answer, undefined>>
    BY DEF FinishNoOut, StatusOf
  <1>2. Buffer(c) = {held[c]}
    BY DEF FinishNoOut, Buffer
  <1>3. DropBuffer(heap, c) \in [Addr -> Block \cup {Unused}]
    BY DEF DropBuffer, Dealloc, IInv, TypeOK
  <1>4. \A a \in Addr : DropBuffer(heap, c)[a] = IF a \in Buffer(c) THEN Unused ELSE heap[a]
    BY <1>2 DEF DropBuffer, Dealloc
  <1>5. /\ held' \in [Caller -> Addr \cup {Null}]
        /\ \A d \in Caller \ {c} : held'[d] = held[d]
    BY <1>1 DEF IInv, TypeOK
  <1>6. Failing(c, DropBuffer(heap, c), "error")
    BY <1>1, <1>3, <1>4, <1>5 DEF Failing
  <1> QED BY <1>6, FailedKeeps

LEMMA FinishFailedKeeps ==
  ASSUME IInv, NEW c \in Caller, FinishFailed(c)
  PROVE  IInv'
  <1>1. /\ pc[c] = "finish" /\ outcome[c] # "result" /\ set_error_out(heap, c, outcome[c])
        /\ status' = [status EXCEPT ![c] = StatusOf(outcome[c])]
        /\ pc' = [pc EXCEPT ![c] = "returned"]
        /\ outcome' = [outcome EXCEPT ![c] = "none"]
        /\ UNCHANGED <<call, arrays, held, answer, undefined>>
    BY DEF FinishFailed
  <1>2. outcome[c] \in {"error", "panic"}
    BY <1>1, ZenonT(40) DEF IInv, CallerInv, Stages, TypeOK, Text
  <1>3. Buffer(c) = {}
    BY <1>1 DEF Buffer
  <1>4. heap \in [Addr -> Block \cup {Unused}] /\ held' \in [Caller -> Addr \cup {Null}]
    BY <1>1 DEF IInv, TypeOK
  <1>5. \A d \in Caller \ {c} : held'[d] = held[d]
    BY <1>1
  <1>6. Failing(c, heap, outcome[c])
    BY <1>1, <1>2, <1>3, <1>4, <1>5 DEF Failing
  <1> QED BY <1>6, FailedKeeps
LEMMA TakeErrorKeeps ==
  ASSUME IInv, NEW c \in Caller, takeError(c)
  PROVE  IInv'
  <1> USE DEF IInv
  <1> DEFINE e == cvar[c].err
             more == status[c] = "OK" /\ ReturnsBuffer(call[c].op)
  <1>1. /\ pc[c] = "returned"
        /\ pc' = [pc EXCEPT ![c] = IF more THEN "copy" ELSE "cleanup"]
        /\ UNCHANGED <<call, arrays, held, outcome, status, cvar>>
    BY DEF takeError
  <1>2. /\ pc'[c] = IF more THEN "copy" ELSE "cleanup"
        /\ \A d \in Caller \ {c} : pc'[d] = pc[d]
        /\ pc' \in [Caller -> {"idle", "call", "finish", "returned", "copy", "free", "cleanup"}]
    BY <1>1 DEF TypeOK
  <1>3. Stages(c) /\ ErrorTellsFailure(c) /\ HeldIsLive(c) /\ NothingLost(c)
    BY DEF CallerInv
  <1>4. answer[c] = NoAnswer
    BY <1>1, <1>3 DEF Stages
  <1>5. Buffer(c)' = Buffer(c) /\ ErrorString(c)' = {}
    BY <1>1, <1>2 DEF Buffer, ErrorString
  <1>6. Stages(c)' /\ ErrorTellsFailure(c)' <=> (pc'[c] = "copy" => answer'[c] = NoAnswer)
    BY <1>1, <1>2, <1>3 DEF Stages, ErrorTellsFailure
  <1>7. \A a \in arrays[c] \cup Buffer(c) :
          a \in Addr /\ heap[a] # Unused /\ heap[a].kind # "string"
    BY <1>3 DEF HeldIsLive, IsBlock
  <1>8. CASE call[c].error /\ e # Null
    <2>1. /\ undefined' = (undefined \/ ~IsBlock(heap, e, "string"))
          /\ answer' = [answer EXCEPT ![c] =
               IF heap[e] = Unused THEN NoAnswer
               ELSE [of |-> heap[e].of, text |-> heap[e].text]]
          /\ heap' = Dealloc(heap, {e})
      BY <1>8 DEF takeError
    <2>2. status[c] # "OK" /\ ErrorString(c) = {e} /\ Buffer(c) = {}
      BY <1>1, <1>3, <1>8 DEF ErrorTellsFailure, ErrorString, Buffer
    <2>3. /\ IsBlock(heap, e, "string") /\ heap[e].of = c /\ heap[e] \in Block
          /\ heap[e].text \notin {"none", "result", "array"}
          /\ status[c] = "PANIC" <=> heap[e].text = "panic"
      BY <1>3, <2>2 DEF HeldIsLive, IsBlock, TypeOK
    <2>4. undefined' = FALSE
      BY <2>1, <2>3 DEF NoUndefined
    <2>5. /\ answer'[c] = [of |-> c, text |-> heap[e].text]
          /\ \A d \in Caller \ {c} : answer'[d] = answer[d]
      BY <2>1, <2>3 DEF TypeOK, IsBlock
    <2>6. \A a \in Addr : heap'[a] = IF a = e THEN Unused ELSE heap[a]
      BY <2>1 DEF Dealloc
    <2>7. TypeOK'
      <3>1. heap' \in [Addr -> Block \cup {Unused}]
        BY <2>1 DEF Dealloc, TypeOK
      <3>2. answer' \in [Caller -> [of : Caller \cup {Null}, text : Text \cup {"none"}]]
        BY <2>1, <2>3 DEF TypeOK, Block, NoAnswer
      <3> QED BY <1>1, <1>2, <2>4, <3>1, <3>2 DEF TypeOK
    <2>8. Frame(c)
      BY <1>1, <1>2, <2>3, <2>5, <2>6 DEF Frame, IsBlock
    <2>9. Holds(c) = arrays[c] \cup {e} /\ Holds(c)' = arrays[c]
      BY <1>1, <1>5, <2>2 DEF Holds
    <2>10. HeldIsLive(c)'
      <3>1. \A a \in arrays[c] : heap'[a] = heap[a]
        BY <1>7, <2>3, <2>6 DEF IsBlock
      <3> QED BY <1>1, <1>3, <1>5, <2>2, <3>1 DEF HeldIsLive, IsBlock
    <2>11. NothingLost(c)'
      BY <1>3, <2>6, <2>9 DEF NothingLost
    <2>12. AnswerIsOwn(c)' /\ pc'[c] # "copy"
      BY <1>1, <1>2, <2>2, <2>3, <2>5 DEF AnswerIsOwn
    <2> QED BY <1>6, <2>4, <2>7, <2>8, <2>10, <2>11, <2>12, StepKeeps DEF CallerInv
  <1>9. CASE ~call[c].error \/ e = Null
    <2>1. UNCHANGED <<undefined, answer, heap>>
      BY <1>9 DEF takeError
    <2>2. ErrorString(c) = {}
      <3>1. ASSUME call[c].error, status[c] # "OK" PROVE FALSE
        <4>1. e \in ErrorString(c)
          BY <1>1, <3>1 DEF ErrorString
        <4>2. e \in Addr
          BY <1>3, <4>1 DEF HeldIsLive, IsBlock
        <4> QED BY <1>9, <3>1, <4>2
      <3> QED BY <1>1, <3>1 DEF ErrorString
    <2>3. TypeOK' /\ Frame(c)
      BY <1>1, <1>2, <2>1 DEF TypeOK, Frame
    <2>4. Holds(c)' = Holds(c)
      BY <1>1, <1>5, <2>2 DEF Holds
    <2>5. HeldIsLive(c)' /\ NothingLost(c)'
      BY <1>1, <1>2, <1>3, <1>5, <2>1, <2>4 DEF HeldIsLive, NothingLost
    <2>6. c \in GoCaller => AnswerIsOwn(c)'
      <3>1. c \in GoCaller => call[c].error
        BY <1>1, <1>3 DEF Stages
      <3>2. c \in GoCaller => status[c] = "OK"
        BY <1>1, <2>2, <3>1 DEF ErrorString
      <3> QED BY <1>1, <1>2, <1>4, <2>1, <3>2 DEF AnswerIsOwn
    <2>7. undefined' = FALSE
      BY <2>1 DEF NoUndefined, TypeOK
    <2> QED BY <1>4, <1>6, <2>1, <2>3, <2>5, <2>6, <2>7, StepKeeps DEF CallerInv
  <1> QED BY <1>8, <1>9

LEMMA CopyOutKeeps ==
  ASSUME IInv, NEW c \in Caller, CopyOut(c)
  PROVE  IInv'
  <1> USE DEF IInv
  <1> DEFINE a0 == cvar[c].out
  <1>1. /\ pc[c] = "copy" /\ pc' = [pc EXCEPT ![c] = "free"]
        /\ undefined' = (undefined \/ ~IsBlock(heap, a0, "buffer") \/ heap[a0].len # cvar[c].len)
        /\ answer' = [answer EXCEPT ![c] =
             IF heap[a0] = Unused THEN NoAnswer
             ELSE [of |-> heap[a0].of, text |-> heap[a0].text]]
        /\ UNCHANGED <<heap, call, arrays, held, outcome, status, cvar>>
    BY DEF CopyOut
  <1>2. HeldIsLive(c) /\ NothingLost(c) /\ Stages(c)
    BY DEF CallerInv
  <1>3. status[c] = "OK" /\ ReturnsBuffer(call[c].op) /\ Buffer(c) = {a0}
    BY <1>1, <1>2 DEF Stages, Buffer
  <1>4. /\ IsBlock(heap, a0, "buffer") /\ heap[a0].len = cvar[c].len
        /\ heap[a0].of = c /\ heap[a0].text = "result"
    BY <1>1, <1>2, <1>3 DEF HeldIsLive
  <1>5. undefined' = FALSE
    BY <1>1, <1>4 DEF NoUndefined
  <1>6. /\ answer' = [answer EXCEPT ![c] = [of |-> c, text |-> "result"]]
        /\ answer'[c] = [of |-> c, text |-> "result"] /\ pc'[c] = "free"
    BY <1>1, <1>4 DEF IsBlock, TypeOK
  <1>7. TypeOK'
    <2>1. [of |-> c, text |-> "result"] \in [of : Caller \cup {Null}, text : Text \cup {"none"}]
      BY DEF Text
    <2>2. answer' \in [Caller -> [of : Caller \cup {Null}, text : Text \cup {"none"}]]
      BY <1>6, <2>1 DEF TypeOK
    <2> QED BY <1>1, <1>5, <2>2 DEF TypeOK
  <1>8. Frame(c)
    BY <1>1, <1>6 DEF Frame, TypeOK
  <1>9. Buffer(c)' = Buffer(c) /\ ErrorString(c)' = {} /\ ErrorString(c) = {}
        /\ Holds(c)' = Holds(c)
    BY <1>1, <1>3, <1>6 DEF Buffer, ErrorString, Holds
  <1>10. HeldIsLive(c)' /\ NothingLost(c)'
    BY <1>1, <1>2, <1>6, <1>9 DEF HeldIsLive, NothingLost
  <1>11. ErrorTellsFailure(c)' /\ Stages(c)' /\ AnswerIsOwn(c)'
    BY <1>1, <1>2, <1>3, <1>6 DEF ErrorTellsFailure, Stages, AnswerIsOwn
  <1> QED BY <1>5, <1>7, <1>8, <1>10, <1>11, StepKeeps DEF CallerInv
LEMMA FreeBufferKeeps ==
  ASSUME IInv, NEW c \in Caller, free_buffer(c)
  PROVE  IInv'
  <1> USE DEF IInv
  <1> DEFINE a0 == cvar[c].out
  <1>1. /\ pc[c] = "free" /\ pc' = [pc EXCEPT ![c] = "cleanup"]
        /\ UNCHANGED <<call, arrays, held, outcome, status, cvar, answer>>
    BY DEF free_buffer
  <1>2. HeldIsLive(c) /\ NothingLost(c) /\ Stages(c)
    BY DEF CallerInv
  <1>3. status[c] = "OK" /\ ReturnsBuffer(call[c].op) /\ Buffer(c) = {a0}
    BY <1>1, <1>2 DEF Stages, Buffer
  <1>4. /\ IsBlock(heap, a0, "buffer") /\ heap[a0].len = cvar[c].len
        /\ heap[a0].of = c /\ heap[a0].len # 0
    BY <1>1, <1>2, <1>3 DEF HeldIsLive
  <1>5. a0 # Null /\ cvar[c].len # 0
    BY <1>4 DEF IsBlock
  <1>6. heap' = Dealloc(heap, {a0}) /\ undefined' = FALSE
    BY <1>4, <1>5 DEF free_buffer, NoUndefined
  <1>7. \A a \in Addr : heap'[a] = IF a = a0 THEN Unused ELSE heap[a]
    BY <1>6 DEF Dealloc
  <1>8. pc'[c] = "cleanup"
    BY <1>1 DEF TypeOK
  <1>9. TypeOK'
    <2>1. heap' \in [Addr -> Block \cup {Unused}]
      BY <1>6 DEF Dealloc, TypeOK
    <2> QED BY <1>1, <1>6, <2>1 DEF TypeOK
  <1>10. Frame(c)
    BY <1>1, <1>4, <1>7 DEF Frame, TypeOK, IsBlock
  <1>11. /\ Buffer(c)' = {} /\ ErrorString(c)' = {}
         /\ Holds(c)' = arrays[c] /\ Holds(c) = arrays[c] \cup {a0}
    BY <1>1, <1>3, <1>8 DEF Buffer, ErrorString, Holds
  <1>12. HeldIsLive(c)'
    <2>1. \A a \in arrays[c] : IsBlock(heap, a, "array") /\ heap[a].of = c
      BY <1>2 DEF HeldIsLive
    <2>2. \A a \in arrays[c] : heap'[a] = heap[a] /\ a \in Addr
      BY <1>4, <1>7, <2>1 DEF IsBlock
    <2> QED BY <1>1, <1>11, <2>1, <2>2 DEF HeldIsLive, IsBlock
  <1>13. NothingLost(c)'
    BY <1>2, <1>7, <1>11 DEF NothingLost
  <1>14. ErrorTellsFailure(c)' /\ Stages(c)' /\ AnswerIsOwn(c)'
    BY <1>1, <1>2, <1>3, <1>8 DEF ErrorTellsFailure, Stages, AnswerIsOwn
  <1> QED BY <1>6, <1>9, <1>10, <1>12, <1>13, <1>14, StepKeeps DEF CallerInv

LEMMA ReturnKeeps ==
  ASSUME IInv, NEW c \in Caller, Return(c)
  PROVE  IInv'
  <1> USE DEF IInv
  <1> DEFINE emptied == IF c \in GoCaller THEN NullVars ELSE [NullVars EXCEPT !.err = cvar[c].err]
  <1>1. /\ pc[c] = "cleanup" /\ pc' = [pc EXCEPT ![c] = "idle"]
        /\ undefined' = (undefined \/ \E a \in arrays[c] : ~IsBlock(heap, a, "array"))
        /\ heap' = Dealloc(heap, arrays[c])
        /\ arrays' = [arrays EXCEPT ![c] = {}]
        /\ cvar' = [cvar EXCEPT ![c] = emptied]
        /\ call' = [call EXCEPT ![c] = NoCall]
        /\ status' = [status EXCEPT ![c] = "none"]
        /\ answer' = [answer EXCEPT ![c] = NoAnswer]
        /\ UNCHANGED <<held, outcome>>
    BY DEF Return, FreeLists
  <1>2. HeldIsLive(c) /\ NothingLost(c)
    BY DEF CallerInv
  <1>3. \A a \in arrays[c] : IsBlock(heap, a, "array") /\ heap[a].of = c
    BY <1>2 DEF HeldIsLive
  <1>4. undefined' = FALSE
    BY <1>1, <1>3 DEF NoUndefined
  <1>5. \A a \in Addr : heap'[a] = IF a \in arrays[c] THEN Unused ELSE heap[a]
    BY <1>1 DEF Dealloc
  <1>6. TypeOK'
    <2>1. heap' \in [Addr -> Block \cup {Unused}]
      BY <1>1 DEF Dealloc, TypeOK
    <2>2. emptied \in [out : Addr \cup {Null}, len : Nat, err : Addr \cup {Null}]
      BY DEF NullVars, TypeOK
    <2>3. cvar' \in [Caller -> [out : Addr \cup {Null}, len : Nat, err : Addr \cup {Null}]]
      BY <1>1, <2>2 DEF TypeOK
    <2>4. call' \in [Caller -> [op : Ops \cup {"none"}, count : Nat, out : BOOLEAN, error : BOOLEAN]]
      BY <1>1 DEF TypeOK, NoCall
    <2>5. answer' \in [Caller -> [of : Caller \cup {Null}, text : Text \cup {"none"}]]
      BY <1>1 DEF TypeOK, NoAnswer
    <2>6. arrays' \in [Caller -> SUBSET Addr] /\ status' \in [Caller -> {"none", "OK", "ERR", "PANIC"}]
          /\ pc' \in [Caller -> {"idle", "call", "finish", "returned", "copy", "free", "cleanup"}]
      BY <1>1 DEF TypeOK
    <2> QED BY <1>1, <1>4, <2>1, <2>3, <2>4, <2>5, <2>6 DEF TypeOK
  <1>7. Frame(c)
    <2>1. /\ \A a \in Addr : heap[a] # Unused /\ heap[a].of # c => heap'[a] = heap[a]
          /\ \A a \in Addr : heap'[a] # Unused /\ heap'[a].of # c => heap'[a] = heap[a]
      BY <1>3, <1>5
    <2>2. \A d \in Caller \ {c} : /\ pc'[d] = pc[d] /\ arrays'[d] = arrays[d]
                                 /\ cvar'[d] = cvar[d] /\ call'[d] = call[d]
                                 /\ status'[d] = status[d] /\ answer'[d] = answer[d]
      BY <1>1
    <2> QED BY <1>1, <2>1, <2>2 DEF Frame
  <1>8. pc'[c] = "idle" /\ arrays'[c] = {} /\ answer'[c] = NoAnswer
    BY <1>1 DEF TypeOK
  <1>9. Holds(c) = arrays[c] /\ Buffer(c)' = {} /\ ErrorString(c)' = {} /\ Holds(c)' = {}
    BY <1>1, <1>8 DEF Holds, Buffer, ErrorString
  <1>10. HeldIsLive(c)' /\ NothingLost(c)'
    BY <1>2, <1>5, <1>8, <1>9 DEF HeldIsLive, NothingLost
  <1>11. ErrorTellsFailure(c)' /\ Stages(c)' /\ AnswerIsOwn(c)'
    BY <1>8 DEF ErrorTellsFailure, Stages, AnswerIsOwn
  <1> QED BY <1>4, <1>6, <1>7, <1>10, <1>11, StepKeeps DEF CallerInv

-----------------------------------------------------------------------------
LEMMA StutterKeeps == IInv /\ UNCHANGED vars => IInv'
  <1> SUFFICES ASSUME IInv, UNCHANGED vars PROVE IInv'
    OBVIOUS
  <1>1. TypeOK' /\ NoUndefined'
    BY DEF IInv, TypeOK, NoUndefined, vars
  <1>2. ASSUME NEW c \in Caller PROVE CallerInv(c)'
    <2>1. Holds(c)' = Holds(c) /\ Buffer(c)' = Buffer(c) /\ ErrorString(c)' = ErrorString(c)
      BY DEF Holds, Buffer, ErrorString, vars
    <2> QED BY <2>1 DEF IInv, CallerInv, HeldIsLive, NothingLost, ErrorTellsFailure,
                        Stages, AnswerIsOwn, IsBlock, vars
  <1> QED BY <1>1, <1>2 DEF IInv

LEMMA NextKeeps == IInv /\ [Next]_vars => IInv'
  <1> SUFFICES ASSUME IInv, [Next]_vars PROVE IInv'
    OBVIOUS
  <1>1. CASE Next
    <2>1. PICK c \in Caller : GoCall(c) \/ RawCall(c) \/ Continue(c)
      BY <1>1 DEF Next
    <2> QED BY <2>1, GoCallKeeps, RawCallKeeps, BodyKeeps, FinishOkKeeps,
               FinishNoOutKeeps, FinishFailedKeeps, TakeErrorKeeps, CopyOutKeeps,
               FreeBufferKeeps, ReturnKeeps DEF Continue
  <1>2. CASE UNCHANGED vars
    BY <1>2, StutterKeeps
  <1> QED BY <1>1, <1>2

\* The inductive invariant of the C ABI's memory holds in every behaviour.
THEOREM CAbiInvariant == Spec => []IInv
  BY InitIInv, NextKeeps, PTL DEF Spec

\* No behaviour of the library and its callers frees a block twice or as
\* something else, or reads through a stale or null pointer.
THEOREM CAbiNoUndefined == Spec => []NoUndefined
  <1>1. IInv => NoUndefined
    BY DEF IInv
  <1> QED BY <1>1, CAbiInvariant, PTL

\* Nothing leaks: every allocated block is held by a caller that will free it.
THEOREM CAbiEveryBlockHeld == Spec => []EveryBlockHeld
  <1>1. IInv => EveryBlockHeld
    <2> SUFFICES ASSUME IInv, NEW a \in Addr, heap[a] # Unused
                 PROVE  \E c \in Caller : a \in Holds(c)
      BY DEF EveryBlockHeld
    <2>1. heap[a].of \in Caller
      BY DEF IInv, TypeOK, Block
    <2> QED BY <2>1 DEF IInv, CallerInv, NothingLost
  <1> QED BY <1>1, CAbiInvariant, PTL

\* Every method of the Go wrapper returns its own call's result or error.
THEOREM CAbiAnswersAreOwn == Spec => []AnswersAreOwn
  <1>1. IInv => AnswersAreOwn
    BY DEF IInv, CallerInv, AnswersAreOwn
  <1> QED BY <1>1, CAbiInvariant, PTL
=============================================================================
