-------------------------------- MODULE CAbi --------------------------------
(***************************************************************************)
(* Memory across the C ABI (go_ffi.rs) and its Go wrapper (bbs.go).        *)
(*                                                                         *)
(* A call hands its caller an owned buffer, an owned error string or        *)
(* neither, through pointers to the caller's own variables, and the caller *)
(* must free exactly what it got.  Several callers are inside the library  *)
(* at once and share one heap, so an address one of them frees is the next *)
(* address another is given.                                               *)
(*                                                                         *)
(* A Go caller is the wrapper: it copies its lists of octet strings to     *)
(* malloc'ed arrays, has fresh variables in every call and always passes   *)
(* pointers to them.  A raw caller follows the header's rules directly: it *)
(* may pass null for any out-parameter, and keeps its error variable, with  *)
(* what it last held, from one call to the next.                           *)
(*                                                                         *)
(* The calls' answers are left open here (Flow says what they are): a body *)
(* that accepts its arguments may succeed, fail or panic.                   *)
(***************************************************************************)
EXTENDS Naturals, FiniteSets

CONSTANTS
  GoCaller,      \* goroutines inside a method of Native
  RawCaller,     \* users of the C functions themselves
  RawOps,        \* the functions those call
  Addr,          \* addresses of the heap
  Malloc,        \* Malloc[free]: the sets of blocks the allocator may hand out
  Null,          \* the null pointer
  Unused,        \* content of an address that is not allocated
  Lens,          \* lengths of result buffers
  MaxItems       \* bound: items in a list of octet strings

Caller == GoCaller \cup RawCaller

\* One entry point per function: Go wraps all of them but sk_to_pk.
GoOps == {"blind_sign", "jwp_issue", "jwp_verify", "blind_proof_verify"}
Ops == GoOps \cup {"sk_to_pk"}

\* What a block holds: an array, a call's result, or what its error says.
Text == {"array", "result", "error", "panic"}

\* An allocated block: whose free function takes it, and whose call wrote it.
Block == [kind : {"array", "buffer", "string"}, len : Nat, of : Caller, text : Text]

ASSUME CAbiAssumption ==
  /\ GoCaller \cap RawCaller = {}
  /\ RawOps \subseteq Ops
  /\ Null \notin Addr \cup Caller
  /\ Malloc \in [SUBSET Addr -> SUBSET SUBSET Addr]
  /\ \A free \in SUBSET Addr : Malloc[free] \subseteq SUBSET free
  /\ Lens \subseteq Nat \ {0}
  /\ MaxItems \in Nat
  /\ Unused \notin Block

VARIABLES
  heap,          \* what is allocated at each address
  pc,            \* where each caller is
  call,          \* the call each caller makes
  arrays,        \* the blocks of a Go caller's copied lists
  held,          \* a result the library has not handed out yet
  outcome,       \* how the body ended
  status,        \* the C return value
  cvar,          \* the caller's variables behind the out-parameters
  answer,        \* what the caller has read of its result
  undefined      \* whether undefined behaviour has occurred

vars == <<heap, pc, call, arrays, held, outcome, status, cvar, answer, undefined>>

-----------------------------------------------------------------------------
(* The functions and their arguments.                                      *)

\* The others answer with a buffer, these with the status alone.
ReturnsBuffer(op) == op # "blind_proof_verify"
TakesLists(op) == op \in {"blind_sign", "blind_proof_verify"}

\* A pointer and length pair (or a pair of arrays and their count).
Slice == [null : BOOLEAN, len : 0 .. 1]

\* cBytes, byteArrays: no octets are a null pointer and length 0.
cBytes(n) == [null |-> n = 0, len |-> n]

\* Mutant: only the length is looked at.
LengthOnly(s) == IF s.len = 0 THEN "empty" ELSE "read"

\* bytes_or_empty and, for arrays, read_byte_array: what is done with the
\* pointer.
bytes_or_empty(s) ==
  IF s.len = 0 THEN "empty" ELSE IF s.null THEN "refused" ELSE "read"

\* json.Marshal of HolderPointers: a nil slice is null, an empty one is [].
MarshalledPointers(pointers) ==
  IF pointers = "nil" THEN "null" ELSE IF pointers = "none" THEN "[]" ELSE "[...]"

\* suite_id_for; keybind has the same two known values.
Known(selector) == selector \in {0, 1}

\* disclosures_from_codes on a list with only known codes, or with another.
KnownCodes(codes) == codes = "known"

\* What can vary between calls and decides whether the body refuses them:
\* one pointer and length pair, selectors and the pointers' JSON.
GoArguments ==
  [input : {cBytes(n) : n \in 0 .. 1}, suite : 0 .. 2, keybind : 0 .. 2,
   codes : {"known", "unknown"},
   pointers : {MarshalledPointers(p) : p \in {"nil", "none", "some"}}]

RawArguments ==
  [input : Slice, suite : 0 .. 2, keybind : 0 .. 2,
   codes : {"known", "unknown"}, pointers : {"null", "[]", "[...]"}]

\* What each entry point's closure refuses before, or besides, what the
\* algebra refuses.
NullInput(a) == bytes_or_empty(a.input) = "refused"
blind_sign_refuses(a) == NullInput(a) \/ ~Known(a.suite)
jwp_issue_refuses(a) ==
  NullInput(a) \/ a.pointers = "null" \/ ~Known(a.suite) \/ ~Known(a.keybind)
jwp_verify_refuses(a) == NullInput(a) \/ ~Known(a.suite)
proof_verify_refuses(a) == NullInput(a) \/ ~KnownCodes(a.codes) \/ ~Known(a.suite)
sk_to_pk_refuses(a) == NullInput(a)

\* Which of them the call of op runs into.
Refused(op, a) ==
  \/ op = "blind_sign" /\ blind_sign_refuses(a)
  \/ op = "jwp_issue" /\ jwp_issue_refuses(a)
  \/ op = "jwp_verify" /\ jwp_verify_refuses(a)
  \/ op = "blind_proof_verify" /\ proof_verify_refuses(a)
  \/ op = "sk_to_pk" /\ sk_to_pk_refuses(a)

\* How the body of op can end on the arguments arguments, and whether it
\* reads through a null pointer on the way.
Ends(op, arguments) ==
  UNION {{[outcome |-> o, null |-> bytes_or_empty(a.input) = "read" /\ a.input.null] :
            o \in IF Refused(op, a) THEN {"error"} ELSE {"result", "error", "panic"}} :
         a \in arguments}

BodyEnds == [go |-> [op \in GoOps |-> Ends(op, GoArguments)],
             raw |-> [op \in RawOps |-> Ends(op, RawArguments)]]

EndsOf(c, op) == IF c \in GoCaller THEN BodyEnds.go[op] ELSE BodyEnds.raw[op]

-----------------------------------------------------------------------------
(* The heap.                                                               *)

IsFree(h) == {a \in DOMAIN h : h[a] = Unused}

\* h with the blocks of s allocated; s \in Malloc[IsFree(h)].
Alloc(h, s, block) == [a \in Addr |-> IF a \in s THEN block ELSE h[a]]
Dealloc(h, s) == [a \in Addr |-> IF a \in s THEN Unused ELSE h[a]]

\* A pointer to a live block of the kind its user takes it for.
IsBlock(h, a, kind) == a \in Addr /\ h[a] # Unused /\ h[a].kind = kind

NoCall == [op |-> "none", count |-> 0, out |-> FALSE, error |-> FALSE]
NoAnswer == [of |-> Null, text |-> "none"]
NullVars == [out |-> Null, len |-> 0, err |-> Null]

Init ==
  /\ heap = [a \in Addr |-> Unused]
  /\ pc = [c \in Caller |-> "idle"]
  /\ call = [c \in Caller |-> NoCall]
  /\ arrays = [c \in Caller |-> {}]
  /\ held = [c \in Caller |-> Null]
  /\ outcome = [c \in Caller |-> "none"]
  /\ status = [c \in Caller |-> "none"]
  /\ cvar = [c \in Caller |-> NullVars]
  /\ answer = [c \in Caller |-> NoAnswer]
  /\ undefined = FALSE

-----------------------------------------------------------------------------
(* A call, step by step.                                                   *)

\* Blocks byteArrays allocates: the two arrays and a copy of each item (an
\* empty item gets a block too), or none for an empty list.
ListBlocks(count) == IF count = 0 THEN 0 ELSE 2 + count

\* A method of Native up to its C call: byteArrays, and fresh variables.
GoCall(c) ==
  /\ c \in GoCaller /\ pc[c] = "idle"
  /\ \E op \in GoOps, count \in 0 .. MaxItems :
       /\ count > 0 => TakesLists(op)
       /\ call' = [call EXCEPT ![c] = [op |-> op, count |-> count,
                                       out |-> ReturnsBuffer(op), error |-> TRUE]]
       /\ \E s \in Malloc[IsFree(heap)] :
            /\ Cardinality(s) = ListBlocks(count)
            /\ arrays' = [arrays EXCEPT ![c] = s]
            /\ heap' = Alloc(heap, s, [kind |-> "array", len |-> 1,
                                       of |-> c, text |-> "array"])
  /\ cvar' = [cvar EXCEPT ![c] = NullVars]
  /\ pc' = [pc EXCEPT ![c] = "call"]
  /\ UNCHANGED <<held, outcome, status, answer, undefined>>

\* A C caller: its error variable holds what the last call left in it.
RawCall(c) ==
  /\ c \in RawCaller /\ pc[c] = "idle"
  /\ \E op \in RawOps, out \in BOOLEAN, error \in BOOLEAN :
       /\ out => ReturnsBuffer(op)
       /\ call' = [call EXCEPT ![c] = [op |-> op, count |-> 0,
                                       out |-> out, error |-> error]]
  /\ pc' = [pc EXCEPT ![c] = "call"]
  /\ UNCHANGED <<heap, arrays, held, outcome, status, cvar, answer, undefined>>

\* The catch_unwind closure: reads the arguments, the caller's arrays among
\* them, and on success leaves the answer in a buffer of its own.
Body(c) ==
  /\ pc[c] = "call"
  /\ \E end \in EndsOf(c, call[c].op) :
       /\ undefined' = (\/ undefined \/ end.null
                        \/ \E x \in arrays[c] : ~IsBlock(heap, x, "array"))
       /\ outcome' = [outcome EXCEPT ![c] = end.outcome]
       /\ \/ /\ end.outcome = "result" /\ ReturnsBuffer(call[c].op)
             /\ \E x \in Addr, n \in Lens :
                  /\ {x} \in Malloc[IsFree(heap)]
                  /\ held' = [held EXCEPT ![c] = x]
                  /\ heap' = Alloc(heap, {x}, [kind |-> "buffer", len |-> n,
                                               of |-> c, text |-> "result"])
          \/ /\ ~(end.outcome = "result" /\ ReturnsBuffer(call[c].op))
             /\ UNCHANGED <<held, heap>>
  /\ pc' = [pc EXCEPT ![c] = "finish"]
  /\ UNCHANGED <<call, arrays, status, cvar, answer>>

\* Mutant: a caller without out-parameters loses the buffer.
ForgetBuffer(h, c) == h

\* The null out-parameter check returns while the buffer is still a Vec, so
\* it is dropped.
DropBuffer(h, c) == Dealloc(h, {held[c]})

\* set_error_out(h, c, text): an owned string behind error_out, when there
\* is an error_out.
set_error_out(h, c, text) ==
  \/ /\ call[c].error
     /\ \E x \in Addr :
          /\ {x} \in Malloc[IsFree(h)]
          /\ heap' = Alloc(h, {x}, [kind |-> "string", len |-> 1, of |-> c, text |-> text])
          /\ cvar' = [cvar EXCEPT ![c].err = x]
  \/ /\ ~call[c].error
     /\ heap' = h
     /\ UNCHANGED cvar

\* Mutant: the variable keeps the last call's error.
KeepErrorOut(c, v) == v

\* clear_error_out on the caller's variables v.
clear_error_out(c, v) == IF call[c].error THEN [v EXCEPT !.err = Null] ELSE v

\* finish_buffer on success, and the same tail written out in blind_sign and
\* blind_proof_verify: hand the buffer out and clear the error.
FinishOk(c) ==
  /\ pc[c] = "finish" /\ outcome[c] = "result"
  /\ ReturnsBuffer(call[c].op) => call[c].out
  /\ LET handed == IF ReturnsBuffer(call[c].op)
                   THEN [cvar[c] EXCEPT !.out = held[c], !.len = heap[held[c]].len]
                   ELSE cvar[c]
     IN  cvar' = [cvar EXCEPT ![c] = clear_error_out(c, handed)]
  /\ held' = [held EXCEPT ![c] = Null]
  /\ status' = [status EXCEPT ![c] = "OK"]
  /\ pc' = [pc EXCEPT ![c] = "returned"]
  /\ outcome' = [outcome EXCEPT ![c] = "none"]
  /\ UNCHANGED <<heap, call, arrays, answer, undefined>>

\* finish_buffer when there is a buffer and nowhere to write it.
FinishNoOut(c) ==
  /\ pc[c] = "finish" /\ outcome[c] = "result"
  /\ ReturnsBuffer(call[c].op) /\ ~call[c].out
  /\ set_error_out(DropBuffer(heap, c), c, "error")
  /\ held' = [held EXCEPT ![c] = Null]
  /\ status' = [status EXCEPT ![c] = "ERR"]
  /\ pc' = [pc EXCEPT ![c] = "returned"]
  /\ outcome' = [outcome EXCEPT ![c] = "none"]
  /\ UNCHANGED <<call, arrays, answer, undefined>>

\* Mutant: a panic is told as an error.
StatusErr(o) == "ERR"

StatusOf(o) == IF o = "panic" THEN "PANIC" ELSE "ERR"

\* finish_buffer on an error or a caught panic: the out-parameters are left
\* as they were.
FinishFailed(c) ==
  /\ pc[c] = "finish" /\ outcome[c] # "result"
  /\ set_error_out(heap, c, outcome[c])
  /\ status' = [status EXCEPT ![c] = StatusOf(outcome[c])]
  /\ pc' = [pc EXCEPT ![c] = "returned"]
  /\ outcome' = [outcome EXCEPT ![c] = "none"]
  /\ UNCHANGED <<call, arrays, held, answer, undefined>>

\* The error variable is looked at first, whatever the status (takeError):
\* null is no error, anything else is read and freed.
takeError(c) ==
  /\ pc[c] = "returned"
  /\ \/ /\ call[c].error /\ cvar[c].err # Null
        /\ undefined' = (undefined \/ ~IsBlock(heap, cvar[c].err, "string"))
        /\ answer' = [answer EXCEPT ![c] =
             IF heap[cvar[c].err] = Unused THEN NoAnswer
             ELSE [of |-> heap[cvar[c].err].of, text |-> heap[cvar[c].err].text]]
        /\ heap' = Dealloc(heap, {cvar[c].err})
     \/ /\ ~call[c].error \/ cvar[c].err = Null
        /\ UNCHANGED <<undefined, answer, heap>>
  /\ pc' = [pc EXCEPT ![c] =
              IF status[c] = "OK" /\ ReturnsBuffer(call[c].op) THEN "copy" ELSE "cleanup"]
  /\ UNCHANGED <<call, arrays, held, outcome, status, cvar>>

\* GoBytes(out, len): the answer is copied out of the library's buffer.
CopyOut(c) ==
  /\ pc[c] = "copy"
  /\ LET a == cvar[c].out
     IN  /\ undefined' = (undefined \/ ~IsBlock(heap, a, "buffer") \/ heap[a].len # cvar[c].len)
         /\ answer' = [answer EXCEPT ![c] =
              IF heap[a] = Unused THEN NoAnswer
              ELSE [of |-> heap[a].of, text |-> heap[a].text]]
  /\ pc' = [pc EXCEPT ![c] = "free"]
  /\ UNCHANGED <<heap, call, arrays, held, outcome, status, cvar>>

\* free_buffer(out, len): the box of exactly that length; null and an empty
\* one are ignored.
free_buffer(c) ==
  /\ pc[c] = "free"
  /\ LET a == cvar[c].out
     IN  IF a = Null \/ cvar[c].len = 0
         THEN UNCHANGED <<heap, undefined>>
         ELSE /\ undefined' = (undefined \/ ~IsBlock(heap, a, "buffer")
                                         \/ heap[a].len # cvar[c].len)
              /\ heap' = Dealloc(heap, {a})
  /\ pc' = [pc EXCEPT ![c] = "cleanup"]
  /\ UNCHANGED <<call, arrays, held, outcome, status, cvar, answer>>

\* Mutant: the method does not defer the free.
NotDeferred(c) == {}

\* What the function byteArrays returns frees.
FreeLists(c) == arrays[c]

\* The method returns: its deferred free runs and its variables are gone.  A
\* raw caller forgets the buffer it freed, but does not touch its error
\* variable: the functions say what that holds.
Return(c) ==
  /\ pc[c] = "cleanup"
  /\ undefined' = (undefined \/ \E a \in FreeLists(c) : ~IsBlock(heap, a, "array"))
  /\ heap' = Dealloc(heap, FreeLists(c))
  /\ arrays' = [arrays EXCEPT ![c] = {}]
  /\ cvar' = [cvar EXCEPT ![c] =
                IF c \in GoCaller THEN NullVars ELSE [NullVars EXCEPT !.err = cvar[c].err]]
  /\ call' = [call EXCEPT ![c] = NoCall]
  /\ status' = [status EXCEPT ![c] = "none"]
  /\ answer' = [answer EXCEPT ![c] = NoAnswer]
  /\ pc' = [pc EXCEPT ![c] = "idle"]
  /\ UNCHANGED <<held, outcome>>

\* What a caller does once it is in a call.
Continue(c) ==
  \/ Body(c) \/ FinishOk(c) \/ FinishNoOut(c) \/ FinishFailed(c)
  \/ takeError(c) \/ CopyOut(c) \/ free_buffer(c) \/ Return(c)

Next == \E c \in Caller : GoCall(c) \/ RawCall(c) \/ Continue(c)

Spec == Init /\ [][Next]_vars

\* A call computes and waits for nothing, and the schedulers of the Go
\* runtime and the system run every thread that can run.
FairSpec == Spec /\ \A c \in Caller : WF_vars(Continue(c))

-----------------------------------------------------------------------------
(* Properties.                                                             *)

TypeOK ==
  /\ heap \in [Addr -> Block \cup {Unused}]
  /\ pc \in [Caller -> {"idle", "call", "finish", "returned", "copy", "free", "cleanup"}]
  /\ call \in [Caller -> [op : Ops \cup {"none"}, count : Nat, out : BOOLEAN, error : BOOLEAN]]
  /\ arrays \in [Caller -> SUBSET Addr]
  /\ held \in [Caller -> Addr \cup {Null}]
  /\ outcome \in [Caller -> Text \cup {"none"}]
  /\ status \in [Caller -> {"none", "OK", "ERR", "PANIC"}]
  /\ cvar \in [Caller -> [out : Addr \cup {Null}, len : Nat, err : Addr \cup {Null}]]
  /\ answer \in [Caller -> [of : Caller \cup {Null}, text : Text \cup {"none"}]]
  /\ undefined \in BOOLEAN

\* The result buffer caller c, or the library on its behalf, has to free.
Buffer(c) ==
  IF pc[c] = "finish" /\ outcome[c] = "result" /\ ReturnsBuffer(call[c].op)
  THEN {held[c]}
  ELSE IF pc[c] \in {"returned", "copy", "free"} /\ status[c] = "OK" /\ ReturnsBuffer(call[c].op)
  THEN {cvar[c].out}
  ELSE {}

\* The error string caller c has to free.
ErrorString(c) ==
  IF pc[c] = "returned" /\ status[c] # "OK" /\ call[c].error THEN {cvar[c].err} ELSE {}

\* Everything caller c, where it stands in its call, still has to free.
Holds(c) == arrays[c] \cup Buffer(c) \cup ErrorString(c)

\* No call, from however many threads and whatever it answers, makes the
\* library or its caller free a block twice, free it as another kind or
\* length, or read through a null or stale pointer (finish_buffer's comment:
\* "exactly how one of them ends up leaking or double-freeing").
NoUndefined == ~undefined

\* Nothing leaks: whatever is allocated is held by a caller that will free it.
EveryBlockHeld ==
  \A a \in Addr : heap[a] # Unused => \E c \in Caller : a \in Holds(c)

AnswerIsOwn(c) ==
  pc[c] = "cleanup" =>
    IF status[c] = "OK"
    THEN IF ReturnsBuffer(call[c].op) THEN answer[c] = [of |-> c, text |-> "result"]
         ELSE answer[c] = NoAnswer
    ELSE /\ answer[c].of = c
         /\ answer[c].text \notin {"none", "result", "array"}
         /\ status[c] = "PANIC" <=> answer[c].text = "panic"

\* What a Go method returns is its own call's answer, whatever other calls
\* did meanwhile: the octets of its own result, or the text of its own error,
\* never the "unknown error" of a failure that left no text, and told as a
\* panic exactly if it was one (statusError).
AnswersAreOwn == \A c \in GoCaller : AnswerIsOwn(c)

\* Every block is freed in the end: the arrays of byteArrays on every path
\* through a method, the buffer on success, the string on failure.
EveryBlockFreed == \A a \in Addr : heap[a] # Unused ~> heap[a] = Unused

-----------------------------------------------------------------------------
(* The inductive invariant.  A block names its owner, so what one caller   *)
(* allocates and frees is none of what another one holds.                  *)

HeldIsLive(c) ==
  /\ \A a \in arrays[c] : IsBlock(heap, a, "array") /\ heap[a].of = c
  /\ \A a \in Buffer(c) :
       /\ IsBlock(heap, a, "buffer")
       /\ heap[a].of = c /\ heap[a].text = "result"
       /\ heap[a].len # 0
       /\ pc[c] # "finish" => heap[a].len = cvar[c].len
  /\ \A a \in ErrorString(c) :
       /\ IsBlock(heap, a, "string")
       /\ heap[a].of = c /\ heap[a].text \notin {"none", "result", "array"}
       /\ status[c] = "PANIC" <=> heap[a].text = "panic"

NothingLost(c) ==
  \A a \in Addr : heap[a] # Unused /\ heap[a].of = c => a \in Holds(c)

\* A successful call leaves no error behind in a variable that was passed.
ErrorTellsFailure(c) ==
  pc[c] = "returned" /\ status[c] = "OK" /\ call[c].error => cvar[c].err = Null

Stages(c) ==
  /\ pc[c] = "idle" => arrays[c] = {}
  /\ pc[c] = "finish" => outcome[c] \notin {"none", "array"}
  /\ pc[c] \in {"returned", "copy", "free", "cleanup"} => status[c] # "none"
  /\ pc[c] \in {"copy", "free"} => status[c] = "OK" /\ ReturnsBuffer(call[c].op)
  /\ pc[c] # "idle" => IF c \in GoCaller THEN call[c].error /\ call[c].op \in GoOps
                       ELSE call[c].op \in RawOps
  /\ pc[c] \notin {"free", "cleanup"} => answer[c] = NoAnswer
  /\ pc[c] = "free" => answer[c] = [of |-> c, text |-> "result"]

CallerInv(c) ==
  /\ HeldIsLive(c)
  /\ NothingLost(c)
  /\ ErrorTellsFailure(c)
  /\ Stages(c)
  /\ c \in GoCaller => AnswerIsOwn(c)

IInv ==
  /\ TypeOK
  /\ NoUndefined
  /\ \A c \in Caller : CallerInv(c)
=============================================================================
