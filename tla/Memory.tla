------------------------------- MODULE Memory -------------------------------
(***************************************************************************)
(* libs/mem: one descriptor of byte-sized elements under the calls that    *)
(* precizer makes of the library.  A function of the library is an         *)
(* operator from the descriptor to the outcome of the call.                *)
(*                                                                         *)
(* The functions chain their helpers with run(), which skips a helper once *)
(* HALTED has reached the local status, and go on while TRIUMPH & status,  *)
(* of which HALTED is a part.  So a call that meets Ctrl+C goes on without *)
(* its remaining helpers.  A number t says when HALTED arrives: after      *)
(* helper t of the call, at 0 before the call, or Never.                   *)
(***************************************************************************)
EXTENDS Naturals, Sequences, FiniteSetsExt

CONSTANTS
    BLOCK,      \* MEMORY_BLOCK_BYTES
    SIZE_MAX,
    HeapLimit,  \* malloc() never gives more
    Texts,      \* the strings of the caller: sequences of bytes other than 0
    Counts      \* the sizes and lengths that the caller asks for

ASSUME MemoryAssumption ==
    /\ BLOCK \in Nat \ {0} /\ SIZE_MAX \in Nat /\ HeapLimit \in Nat
    /\ Counts \subseteq 0..SIZE_MAX
    /\ \A s \in Texts : s \in Seq(Nat \ {0})

\* The helpers of the longest function, and the end of time.
LastHelper == 9
Never == LastHelper + 1

VARIABLES
    m,          \* the descriptor: data (empty for NULL), length, string_length, is_string
    telemetry,  \* current_heap_reserved_bytes, current_payload_bytes,
                \* current_block_overhead_bytes
    halted,     \* global_return_status has HALTED
    failed,     \* the last call returned FAILURE
    text,       \* observation: the string that the calls have asked for before HALTED
    overrun     \* observation: a call has written past the end of its block

vars == <<m, telemetry, halted, failed, text, overrun>>

Init ==
    /\ m \in [data : {<<>>}, length : {0}, string_length : {0}, is_string : BOOLEAN]
    /\ telemetry = [reserved |-> 0, payload |-> 0, overhead |-> 0]
    /\ halted = FALSE
    /\ failed = FALSE
    /\ text = <<>>
    /\ overrun = FALSE
-----------------------------------------------------------------------------
\* The helper with number i of a call is executed; the first one always is.
Runs(i, t) == i = 1 \/ i <= t

\* When the HALTED of a call reaches the functions it calls.
Inside(t) == IF t = 0 THEN 0 ELSE Never

\* What a write of s to the offset makes of the block itself.
Put(data, offset, s) ==
    [i \in 1..Len(data) |-> IF i \in offset + 1 .. offset + Len(s) THEN s[i - offset] ELSE data[i]]

\* The length up to the first zero.
Measure(s) == Min({i \in 0..Len(s) : i = Len(s) \/ s[i + 1] = 0})

Payload(d) == SubSeq(d.data, 1, d.length)

\* string_length does not fit length.
Inconsistent(d) ==
    /\ d.is_string
    /\ IF d.length = 0 THEN d.string_length # 0 ELSE d.string_length >= d.length

\* An outcome: the descriptor, the telemetry, whether the call was successful, and
\* whether it wrote past the end of the block.
Same(d, tele)   == [m |-> d, tele |-> tele, ok |-> TRUE,  past |-> FALSE]
Failed(d, tele) == [m |-> d, tele |-> tele, ok |-> FALSE, past |-> FALSE]

\* A telemetry counter moves by the difference of two sizes.
Shift(counter, from, to) == (counter + to) - from

\* mem_delete().
Delete(d, tele) ==
    LET reserve == Len(d.data)
    IN  Same([d EXCEPT !.data = <<>>, !.length = 0, !.string_length = 0],
             [reserved |-> tele.reserved - reserve,
              payload  |-> tele.payload - d.length,
              overhead |-> tele.overhead - (reserve - d.length)])

\* mem_write_zero_terminator(), which checks that it stays inside the block.
Terminate(d, at) == [d EXCEPT !.data = Put(d.data, at, <<0>>)]

\* mem_string_truncate() inside m_resize(): the terminator, unless it is there.
TerminateIf(runs, d, at) == IF runs THEN Terminate(d, at) ELSE d

RoundUp(bytes) == ((bytes + BLOCK - 1) \div BLOCK) * BLOCK

\* Mutant of Empty: the block overhead is forgotten.
EmptySilently(d, tele, t) ==
    Same(TerminateIf(Runs(3, t) /\ d.is_string /\ d.data # <<>>,
                     [d EXCEPT !.length = 0, !.string_length = 0], 0),
         [tele EXCEPT !.payload = @ - d.length])

\* m_resize(d, 0) without RELEASE_UNUSED: the block stays.
Empty(d, tele, t) ==
    LET d0 == [d EXCEPT !.length = 0, !.string_length = 0]
    IN  Same(TerminateIf(Runs(3, t) /\ d.is_string /\ d.data # <<>>, d0, 0),
             [tele EXCEPT !.payload = @ - d.length, !.overhead = @ + d.length])

\* The block that m_resize() ends with, and its content.
NeedsBlock(d, count, flags) ==
    \/ d.data = <<>>
    \/ RoundUp(count) > Len(d.data)
    \/ "RELEASE_UNUSED" \in flags /\ RoundUp(count) < Len(d.data)

Block(d, count, flags, heap) ==
    IF NeedsBlock(d, count, flags)
    THEN [i \in 1..RoundUp(count) |-> IF i <= Len(d.data) THEN d.data[i] ELSE heap.fill]
    ELSE d.data

Zeroed(d, count, flags, data) ==
    IF "ZERO_NEW_MEMORY" \in flags
    THEN [i \in DOMAIN data |-> IF i \in d.length + 1 .. count THEN 0 ELSE data[i]]
    ELSE data

\* The visible string that fits into count elements.
KeptLength(d, count) ==
    IF d.length = 0 THEN 0 ELSE Min({d.string_length, count - 1})

\* m_resize() to a size other than 0, with its memory at hand.
Reshape(d, tele, count, flags, heap, t) ==
    LET data    == Zeroed(d, count, flags, Block(d, count, flags, heap))
        kept    == IF d.is_string THEN KeptLength(d, count) ELSE 0
        resized == [d EXCEPT !.data = data, !.length = count, !.string_length = kept]
    IN  Same(TerminateIf(Runs(3, t) /\ d.is_string, resized, kept),
             [reserved |-> Shift(tele.reserved, Len(d.data), Len(data)),
              payload  |-> Shift(tele.payload, d.length, count),
              overhead |-> Shift(tele.overhead, Len(d.data) - d.length, Len(data) - count)])

\* malloc() or realloc() gives no block of that size.
NoMemory(d, count, flags, heap) ==
    /\ NeedsBlock(d, count, flags)
    /\ RoundUp(count) > HeapLimit \/ ~heap.gives

\* mem_resize().  Its helpers: the old size, the new size, and mem_delete(),
\* mem_write_zero_terminator() or mem_string_truncate().
Resize(d, tele, count, flags, heap, t) ==
    LET frees == count = 0 /\ "RELEASE_UNUSED" \in flags /\ d.data # <<>>
    IN  IF Inconsistent(d) THEN Failed(d, tele)
        ELSE IF frees THEN IF Runs(3, t) THEN Delete(d, tele) ELSE Same(d, tele)
        ELSE IF count = d.length THEN Same(d, tele)
        ELSE IF count = 0 THEN Empty(d, tele, t)
        ELSE IF RoundUp(count) > SIZE_MAX \/ NoMemory(d, count, flags, heap) THEN Failed(d, tele)
        ELSE Reshape(d, tele, count, flags, heap, t)
-----------------------------------------------------------------------------
(***************************************************************************)
(* mem_core_string().  A source is a string of the caller, or the rest of  *)
(* the destination's own string from an offset on.                         *)
(***************************************************************************)
\* source_length, which the functions for strings of unknown length measure
\* with helper 2.
SourceLength(source, t) ==
    IF source.measured /\ ~Runs(2, t) THEN 0 ELSE Len(source.text)

\* The helpers before the lengths are computed.
Before(source) == IF source.measured THEN 2 ELSE 1

\* The source inside the destination is read from where it is by then.
Transferred(data, source, bytes) ==
    IF source.inside THEN SubSeq(data, source.offset + 1, source.offset + bytes)
    ELSE SubSeq(source.text, 1, bytes)

\* The end of a transfer: the bytes, the terminator, the cached length.
Land(d, source, offset, bytes, visible, terminates) ==
    LET moved == [d EXCEPT !.data = Put(d.data, offset, Transferred(d.data, source, bytes))]
    IN  [TerminateIf(terminates, moved, visible) EXCEPT !.string_length = visible]

\* memmove() of so many bytes to the offset leaves the block: nothing checks it.
PastBlock(d, offset, bytes) == bytes > 0 /\ offset + bytes > Len(d.data)

\* m_resize() and then the bytes, as helpers k and k + 1.  A failure of m_resize()
\* ends the call unless HALTED comes with it: FAILURE | HALTED is a TRIUMPH.  Then,
\* or when HALTED comes just before m_resize(), the bytes go to the old block.
ResizeAndLand(d, tele, source, offset, bytes, visible, total, k, heap, t) ==
    LET r == IF Runs(k, t) THEN Resize(d, tele, total, {}, heap, Inside(t)) ELSE Same(d, tele)
    IN  IF (~r.ok /\ t # k) \/ r.m.data = <<>> THEN Failed(r.m, r.tele)
        ELSE [r EXCEPT !.m = Land(r.m, source, offset, bytes, visible, Runs(k + 1, t)),
                       !.past = PastBlock(r.m, offset, bytes)]

\* The source inside the destination moves to the front before the shrink.
LandAndResize(d, tele, source, bytes, visible, total, k, heap, t) ==
    LET landed == Land(d, source, 0, bytes, visible, Runs(k, t))
        r == IF Runs(k + 1, t) THEN Resize(landed, tele, total, {}, heap, Inside(t))
             ELSE Same(landed, tele)
    IN  [r EXCEPT !.past = PastBlock(d, 0, bytes)]

\* Mutant of Replace: the destination shrinks before the bytes are moved.
ReplaceLate(d, tele, source, heap, t) ==
    LET visible == Len(source.text)
    IN  ResizeAndLand(d, tele, source, 0, visible, visible, visible + 1, 4, heap, t)

\* TRANSFER_REPLACE.
Replace(d, tele, source, heap, t) ==
    LET k       == Before(source)
        visible == SourceLength(source, t)
        total   == IF Runs(k + 1, t) THEN visible + 1 ELSE 0
        bytes   == IF Runs(k + 2, t) THEN visible ELSE 0
    IN  IF source.inside
        THEN LandAndResize(d, tele, source, bytes, visible, total, k + 3, heap, t)
        ELSE ResizeAndLand(d, tele, source, 0, bytes, visible, total, k + 3, heap, t)

\* TRANSFER_APPEND: nothing happens for an empty source.
Append_(d, tele, source, heap, t) ==
    LET k       == Before(source)
        length  == SourceLength(source, t)
        old     == IF Runs(k + 1, t) THEN d.string_length ELSE 0
        visible == IF Runs(k + 2, t) THEN old + length ELSE length
        total   == IF Runs(k + 3, t) THEN visible + 1 ELSE 0
        offset  == IF Runs(k + 4, t) THEN old ELSE 0
        bytes   == IF Runs(k + 5, t) THEN length ELSE 0
    IN  IF length = 0 THEN Same(d, tele)
        ELSE IF t > k + 3 /\ visible + 1 > SIZE_MAX THEN Failed(d, tele)
        ELSE ResizeAndLand(d, tele, source, offset, bytes, visible, total, k + 6, heap, t)

\* Mutant of CoreString: the mode is switched before it is checked.
CoreStringPromotes(d, tele, transfer, source, heap, t) ==
    IF ~d.is_string THEN Failed([d EXCEPT !.is_string = TRUE], tele)
    ELSE IF transfer = "append" THEN Append_(d, tele, source, heap, t)
    ELSE Replace(d, tele, source, heap, t)

\* mem_core_string() refuses a descriptor in data mode.
CoreString(d, tele, transfer, source, heap, t) ==
    IF ~d.is_string THEN Failed(d, tele)
    ELSE IF transfer = "append" THEN Append_(d, tele, source, heap, t)
    ELSE Replace(d, tele, source, heap, t)
-----------------------------------------------------------------------------
\* mem_string_truncate() as a call of its own.  Its helpers: the size, the
\* offset of an old terminator or the new terminator.
Truncate(d, tele, length, t) ==
    IF ~d.is_string \/ (d.length > 0 /\ Inconsistent(d)) THEN Failed(d, tele)
    ELSE IF d.length = 0 \/ length >= d.string_length THEN Same(d, tele)
    ELSE Same([TerminateIf(Runs(2, t), d, length) EXCEPT !.string_length = length], tele)

\* mem_finalize_string(), after the caller has written s to the buffer if it fits.
Finalize(d, tele, s, t) ==
    LET written == [d EXCEPT !.data = Put(d.data, 0, s)]
    IN  IF ~d.is_string \/ Len(s) >= d.length THEN Failed(d, tele)
        ELSE Same([TerminateIf(Runs(3, t), written, Len(s)) EXCEPT !.string_length = Len(s)], tele)

\* mem_convert_data_to_string().  Its helpers: the visible length, which its own
\* second helper measures, the room for it, m_resize(), the terminator.
ToString_(d, tele, heap, t) ==
    LET measured == IF t = 0 THEN 0 ELSE Measure(Payload(d))
        required == IF Runs(2, t) THEN measured + 1 ELSE 0
        grown    == IF d.length < required /\ Runs(3, t)
                    THEN Resize(d, tele, required, {}, heap, Inside(t)) ELSE Same(d, tele)
        last     == IF d.length < required THEN 4 ELSE 3
        String(q) == [q EXCEPT !.string_length = measured, !.is_string = TRUE]
    IN  CASE d.is_string -> IF Inconsistent(d) THEN Failed(d, tele) ELSE Same(d, tele)
          [] ~d.is_string /\ d.length = 0 -> Same([d EXCEPT !.is_string = TRUE], tele)
          [] ~d.is_string /\ d.length > 0 ->
                IF grown.ok \/ t = 3
                THEN [grown EXCEPT !.m = String(TerminateIf(Runs(last, t), grown.m, measured))]
                ELSE grown

\* mem_convert_string_to_data(): a terminator in the last element is dropped.
ToData(d, tele) ==
    LET drops == /\ d.is_string /\ d.length > 0
                 /\ d.string_length = d.length - 1
                 /\ d.data[d.length] = 0
        one   == IF drops THEN 1 ELSE 0
    IN  Same([d EXCEPT !.length = @ - one, !.string_length = 0, !.is_string = FALSE],
             [tele EXCEPT !.payload = @ - one, !.overhead = @ + one])
-----------------------------------------------------------------------------
(***************************************************************************)
(* The calls.                                                              *)
(***************************************************************************)
\* What malloc() does.  The fresh bytes are undefined; the code looks at one of
\* them at most.
Heaps == [fill : {0, 1}, gives : {TRUE}] \cup [fill : {0}, gives : {FALSE}]

\* When HALTED reaches the call.
Times == IF halted THEN {0} ELSE 1..Never

\* The call returns the outcome r; s is the string that it was asked for.  When a
\* call has written past its block anything may follow: the model ends there.
Return(r, s, t) ==
    /\ ~overrun /\ overrun' = r.past
    /\ m' = r.m /\ telemetry' = r.tele
    /\ failed' = ~r.ok
    /\ halted' = (t # Never)
    /\ text' = IF halted' THEN <<>> ELSE IF r.ok THEN s ELSE text

\* m_resize()
ResizeCall ==
    \E count \in Counts, flags \in SUBSET {"ZERO_NEW_MEMORY", "RELEASE_UNUSED"}, f \in Heaps \X Times :
        LET fits == IF count = 0 THEN 0 ELSE count - 1
        IN  Return(Resize(m, telemetry, count, flags, f[1], f[2]),
                   SubSeq(text, 1, Min({Len(text), fits})), f[2])

\* m_del()
DeleteCall ==
    \E t \in Times : Return(Delete(m, telemetry), <<>>, t)

\* The rest of the string from an offset on, as a source.
InsideSource(offset) ==
    [inside |-> TRUE, measured |-> FALSE, offset |-> offset,
     text |-> SubSeq(m.data, offset + 1, m.string_length)]

\* The sources of a transfer: a literal, a string to be measured, a part of the
\* destination.
Sources ==
    [inside : {FALSE}, measured : BOOLEAN, offset : {0}, text : Texts]
        \cup {InsideSource(o) : o \in IF m.is_string /\ m.length > m.string_length
                                      THEN 0..m.string_length ELSE {}}

\* m_copy_literal(), m_copy_fixed_string(), m_copy_string()
CopyCall ==
    \E source \in Sources, f \in Heaps \X Times :
        Return(CoreString(m, telemetry, "replace", source, f[1], f[2]), source.text, f[2])

\* m_concat_literal(), m_concat_fixed_string(), m_concat_string()
ConcatCall ==
    \E source \in Sources, f \in Heaps \X Times :
        Return(CoreString(m, telemetry, "append", source, f[1], f[2]),
               text \o source.text, f[2])

\* m_string_truncate()
TruncateCall ==
    \E length \in Counts, t \in Times :
        Return(Truncate(m, telemetry, length, t),
               SubSeq(text, 1, Min({Len(text), length})), t)

\* m_finalize_string()
FinalizeCall ==
    \E s \in Texts, t \in Times : Return(Finalize(m, telemetry, s, t), s, t)

\* m_to_string()
ToStringCall ==
    \E f \in Heaps \X Times :
        Return(ToString_(m, telemetry, f[1], f[2]),
               IF m.is_string THEN text ELSE SubSeq(m.data, 1, Measure(Payload(m))), f[2])

\* m_to_data()
ToDataCall ==
    \E t \in Times : Return(ToData(m, telemetry), <<>>, t)

\* signal_notify_quit_handler() between two calls.
Interrupt ==
    /\ ~halted /\ halted' = TRUE /\ text' = <<>>
    /\ UNCHANGED <<m, telemetry, failed, overrun>>

Next ==
    \/ ResizeCall \/ DeleteCall \/ CopyCall \/ ConcatCall \/ TruncateCall
    \/ FinalizeCall \/ ToStringCall \/ ToDataCall \/ Interrupt

Spec == Init /\ [][Next]_vars
-----------------------------------------------------------------------------
TypeOK ==
    /\ m \in [data : Seq(Nat), length : Nat, string_length : Nat, is_string : BOOLEAN]
    /\ telemetry \in [reserved : Nat, payload : Nat, overhead : Nat]
    /\ halted \in BOOLEAN
    /\ failed \in BOOLEAN
    /\ text \in Seq(Nat)
    /\ overrun \in BOOLEAN

\* Whatever calls, reallocations, shrinks and copies of a string onto itself came
\* before, a string descriptor holds the string that the calls asked for, with
\* its cached length and its terminator, and no call has written past the end of its
\* block - as long as no Ctrl+C has come.
TextIsRight ==
    ~halted =>
        /\ ~overrun
        /\ m.is_string =>
              /\ ~Inconsistent(m)
              /\ SubSeq(m.data, 1, m.string_length) = text
              /\ m.length > 0 => m.data[m.string_length + 1] = 0

\* The telemetry of the library agrees with the descriptor, also after the calls
\* that Ctrl+C cut short: the payload is its length, the heap bytes are its
\* block, and what is left over is the block overhead.  (When one of them has written
\* past its block nothing can be said any more.)
TelemetryBalances ==
    ~overrun =>
        /\ m.length <= Len(m.data)
        /\ telemetry = [reserved |-> Len(m.data), payload |-> m.length,
                        overhead |-> Len(m.data) - m.length]

\* A call that fails leaves the descriptor as it was, whichever step failed -
\* unless Ctrl+C comes with the failure.
FailureChangesNothing ==
    [][failed' /\ ~halted' => m' = m]_vars
=============================================================================
