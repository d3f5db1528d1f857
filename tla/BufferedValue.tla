---------------------------- MODULE BufferedValue ----------------------------
(***************************************************************************)
(* BufferedValue<T> (core/ocs2_core/.../thread_support/BufferedValue.h): a *)
(* value of one thread, and a buffer behind a mutex into which any thread  *)
(* puts the value to come.  Each operator is one critical section.         *)
(***************************************************************************)
CONSTANT NoValue        \* a null unique_ptr

Buffered(value) == [activeValue_ |-> value, buffer_ |-> NoValue]

\* Mutant: a value that was not taken yet is kept.
SetBuffer_KeepsFirst(b, value) ==
    IF b.buffer_ = NoValue THEN [b EXCEPT !.buffer_ = value] ELSE b

SetBuffer(b, value) == [b EXCEPT !.buffer_ = value]

UpdateFromBuffer(b) ==
    IF b.buffer_ = NoValue THEN b ELSE Buffered(b.buffer_)

=============================================================================
