------------------------------- MODULE Parcels -------------------------------
(***************************************************************************)
(* What a Binder parcel carries and how the proxies and stubs of this      *)
(* repository use one.  A proxy method writes the values of its parameters *)
(* one after another; the stub reads by position only.  A parcel is a      *)
(* sequence of cells, and a scalar or vector is told from another by the   *)
(* name of the parameter it was written from: no stub computes with one.   *)
(***************************************************************************)
EXTENDS Naturals, Sequences

\* The wire shapes: WriteInt32 and WriteUint32 both make a word.
Word(n)   == [shape |-> "word", name |-> n]
Long(n)   == [shape |-> "long", name |-> n]
Bytes(n)  == [shape |-> "bytes", name |-> n]
Words(n)  == [shape |-> "words", name |-> n]
Longs(n)  == [shape |-> "longs", name |-> n]
Remote(n) == [shape |-> "remote", name |-> n]

Garbled == "garbled"

\* The value the i-th read of a stub finds: what was written there, in its shape.
ReadAt(parcel, i, shape) ==
  IF i \in DOMAIN parcel /\ parcel[i].shape = shape THEN parcel[i].name ELSE Garbled

(***************************************************************************)
(* A proxy method: the fields it writes, TF_SYNC or TF_ASYNC, the fields   *)
(* it reads from the reply, and what it returns when a write fails and     *)
(* when SendRequest does.  A method with "tells" also calls the            *)
(* application's callback when SendRequest fails.                          *)
(***************************************************************************)
Method(fields, mode, reply, unwritten, unsent) ==
  [fields |-> fields, mode |-> mode, reply |-> reply, unwritten |-> unwritten, unsent |-> unsent,
   tells |-> FALSE]

Telling(method) == [method EXCEPT !.tells = TRUE]

(***************************************************************************)
(* A stub method: the fields it reads, the code it returns without a       *)
(* callback, the fields of its reply, and its code otherwise: SUCCESS, or  *)
(* the value of the handler itself.                                        *)
(***************************************************************************)
Handler(fields, orphan, reply, code) ==
  [fields |-> fields, orphan |-> orphan, reply |-> reply, code |-> code]
=============================================================================
