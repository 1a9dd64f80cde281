------------------------------- MODULE Fields -------------------------------
(***************************************************************************)
(* util_lib/fields: values packed one after the other into a buffer of a   *)
(* fixed size, and taken out again in the same order.  A byte is a small   *)
(* number; a variable field has its length before it, in one byte; basic   *)
(* and fixed fields have nothing that tells where they end.                *)
(***************************************************************************)
EXTENDS Naturals, Sequences

CONSTANTS MaxLen,         (* max_buffer_len                                 *)
          MaxField,       (* 255: what the length byte can hold             *)
          Width,          (* sizeof(T)                                      *)
          Bytes,          (* the bytes that values are made of              *)
          Values,         (* set: what is added, sequences of Bytes         *)
          MaxAdded        (* bound: the fields added, which may be empty    *)

VARIABLES buffer,         (* the first current_buffer_len bytes of buffer   *)
          iterator,       (* current_iterator                               *)
          (* history, read by properties only *)
          added,          (* the fields in buffer: kind and value           *)
          got,            (* the values taken out since get_reset() ...     *)
          aligned         (* while each was by the call for its field       *)

vars == <<buffer, iterator, added, got, aligned>>

Init ==
  /\ buffer = <<>> /\ iterator = 0
  /\ added = <<>> /\ got = <<>> /\ aligned = TRUE

-----------------------------------------------------------------------------
(* A failed call throws, and has changed nothing unless said otherwise.     *)
Fits(n) == Len(buffer) + n <= MaxLen

Put(bytes, kind, value) ==
  /\ Len(added) < MaxAdded
  /\ buffer' = buffer \o bytes
  /\ added' = Append(added, [kind |-> kind, value |-> value])
  /\ UNCHANGED <<iterator, got, aligned>>

AddBasic(v) == Len(v) = Width /\ Fits(Width) /\ Put(v, "basic", v)

(* copy_data_in()                                                           *)
LengthLost(v) == v                      (* variant: no length before it      *)
Packed(v) == <<Len(v)>> \o v
AddVariable(v) ==
  Len(v) <= MaxField /\ Fits(Len(v) + 1) /\ Put(Packed(v), "variable", v)

(* copy_data_in_fixed()                                                     *)
AddFixed(v) == Len(v) <= MaxField /\ Fits(Len(v)) /\ Put(v, "fixed", v)

(* add_field_fixed_length() cuts the value to len, or adds it and then pad  *)
(* after pad: without space for all of them it throws and leaves those it   *)
(* has added.                                                               *)
AddPadded(v, len, pad) ==
  \/ Len(v) >= len /\ AddFixed(SubSeq(v, 1, len))
  \/ /\ Len(v) < len /\ Len(v) <= MaxField /\ Fits(Len(v))
     /\ LET room == MaxLen - Len(buffer)
            end  == IF len <= room THEN len ELSE room
            full == [i \in 1 .. end |-> IF i <= Len(v) THEN v[i] ELSE pad]
        IN Put(full, "fixed", full)

-----------------------------------------------------------------------------
(* A call takes the n bytes after the first skip of those left.             *)
Left(n) == iterator + n <= Len(buffer)
Take(skip, n, kind) ==
  /\ iterator' = iterator + skip + n
  /\ LET next == Len(got) + 1 IN
     aligned' = /\ aligned /\ next <= Len(added) /\ added[next].kind = kind
                /\ kind = "fixed" => n = Len(added[next].value)
  /\ got' = IF aligned' THEN Append(got, SubSeq(buffer, iterator + skip + 1, iterator + skip + n))
            ELSE <<>>
  /\ UNCHANGED <<buffer, added>>

GetBasic == Left(Width) /\ Take(0, Width, "basic")
GetFixed(n) == iterator < Len(buffer) /\ Left(n) /\ Take(0, n, "fixed")

(* The length byte is passed before the length is checked, and stays passed *)
(* when the call throws.                                                    *)
Length == buffer[iterator + 1]
GetVariable ==
  /\ iterator < Len(buffer)
  /\ \/ Left(1 + Length) /\ Take(1, Length, "variable")
     \/ /\ ~Left(1 + Length) /\ iterator' = iterator + 1
        /\ aligned' = FALSE /\ got' = <<>> /\ UNCHANGED <<buffer, added>>

GetReset ==
  /\ iterator' = 0 /\ got' = <<>> /\ aligned' = TRUE
  /\ UNCHANGED <<buffer, added>>
Clear ==
  /\ buffer' = <<>> /\ iterator' = 0
  /\ added' = <<>> /\ got' = <<>> /\ aligned' = TRUE

(* insert() clears, and then throws if there are too many bytes.  Bytes that*)
(* copy() took out are the fields they were; others are no fields.          *)
Insert(bytes) ==
  /\ buffer' = IF Len(bytes) > MaxLen THEN <<>> ELSE bytes
  /\ added' = IF buffer' = buffer THEN added ELSE <<[kind |-> "bytes", value |-> buffer']>>
  /\ iterator' = 0 /\ got' = <<>> /\ aligned' = TRUE

Next ==
  \/ \E v \in Values : AddBasic(v) \/ AddVariable(v) \/ AddFixed(v)
  \/ \E bytes \in Values \cup {buffer} : Insert(bytes)
  \/ \E v \in Values, len \in 0 .. MaxField + 1, pad \in Bytes : AddPadded(v, len, pad)
  \/ GetBasic \/ GetVariable \/ GetReset \/ Clear
  \/ \E n \in 0 .. MaxLen : GetFixed(n)
Spec == Init /\ [][Next]_vars

-----------------------------------------------------------------------------
(* The buffer is never filled, nor read, beyond its end, whatever is packed *)
(* and however it is read, the bytes of insert() included.                  *)
FieldsBounded == Len(buffer) <= MaxLen /\ iterator <= Len(buffer)

(* Calls that ask for the fields in the order they were added get their     *)
(* values, whatever other calls failed, and between them more was added.    *)
ReadBack ==
  aligned => /\ Len(got) <= Len(added)
             /\ \A i \in 1 .. Len(got) : got[i] = added[i].value
=============================================================================
