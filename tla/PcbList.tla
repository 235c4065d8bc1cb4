------------------------------ MODULE PcbList ------------------------------
(***************************************************************************)
(* src/src/pcblist.rs: what the records of `net.inet.tcp.pcblist_n` say,   *)
(* and the union of that with what the descriptor walk claimed; and        *)
(* src/src/decode.rs, the walk's own reading of a bind address.  A key is  *)
(* a port and an address.  Which address it is follows from the slot the   *)
(* socket is bound in: every socket is bound to the wildcard of its slot.  *)
(***************************************************************************)
EXTENDS Integers, Sequences

CONSTANT Ports

ASSUME PortsAssumption == Ports \subseteq Nat

Keys == (Ports \ {0}) \X {"V4", "V6"}

Families == {"inet", "inet6"}
Vflags   == SUBSET {"v4", "v6"}

\* Mutant of Slot: a dual-stack socket is taken for one of IPv4.
SlotV4First(family, vflag) ==
  CASE family = "inet" -> "V4"
    [] family # "inet" /\ "v4" \in vflag -> "V4"
    [] OTHER -> "V6"

\* slot_from_vflag: the slot the descriptor walk reads.
Slot(family, vflag) ==
  CASE family = "inet" -> "V4"
    [] family # "inet" /\ "v6" \in vflag -> "V6"
    [] family # "inet" /\ vflag = {"v4"} -> "V4"
    [] OTHER -> "V6"

\* The slot the table's decoder reads: its records have no family.
TableSlot(vflag) == IF "v6" \in vflag THEN "V6" ELSE "V4"

\* A record by what the decoder makes of its length and kind.  A `drift` is a
\* length under 24 or past the buffer's end, the header's included.
Plain(kind) ==
  [kind |-> kind, port |-> 0, vflag |-> {}, listening |-> FALSE]
Inp(port, vflag) ==
  [kind |-> "inp", port |-> port, vflag |-> vflag, listening |-> FALSE]
Tcp(listening) ==
  [kind |-> "tcp", port |-> 0, vflag |-> {}, listening |-> listening]

NoRows == [k \in Keys |-> 0]

\* The loop's state: whether it goes on, `pending` (no key: None, or one of port
\* 0, which is dropped), and how many listeners of each key `out` has.
NoKey     == <<0, "V4">>
Undecoded == [state |-> "open", pending |-> NoKey, out |-> NoRows]

\* Mutant of Decode: the rows before a malformed record are the table.
DecodeShort(d, r) ==
  IF d.state # "open" THEN d ELSE
  CASE r.kind \in {"drift", "closing"} -> [d EXCEPT !.state = "closed"]
    [] r.kind = "inp" -> [d EXCEPT !.pending = <<r.port, TableSlot(r.vflag)>>]
    [] r.kind = "tcp" ->
         [d EXCEPT !.pending = NoKey,
                   !.out = [k \in Keys |-> IF r.listening /\ k = d.pending
                                           THEN @[k] + 1 ELSE @[k]]]
    [] OTHER -> d

\* One turn of decode_host_listeners.
Decode(d, r) ==
  IF d.state # "open" THEN d ELSE
  CASE r.kind = "drift"   -> [d EXCEPT !.state = "malformed"]
    [] r.kind = "closing" -> [d EXCEPT !.state = "closed"]
    [] r.kind = "inp"     -> [d EXCEPT !.pending = <<r.port, TableSlot(r.vflag)>>]
    [] r.kind = "tcp" ->
         [d EXCEPT !.pending = NoKey,
                   !.out = [k \in Keys |-> IF r.listening /\ k = d.pending
                                           THEN @[k] + 1 ELSE @[k]]]
    [] OTHER -> d

\* All of it.  A buffer of under four bytes has no record, not even a header;
\* one that ends where a record ends is taken for a whole one, closed or not.
Decoded(buffer) ==
  LET after[n \in 0..Len(buffer)] ==
        IF n = 0 THEN Undecoded ELSE Decode(after[n - 1], buffer[n])
  IN  after[Len(buffer)]

\* attribute_host_listeners: what was claimed is a row, listed or not.
Attributed(listed, claims) ==
  [k \in Keys |-> IF listed[k] = 0 /\ claims[k] # 0 THEN 1 ELSE listed[k]]

=============================================================================
