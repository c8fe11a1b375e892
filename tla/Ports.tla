-------------------------------- MODULE Ports --------------------------------
(***************************************************************************)
(* Wires and their write handles (copper-core/src/port.rs).                *)
(*                                                                         *)
(* A wire is a shared cell with one dirty flag.  A plain Out writes the    *)
(* cell at once; a RegOut buffers the value in `pending` and commits it    *)
(* when its clock advances.  Dirty flags are only ever cleared by          *)
(* DirtyHandle::take, and only set when a value really changes.            *)
(***************************************************************************)
CONSTANTS Wire,        \* wire identities (WireId)
          Registered,  \* the wires created by registered_wire (WireKind)
          RegClock,    \* the clock domain a registered wire listens to
          Value,       \* what a wire carries
          InitValue,   \* the `initial` argument of wire / registered_wire
          None         \* Option::None

ASSUME PortsAssumption == /\ Registered \subseteq Wire
                          /\ InitValue \in Value
                          /\ None \notin Value

VARIABLES cell, dirty, pending

portVars == <<cell, dirty, pending>>

PortsTypeOK == /\ cell \in [Wire -> Value]
               /\ dirty \in [Wire -> BOOLEAN]
               /\ pending \in [Registered -> Value \cup {None}]

PortsInit == /\ cell = [w \in Wire |-> InitValue]
             /\ dirty = [w \in Wire |-> FALSE]
             /\ pending = [w \in Registered |-> None]

out_write_unmarked(w, v) == cell' = [cell EXCEPT ![w] = v] /\ UNCHANGED <<dirty, pending>>

\* Out::write
out_write(w, v) == /\ cell' = [cell EXCEPT ![w] = v]
                   /\ dirty' = [dirty EXCEPT ![w] = @ \/ cell[w] # v]
                   /\ UNCHANGED pending

\* RegOut::write
regout_write(w, v) == /\ pending' = [pending EXCEPT ![w] = v]
                      /\ UNCHANGED <<cell, dirty>>

Write_through(w, v) == out_write(w, v)

\* A write through whichever handle the wire has.
Write(w, v) == IF w \in Registered THEN regout_write(w, v) ELSE out_write(w, v)

\* RegOutShared::on_posedge of every live listener of domain d.
Committing(d) == {w \in Registered : RegClock[w] = d /\ pending[w] # None}

on_posedge(d) ==
    /\ cell' = [w \in Wire |-> IF w \in Committing(d) THEN pending[w] ELSE cell[w]]
    /\ dirty' = [w \in Wire |-> dirty[w] \/ (w \in Committing(d) /\ pending[w] # cell[w])]
    /\ pending' = [w \in Registered |-> IF w \in Committing(d) THEN None ELSE pending[w]]

\* DirtyHandle::take on every handle in the set W.
take(W) == dirty' = [w \in Wire |-> dirty[w] /\ w \notin W]
=============================================================================
