------------------------------ MODULE PinStore ------------------------------
(***************************************************************************)
(* The pin of one source host and profile, a file replaced by rename, and  *)
(* the advisory lock on it.  Save, apply and follow take the same lock and *)
(* none of them waits for it; the kernel drops it when its holder dies.    *)
(***************************************************************************)
EXTENDS LocalDesktop

VARIABLES lock, pin, temp      \* the holder or None; the pin file; the temp file

store == <<lock, pin, temp>>

Projection(session, name, index, order) ==
    [session |-> session, name |-> name, index |-> index, order |-> order]

\* A pin is the set of its projections; their order is the file's.
ValidPin(p) ==
    \A x \in p : /\ x.session # None /\ x.order \in Nat
                 /\ x.name # None \/ x.index > 0
                 /\ \A y \in p : x.session = y.session \/ x.order = y.order => x = y

File(p) == [whole |-> TRUE, rows |-> p]

\* What a reader would find in a half-written file.
Torn == [whole |-> FALSE, rows |-> {}]

ASSUME PinAssumption == None # Torn /\ None \notin {"follow", "apply", "save"}

InitStore(pins) == lock = None /\ pin \in {File(p) : p \in pins} /\ temp = None

Acquire(holder) == lock = None /\ lock' = holder /\ UNCHANGED <<pin, temp>>

Locked == lock # None

Release(holder) == lock = holder /\ lock' = None /\ UNCHANGED <<pin, temp>>

\* What Read returns: nothing for a missing file or one that does not validate.
ReadPin == IF pin \in {None, Torn} THEN None ELSE IF ValidPin(pin.rows) THEN pin.rows ELSE None

\* Write, step by step: a synced temp file, then the rename.
WriteTemp(p) == temp' = File(p) /\ UNCHANGED <<lock, pin>>
DropTemp == temp' = None /\ UNCHANGED <<lock, pin>>
RenameTemp == pin' = temp /\ temp' = None /\ UNCHANGED lock

=============================================================================
