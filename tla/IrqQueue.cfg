\* Indices wrap at 4 and stamps at 5 within 8 interrupts; two slots are enough
\* for a slot to be refilled while another waits.
CONSTANTS
    Data = {d1, d2}
    Depth = 2
    Modulus = 4
    SeqModulus = 5
    MaxInterrupts = 8
SPECIFICATION Spec
INVARIANTS
    InterruptsConserved
    NoTornEvent
PROPERTIES
    ImplementsLossyQueue
