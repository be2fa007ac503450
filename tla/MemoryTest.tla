------------------------------ MODULE MemoryTest ------------------------------
(***************************************************************************)
(* The built-in memory test, src/src/plat/plat_post.c:34-139, against the  *)
(* faults plat_post.h names: address decode, data path, cell retention.    *)
(*                                                                         *)
(* A word is the set of its data lines that carry a one; an address is the *)
(* set of its address lines that do.  A memory is its one fault.  The      *)
(* cache is flushed and invalidated between writing and reading, so every  *)
(* read reaches the memory, and returns what was last written there.       *)
(***************************************************************************)
EXTENDS Integers, Sequences

CONSTANTS
    AddressLines,   \* number of address lines of the device
    DataLines       \* number of data lines, 32 in the code

AddressLine == 0 .. AddressLines - 1
DataLine    == 0 .. DataLines - 1

ASSUME LineAssumption ==
    AddressLines \in Nat \ {0} /\ DataLines \in Nat /\ DataLines > AddressLines

-----------------------------------------------------------------------------
(* The device: external to the code. *)

\* What lines carry whose drivers are at fault.
Bus(fault, lines) ==
    CASE fault.effect = "stuck at one"  -> lines \cup fault.lines
      [] fault.effect = "stuck at zero" -> lines \ fault.lines
      [] fault.effect = "wired and"     -> IF fault.lines \subseteq lines
                                           THEN lines ELSE lines \ fault.lines
      [] fault.effect = "wired or"      -> IF fault.lines \cap lines = {}
                                           THEN lines ELSE lines \cup fault.lines

Sound == [at |-> "nowhere", effect |-> "stuck at one", lines |-> {}, cell |-> {}]

BusFaults(where, lines) ==
    [at : {where}, effect : {"stuck at one", "stuck at zero"},
     lines : {{l} : l \in lines}, cell : {{}}]
    \cup
    [at : {where}, effect : {"wired and", "wired or"},
     lines : {pair \in SUBSET lines : \E k, l \in lines : pair = {k, l}}, cell : {{}}]

CellFaults ==
    [at : {"cell"}, effect : {"stuck at one", "stuck at zero"},
     lines : {{l} : l \in DataLine}, cell : SUBSET AddressLine]

Memories ==
    {Sound} \cup CellFaults \cup BusFaults("address", AddressLine)
            \cup BusFaults("data", DataLine)

Decoded(memory, address) ==
    IF memory.at = "address" THEN Bus(memory, address) ELSE address

OverData(memory, word) == IF memory.at = "data" THEN Bus(memory, word) ELSE word

Stored(memory, physical, word) ==
    IF memory.at = "cell" /\ memory.cell = physical THEN Bus(memory, word) ELSE word

\* What base[offset] reads after a word was written there, or at an offset the
\* memory decodes to the same cell.
Returned(memory, address, word) ==
    OverData(memory, Stored(memory, Decoded(memory, address), OverData(memory, word)))

-----------------------------------------------------------------------------
(* The test. *)

\* Offsets of a region, as numbers and as the lines they drive.
Bits(n) == {k \in AddressLine : (n \div 2^k) % 2 = 1}
Offsets(words) == 0 .. words - 1
PowersBelow(words) ==
    SelectSeq([k \in 1 .. AddressLines |-> 2^(k - 1)], LAMBDA n : n < words)
Differ(v, w) == (v \cup w) \ (v \cap w)

\* Which of the offsets, written in order, is the last to reach the cell of n.
LastWriter(memory, order, n) ==
    LET same == {i \in DOMAIN order :
                    Decoded(memory, Bits(order[i])) = Decoded(memory, Bits(n))}
    IN  order[CHOOSE i \in same : \A j \in same : j <= i]

\* pattern[n] is written at every offset n in order, then all of them are read back.
HoldsPattern(memory, order, pattern) ==
    \A i \in DOMAIN order :
        LET n == order[i]
        IN  Returned(memory, Bits(n), pattern[LastWriter(memory, order, n)]) = pattern[n]

\* test_data_lines(): a single one walks through the word at offset zero.
DataLinesPass(memory) ==
    \A l \in DataLine : HoldsPattern(memory, <<0>>, [n \in {0} |-> {l}])

BasePattern == {l \in DataLine : l % 2 = 1}   \* 0xAAAAAAAA
AntiPattern == {l \in DataLine : l % 2 = 0}   \* 0x55555555

\* test_address_lines(): powers of two first, offset zero last.
AddressLinesPass(memory, words) ==
    HoldsPattern(memory, PowersBelow(words) \o <<0>>,
                 [n \in Offsets(words) |-> IF n = 0 THEN AntiPattern
                                            ELSE Differ(BasePattern, Bits(n))])

\* Seeded fault of the operator below: one polarity is never written.
OnePolarity == {FALSE}

\* The passes of test_cells(): address as data, then its complement.
CellPasses == BOOLEAN

\* test_cells().
CellsPass(memory, words) ==
    \A inverted \in CellPasses :
        HoldsPattern(memory, [i \in 1 .. words |-> i - 1],
                     [n \in Offsets(words) |->
                         IF inverted THEN DataLine \ Bits(n) ELSE Bits(n)])

\* plat_post_memory_test() of a region.
MemoryTestPasses(memory, words) ==
    /\ DataLinesPass(memory)
    /\ AddressLinesPass(memory, words)
    /\ CellsPass(memory, words)

\* What the test is to find out: no two words of the region are one cell, and each
\* returns whatever it was given.
MemoryWorks(memory, words) ==
    \A m \in Offsets(words) :
        /\ \A n \in Offsets(words) \ {m} :
               Decoded(memory, Bits(m)) # Decoded(memory, Bits(n))
        /\ \A word \in SUBSET DataLine : Returned(memory, Bits(m), word) = word

\* Whether the region works and what the test says of it, for every single fault
\* and every region of at least two words.
RegionSizes == 2 .. 2^AddressLines
MemoryVerdicts ==
    {[works |-> MemoryWorks(memory, words), passes |-> MemoryTestPasses(memory, words)] :
        memory \in Memories, words \in RegionSizes}
=============================================================================
