----------------------------- MODULE SlottedPage -----------------------------
(***************************************************************************)
(* The slotted page (src/storage/slotted_page.cpp): a slot array that      *)
(* grows up from the header, records that grow down from the special area. *)
(* Offsets count from the end of the header.  A slot keeps the place its   *)
(* record has in the page, and the tuple that was written there.           *)
(***************************************************************************)
EXTENDS Integers, FiniteSets, FiniteSetsExt, SequencesExt

CONSTANTS
    PageBytes,  \* bytes between the header and the special area
    SlotBytes   \* sizeof(SlotEntry)

\* AllocatePage gives a page of zeros, which IsInitialized does not accept.
ZeroPage == [initialized |-> FALSE, slots |-> <<>>, upper |-> 0]

Initialize == [initialized |-> TRUE, slots |-> <<>>, upper |-> PageBytes]

Lower(page) == SlotBytes * Len(page.slots)

Slots(page, state) == {i \in DOMAIN page.slots : page.slots[i].state = state}

\* The bytes that the given slots have, added up along the slot array.
SumOfLengths(page, slots) ==
    LET sum[n \in 0 .. Len(page.slots)] ==
            IF n = 0 THEN 0 ELSE sum[n - 1] + (IF n \in slots THEN page.slots[n].length ELSE 0)
    IN  sum[Len(page.slots)]

GetContiguousFreeSpace(page) == page.upper - Lower(page)

GetReclaimableSpace(page) == SumOfLengths(page, Slots(page, "DELETED"))

GetTotalFreeSpaceAfterCompaction(page) == GetContiguousFreeSpace(page) + GetReclaimableSpace(page)

\* A record needs a slot of its own when none can be reused.
SlotOverhead(page) == IF Slots(page, "DELETED") = {} THEN SlotBytes ELSE 0

GetMaxInsertableBytesAfterCompaction(page) ==
    Max({0, GetTotalFreeSpaceAfterCompaction(page) - SlotOverhead(page)})

\* Fault variant of CompactedSlot: a deleted slot keeps its length.
CompactedSlotKeepsLength(page, i) ==
    LET live == {j \in Slots(page, "OCCUPIED") : j <= i} IN
    IF page.slots[i].state = "OCCUPIED"
    THEN [page.slots[i] EXCEPT !.offset = PageBytes - SumOfLengths(page, live)]
    ELSE page.slots[i]

\* Live records are packed against the special area in slot order; the others
\* give up their bytes.
CompactedSlot(page, i) ==
    LET live == {j \in Slots(page, "OCCUPIED") : j <= i} IN
    IF page.slots[i].state = "OCCUPIED"
    THEN [page.slots[i] EXCEPT !.offset = PageBytes - SumOfLengths(page, live)]
    ELSE [page.slots[i] EXCEPT !.offset = 0, !.length = 0]

CompactPage(page) ==
    [page EXCEPT !.slots = [i \in DOMAIN page.slots |-> CompactedSlot(page, i)],
                 !.upper = PageBytes - SumOfLengths(page, Slots(page, "OCCUPIED"))]

\* Fault variant of HasSpaceFor: the slot a new record needs is forgotten.
HasSpaceForRecord(page, len) == GetContiguousFreeSpace(page) >= len

HasSpaceFor(page, len) == GetContiguousFreeSpace(page) >= len + SlotOverhead(page)

\* The page in which the record goes, compacted when that is what it takes.
RoomFor(page, len) ==
    IF HasSpaceFor(page, len) \/ GetTotalFreeSpaceAfterCompaction(page) < len + SlotOverhead(page)
    THEN page ELSE CompactPage(page)

\* The first slot that is not occupied, or one more.
SlotForInsert(page) ==
    IF Slots(page, "DELETED") = {} THEN Len(page.slots) + 1 ELSE Min(Slots(page, "DELETED"))

CanInsert(page, len) == HasSpaceFor(RoomFor(page, len), len)

\* What InsertRecord makes of a page it succeeds on.
InsertRecord(page, tuple, len) ==
    LET room == RoomFor(page, len)
        n == SlotForInsert(page)
        slot == [state |-> "OCCUPIED", offset |-> room.upper - len, length |-> len, tuple |-> tuple]
    IN [room EXCEPT !.slots = [i \in 1 .. Max({n, Len(room.slots)}) |->
                                    IF i = n THEN slot ELSE room.slots[i]],
                    !.upper = @ - len]

\* The record keeps the bytes it has; what the new tuple does not need is zeroed.
OverwriteRecord(page, n, tuple) == [page EXCEPT !.slots[n].tuple = tuple]

DeleteRecord(page, n) == [page EXCEPT !.slots[n].state = "DELETED"]
=============================================================================
