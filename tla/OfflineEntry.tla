---------------------------- MODULE OfflineEntry ----------------------------
(***************************************************************************)
(* Entering transactions on the offline page, and the block list each      *)
(* patron is looked up in.  offline.js asks the shared worker about the    *)
(* patron, and adds what the form holds when the answer is in; the worker  *)
(* meanwhile may be rebuilding the list, chunk by chunk, for any tab.      *)
(***************************************************************************)
EXTENDS Integers, Sequences, SequencesExt, FiniteSets

CONSTANTS
    Patrons, Items,     \* barcodes
    None,               \* an empty field
    Bad,                \* barcodes that check_barcode does not accept
    Files,              \* what list.txt may be: sequences of patrons
    ChunkSize,          \* rows of one insert
    Manners,            \* how the staff may work, see MannersType
    MaxAdds, MaxBuilds  \* bounds of the staff's diligence

\* The staff wait for the page before they go on, and they do not enter while a
\* list is being built.
MannersType == [patient : BOOLEAN, apart : BOOLEAN]

ASSUME EntryAssumption ==
    /\ None \notin Patrons \cup Items
    /\ Bad \subseteq Patrons \cup Items
    /\ Files \subseteq Seq(Patrons)
    /\ ChunkSize \in Nat \ {0}
    /\ Manners \subseteq MannersType
    /\ MaxAdds \in Nat /\ MaxBuilds \in Nat

VARIABLES
    form,       \* $scope[xtype]: its barcode fields
    page,       \* $scope.xact_page[xtype]
    strict,     \* strict_barcode
    tests,      \* calls of add that wait for testOfflineBlock
    dialogs,    \* confirm dialogs, the top one last
    wanted,     \* history: the entries handed in and not rejected
    adds,       \* how many were handed in
    manner,     \* how the staff work in this behaviour
    blocks,     \* the worker's table OfflineBlocks
    waiting,    \* tabs that asked for a download and have no answer
    building,   \* buildingBlockList, as the worker sees it: builds under way
    builds,     \* how many were begun
    known       \* history: the list of the last download, if that succeeded

deskVars == <<form, page, strict, tests, dialogs, wanted, adds>>
listVars == <<blocks, waiting, building, builds, known>>
vars == <<deskVars, listVars, manner>>

Patient == manner.patient
Apart == manner.apart

Entry == [patron : Patrons \cup {None}, item : Items \cup {None}]

\* A build: the chunks still to be stored, after the table was cleared.
Build ==
    [phase : {"fetch", "clear", "fill"}, chunks : Seq(SUBSET Patrons),
     list : SUBSET Patrons]

TypeOK ==
    /\ form \in Entry /\ page \in Seq(Entry) /\ strict \in BOOLEAN
    /\ tests \in Seq([patron : Patrons, of : Entry,
                      state : {"sent", "clear", "blocked"}])
    /\ dialogs \in Seq([about : {"block", "strict"}, of : Entry])
    /\ wanted \in SUBSET Entry /\ adds \in 0..MaxAdds
    /\ manner \in Manners
    /\ blocks \in SUBSET Patrons
    /\ building \in Seq(Build) /\ Len(building) <= 1
    /\ waiting \in Nat /\ builds \in 0..MaxBuilds
    /\ known \in SUBSET Patrons

Init ==
    /\ form = [patron |-> None, item |-> None]
    /\ page = <<>> /\ strict \in BOOLEAN
    /\ tests = <<>> /\ dialogs = <<>> /\ wanted = {} /\ adds = 0
    /\ \E f \in Files : blocks = ToSet(f)
    /\ known = blocks
    /\ waiting = 0 /\ building = <<>> /\ builds = 0
    /\ manner \in Manners

-----------------------------------------------------------------------------
(* The page.                                                               *)

Quiet == tests = <<>> /\ dialogs = <<>>

\* A dialog is modal: nothing is typed under it.
MayType ==
    /\ dialogs = <<>>
    /\ Patient => Quiet
    /\ Apart => building = <<>> /\ waiting = 0

Type(p, i) ==
    /\ MayType
    /\ form' = [patron |-> p, item |-> i] /\ form' # form
    /\ UNCHANGED <<page, strict, tests, dialogs, wanted, adds, listVars>>

\* _add_impl2: the form as it is now becomes a transaction.
Record ==
    /\ page' = Append(page, form)
    /\ form' = [form EXCEPT !.item = None]

\* _add_impl: a barcode of the form as it is now may need a confirmation.
Vet(of) ==
    IF strict /\ {form.patron, form.item} \cap Bad # {}
    THEN /\ dialogs' = Append(dialogs, [about |-> "strict", of |-> of])
         /\ UNCHANGED <<form, page>>
    ELSE Record /\ UNCHANGED dialogs

\* The staff press Enter, or the scanner does: unless the item is on the page
\* already, the patron is looked up.
Duplicate == \E k \in DOMAIN page : page[k].item = form.item

Add ==
    /\ MayType
    /\ form.item # None /\ ~Duplicate
    /\ adds < MaxAdds /\ adds' = adds + 1
    /\ wanted' = wanted \cup {form}
    /\ IF form.patron # None
       THEN /\ tests' = Append(tests, [patron |-> form.patron, of |-> form,
                                       state |-> "sent"])
            /\ UNCHANGED <<form, page, dialogs>>
       ELSE Vet(form) /\ UNCHANGED tests
    /\ UNCHANGED <<strict, listVars>>

\* The answer to the first test is in.
Tested ==
    /\ tests # <<>> /\ Head(tests).state # "sent"
    /\ tests' = Tail(tests)
    /\ IF Head(tests).state = "blocked"
       THEN /\ dialogs' = Append(dialogs,
                            [about |-> "block", of |-> Head(tests).of])
            /\ UNCHANGED <<form, page>>
       ELSE Vet(Head(tests).of)
    /\ UNCHANGED <<strict, wanted, adds, listVars>>

\* A lookup that is refused has no handler: the entry stays in the form.
Untested ==
    /\ tests # <<>> /\ Head(tests).state = "sent"
    /\ tests' = Tail(tests)
    /\ wanted' = wanted \ {Head(tests).of}
    /\ UNCHANGED <<form, page, strict, dialogs, adds, listVars>>

Allow ==
    /\ dialogs # <<>>
    /\ LET d == Last(dialogs)
           rest == Front(dialogs)
       IN  \/ /\ d.about = "strict"
              /\ Record /\ dialogs' = rest
           \/ /\ d.about = "block"
              /\ IF strict /\ {form.patron, form.item} \cap Bad # {}
                 THEN /\ dialogs' = Append(rest, [d EXCEPT !.about = "strict"])
                      /\ UNCHANGED <<form, page>>
                 ELSE Record /\ dialogs' = rest
    /\ UNCHANGED <<strict, tests, wanted, adds, listVars>>

MutantReject ==                     \* adds what was rejected
    /\ dialogs # <<>>
    /\ wanted' = wanted \ {Last(dialogs).of}
    /\ dialogs' = Front(dialogs) /\ Record
    /\ UNCHANGED <<strict, tests, adds, listVars>>
Reject ==
    /\ dialogs # <<>>
    /\ wanted' = wanted \ {Last(dialogs).of}
    /\ dialogs' = Front(dialogs)
    /\ UNCHANGED <<form, page, strict, tests, adds, listVars>>

-----------------------------------------------------------------------------
(* The worker.                                                             *)

\* A lookup is one query; queries are served in their order.
Serve ==
    /\ \E k \in DOMAIN tests :
        /\ tests[k].state = "sent"
        /\ \A l \in 1..(k - 1) : tests[l].state # "sent"
        /\ tests' = [tests EXCEPT ![k].state =
                        IF tests[k].patron \in blocks THEN "blocked" ELSE "clear"]
    /\ UNCHANGED <<form, page, strict, dialogs, wanted, adds, listVars>>

\* A tab asks for a download; its button is disabled until the answer.
Download ==
    /\ builds + waiting < MaxBuilds
    /\ Apart => Quiet
    /\ waiting' = waiting + 1
    /\ UNCHANGED <<deskVars, blocks, building, builds, known>>

\* The rows of the file without its repetitions, in chunks; which row is in
\* which chunk does not matter.
MutantChunks(f) ==                  \* forgets the last, unfinished chunk
    LET rows == SetToSeq(ToSet(f))
    IN  [c \in 1..(Len(rows) \div ChunkSize) |->
            {rows[k] : k \in {j \in DOMAIN rows :
                                (j - 1) \div ChunkSize = c - 1}}]
Chunks(f) ==
    LET rows == SetToSeq(ToSet(f))
    IN  [c \in 1..((Len(rows) + ChunkSize - 1) \div ChunkSize) |->
            {rows[k] : k \in {j \in DOMAIN rows :
                                (j - 1) \div ChunkSize = c - 1}}]

\* "Prevent parallel block list building calls".
Start ==
    /\ waiting > 0 /\ waiting' = waiting - 1
    /\ builds' = builds + 1
    /\ building' = IF building = <<>>
                   THEN <<[phase |-> "fetch", chunks |-> <<>>, list |-> {}]>>
                   ELSE building
    /\ UNCHANGED <<deskVars, blocks, known>>

In(b, phase) == b \in DOMAIN building /\ building[b].phase = phase
Ended(b) == RemoveAt(building, b)

Fetched(b) ==
    /\ In(b, "fetch")
    /\ \/ \E f \in Files :
            building' = [building EXCEPT ![b] =
                [phase |-> "clear", chunks |-> Chunks(f), list |-> ToSet(f)]]
       \/ building' = Ended(b)
    /\ UNCHANGED <<deskVars, blocks, waiting, builds, known>>

Cleared(b) ==
    /\ In(b, "clear")
    /\ \/ /\ blocks' = {}
          /\ building' = [building EXCEPT ![b].phase = "fill"]
       \/ building' = Ended(b) /\ UNCHANGED blocks
    /\ UNCHANGED <<deskVars, waiting, builds, known>>

Filled(b) ==
    /\ In(b, "fill") /\ building[b].chunks # <<>>
    /\ \/ /\ blocks' = blocks \cup Head(building[b].chunks)
          /\ building' = [building EXCEPT ![b].chunks = Tail(@)]
          /\ UNCHANGED known
       \/ /\ building' = Ended(b) /\ known' = {}
          /\ UNCHANGED blocks
    /\ UNCHANGED <<deskVars, waiting, builds>>

MutantStored(b) ==                  \* buildingBlockList stays true
    /\ In(b, "fill") /\ building[b].chunks = <<>>
    /\ known' = building[b].list
    /\ UNCHANGED <<deskVars, blocks, waiting, builds, building>>
Stored(b) ==
    /\ In(b, "fill") /\ building[b].chunks = <<>>
    /\ building' = Ended(b) /\ known' = building[b].list
    /\ UNCHANGED <<deskVars, blocks, waiting, builds>>

Builder == Start \/ \E b \in DOMAIN building :
                        Fetched(b) \/ Cleared(b) \/ Filled(b) \/ Stored(b)

Staff ==
    \/ \E p \in Patrons \cup {None}, i \in Items : Type(p, i)
    \/ Add \/ Allow \/ Reject \/ Download

Next == (Staff \/ Tested \/ Untested \/ Serve \/ Builder) /\ UNCHANGED manner

-----------------------------------------------------------------------------
(* Properties.                                                             *)

\* When nothing is under way, the page of staff who wait for it has each entry
\* that was handed in and not rejected, as it was handed in, and has it once
\* (add, _add_impl).
Recorded ==
    Patient /\ Quiet => /\ ToSet(page) = wanted
                        /\ Len(page) = Cardinality(wanted)

\* No patron of the list last downloaded is found clear by a lookup, unless a
\* new list that lacks them is on its way or, with staff who do not wait for the
\* download, any list is (testOfflineBlock, insertOfflineBlocks).
FoundClear(k) ==
    /\ k \in DOMAIN tests /\ k \in DOMAIN tests' /\ tests[k].state = "sent"
    /\ tests'[k] = [tests[k] EXCEPT !.state = "clear"]
Refilling(p) ==
    \E b \in DOMAIN building :
        building[b].phase = "fill" /\ (Apart => p \notin building[b].list)
BlockedAreFound ==
    [][\A k \in DOMAIN tests :
        FoundClear(k) => tests[k].patron \notin known
                         \/ Refilling(tests[k].patron)]_vars

\* After a download that succeeded the table holds the list it fetched, whole
\* and nothing but it, however many tabs asked for one (populateBlockList).
ListWhole == building = <<>> => known \in {blocks, {}}

\* Every download ends and the next one is possible.
DownloadsEnd == []<>(building = <<>> /\ waiting = 0)

-----------------------------------------------------------------------------
(* Why they hold.                                                          *)

\* Staff who wait have one entry under way at most: it is the one in the form,
\* and not on the page.
OneUnderWay ==
    Patient =>
        /\ Len(tests) + Len(dialogs) <= 1
        /\ \A k \in DOMAIN tests : tests[k].of = form
        /\ \A k \in DOMAIN dialogs : dialogs[k].of = form
        /\ ~Quiet => form.item # None /\ ~Duplicate
        /\ wanted = ToSet(page) \cup (IF Quiet THEN {} ELSE {form})
        /\ IsFiniteSet(ToSet(page)) /\ Len(page) = Cardinality(ToSet(page))

\* What was stored of a list and its chunks to come make up the list; while none is
\* being stored, the table is as it was when the last one was.
Filling == building # <<>> /\ building[1].phase = "fill"
ListInParts ==
    /\ building # <<>> /\ building[1].phase = "clear" =>
           UNION ToSet(building[1].chunks) = building[1].list
    /\ Filling => blocks \cup UNION ToSet(building[1].chunks) = building[1].list
    /\ ~Filling => known \in {blocks, {}}

\* Lookups are answered in turn, none during a download by staff who wait for it.
InTurn ==
    /\ \A k, l \in DOMAIN tests :
           k < l /\ tests[l].state # "sent" => tests[k].state # "sent"
    /\ Apart /\ ~Quiet => building = <<>> /\ waiting = 0

EntryIInv ==
    /\ TypeOK /\ Recorded /\ ListWhole
    /\ OneUnderWay /\ ListInParts /\ InTurn /\ builds + waiting <= MaxBuilds
=============================================================================
