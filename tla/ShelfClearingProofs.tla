------------------------ MODULE ShelfClearingProofs ------------------------
(***************************************************************************)
(* Holds, copies and loans agree while the shelf is cleared and no desk    *)
(* lends or returns, however many clearings run at a time, and the patron  *)
(* is told once while they run one by one: for any holds, copies, clearers *)
(* and libraries.                                                          *)
(***************************************************************************)
EXTENDS ShelfClearing, TLAPS

--------------------------------------------------------------------------
(* Why they hold.  A clearing writes rows as it read them.  While it runs the *)
(* desks lend and return nothing, so the copies it writes are not lent, the   *)
(* holds it writes were not picked up, and a copy it writes waits for no hold *)
(* but one it cancels.                                                        *)

\* A row has the copy that was captured, at a time that has been.
Sound(row) == /\ row.captured > 0 => row.current # NoCopy
              /\ row.captured <= now

\* A hold on the shelf was the last its copy was captured for, but for holds
\* that were filled.
RowsInv ==
    /\ \A h \in Holds : Sound(hold[h])
    /\ DesksPause =>
         \A g, h \in Holds :
            OnShelf(g) /\ g # h /\ hold[h].current = hold[g].current /\ ~hold[h].filled
               => hold[h].captured < hold[g].captured

WorkFields == {"st", "todo", "hold", "row", "stat", "holds", "copies", "newly"}

\* What a clearing has in hand are rows, and one that ended has nothing.
HasRows(w) ==
    /\ DOMAIN work[w] = WorkFields
    /\ work[w].st = "idle" => work[w] = Idle
    /\ work[w].st \in {"fetched", "copy"} => work[w].hold \in Holds /\ work[w].row \in Row
    /\ work[w].stat \in Status
    /\ DOMAIN work[w].holds \subseteq Holds /\ DOMAIN work[w].copies \subseteq Copies

\* What was cancelled when it was read still is, and what it writes is.
ReadsWell(w) ==
    /\ work[w].st \in {"fetched", "copy"} => Sound(work[w].row)
    /\ \A h \in DOMAIN work[w].holds : Sound(work[w].holds[h]) /\ work[w].holds[h].cancelled
    /\ work[w].st = "fetched" /\ work[w].row.cancelled => hold[work[w].hold].cancelled
    /\ work[w].st = "copy" => \/ work[w].hold \in DOMAIN work[w].holds
                              \/ hold[work[w].hold].cancelled

\* It means to write, or has written, the hold as one with that copy.
Means(w, h, c) ==
    \/ h \in work[w].todo /\ c = hold[h].current
    \/ work[w].st \in {"fetched", "copy"} /\ h = work[w].hold /\ c = work[w].row.current
    \/ h \in DOMAIN work[w].holds /\ c = work[w].holds[h].current

\* Neither such a hold nor its copy is in a patron's hands, and the copy waits
\* for nobody else.
MeansWell(w) ==
    /\ \A h \in Holds : \A c \in Copies \cup {NoCopy} :
          Means(w, h, c) => h \notin taken /\ c \notin lent /\ Claims(c) \subseteq {h}
    /\ \A c \in DOMAIN work[w].copies :
          c \notin lent /\ Claims(c) \subseteq DOMAIN work[w].holds

\* A hold whose patron was told is cancelled, and no clearing counts it again.
CountsWell(w) ==
    /\ \A h \in work[w].newly : told[h] = 0
    /\ work[w].st = "fetched" /\ ~work[w].row.cancelled => told[work[w].hold] = 0

ClearingInv ==
    /\ DOMAIN work = Clearers
    /\ \A w \in Clearers : HasRows(w) /\ ReadsWell(w)
    /\ DesksPause => \A w \in Clearers : MeansWell(w)
    /\ "clear" \notin Overlap =>
          /\ \A w, v \in Clearing : w = v
          /\ \A h \in Holds : told[h] > 0 => hold[h].cancelled
          /\ \A w \in Clearers : CountsWell(w)

ShelfIInv == ShelfInv /\ ToldOnce /\ RowsInv /\ ClearingInv

-----------------------------------------------------------------------------
(* What the rows a process keeps are made of.                              *)

\* A process that has nothing in hand.
LEMMA IdleFields ==
    /\ DOMAIN Idle = WorkFields
    /\ Idle.st = "idle" /\ Idle.todo = {} /\ Idle.newly = {} /\ Idle.stat = "home"
    /\ DOMAIN Idle.holds = {} /\ DOMAIN Idle.copies = {}
BY DEF Idle, WorkFields

\* One process's part of the type invariant.
Typed(w) ==
    /\ work[w].st \in {"idle", "next", "fetched", "copy"}
    /\ work[w].newly = DOMAIN work[w].holds /\ work[w].todo \subseteq Holds
    /\ \A h \in DOMAIN work[w].holds : work[w].holds[h] \in Row
    /\ \A c \in DOMAIN work[w].copies : work[w].copies[c] \in Status

\* All that is asked of one process.
WorksWell(w) ==
    /\ Typed(w) /\ HasRows(w) /\ ReadsWell(w)
    /\ DesksPause => MeansWell(w)
    /\ "clear" \notin Overlap => CountsWell(w)

Rows == <<scene, hold, copy, lent, now, told, taken>>

\* A step of one clearing that commits nothing.
LEMMA ClearingKeeps ==
    ASSUME ShelfIInv, NEW w \in Clearers, UNCHANGED Rows,
           DOMAIN work' = Clearers,
           \A v \in Clearers : v # w => work'[v] = work[v],
           WorksWell(w)',
           "clear" \notin Overlap /\ work'[w].st # "idle" => Clearing \subseteq {w}
    PROVE  ShelfIInv'
<1> USE DEF ShelfIInv, ShelfInv, Rows
<1>1. \A v \in Clearers : WorksWell(v)
  BY DEF TypeOK, ClearingInv, WorksWell, Typed
<1>2. ASSUME NEW v \in Clearers PROVE WorksWell(v)'
  <2>1. CASE v # w
    <3>1. work'[v] = work[v]
      BY <2>1
    <3>2. Typed(v)' /\ HasRows(v)' /\ ReadsWell(v)'
      BY <1>1, <3>1 DEF WorksWell, Typed, HasRows, ReadsWell, Sound
    <3>3. DesksPause' => MeansWell(v)'
      BY <1>1, <3>1 DEF WorksWell, DesksPause, MeansWell, Means, Claims, OnShelf, Waits, Overlap
    <3>4. "clear" \notin Overlap' => CountsWell(v)'
      BY <1>1, <3>1 DEF WorksWell, CountsWell, Overlap
    <3> QED  BY <3>2, <3>3, <3>4 DEF WorksWell
  <2> QED  BY <2>1
<1>3. TypeOK'
  BY <1>2 DEF TypeOK, WorksWell, Typed
<1>4. LentIsOut' /\ WaitingIsThere' /\ PickedUpStays' /\ ToldOnce'
  BY DEF LentIsOut, WaitingIsThere, PickedUpStays, ToldOnce, DesksPause, OnShelf, Waits, Overlap
<1>5. RowsInv'
  BY DEF RowsInv, Sound, DesksPause, OnShelf, Waits, Overlap
<1>6. "clear" \notin Overlap => \A u, v \in Clearing' : u = v
  BY DEF Clearing, ClearingInv, Overlap
<1>7. ClearingInv'
  <2>1. "clear" \notin Overlap => \A h \in Holds : told'[h] > 0 => hold'[h].cancelled
    BY DEF ClearingInv
  <2> QED  BY <1>2, <1>6, <2>1 DEF ClearingInv, WorksWell, Overlap
<1> QED  BY <1>3, <1>4, <1>5, <1>7

\* A hold on the shelf is the one that its copy was captured for last.
LEMMA LastIsAlone ==
    ASSUME ShelfIInv, DesksPause, NEW h \in Holds, NEW g \in Holds,
           LastCaptured(h), OnShelf(g), hold[g].current = hold[h].current
    PROVE  g = h
<1>1. hold[g] \in Row /\ hold[h] \in Row
  BY DEF ShelfIInv, ShelfInv, TypeOK
<1>2. hold[g].captured \in Nat /\ hold[h].captured \in Nat
  BY <1>1, ShelfAssumption DEF Row
<1>3. g # h => hold[h].captured < hold[g].captured
  BY DEF ShelfIInv, RowsInv, LastCaptured
<1>4. hold[g].captured <= hold[h].captured
  BY DEF LastCaptured, OnShelf, Waits
<1> QED  BY <1>2, <1>3, <1>4

\* What is listed was not picked up, and its copy is neither lent nor kept
\* for anybody else.
LEMMA ListKeeps ==
    ASSUME ShelfIInv, UNCHANGED scene, NEW w \in Clearers, NEW cs \in SUBSET Copies, List(w, cs)
    PROVE  ShelfIInv'
<1> USE DEF ShelfIInv, ShelfInv
<1>1. UNCHANGED Rows /\ work[w] = Idle
  BY DEF List, Rows, ClearingInv, HasRows
<1>2. /\ DOMAIN work' = Clearers
      /\ \A v \in Clearers : v # w => work'[v] = work[v]
      /\ work'[w] = [Idle EXCEPT !.st = "next", !.todo = Expired(cs)]
  BY <1>1 DEF List, ClearingInv
<1>3. /\ DOMAIN work'[w] = WorkFields
      /\ work'[w].st = "next" /\ work'[w].todo = Expired(cs) /\ work'[w].newly = {}
      /\ work'[w].stat = "home" /\ DOMAIN work'[w].holds = {} /\ DOMAIN work'[w].copies = {}
  BY <1>2 DEF Idle, WorkFields
<1>4. Typed(w)' /\ HasRows(w)' /\ ReadsWell(w)' /\ CountsWell(w)'
  BY <1>3 DEF Typed, HasRows, ReadsWell, CountsWell, Expired, Status
<1>5. ASSUME DesksPause PROVE MeansWell(w)'
  <2>1. ASSUME NEW h \in Expired(cs)
        PROVE  /\ h \in Holds /\ h \notin taken /\ hold[h].current \notin lent
               /\ Claims(hold[h].current) \subseteq {h}
    <3>1. h \in Holds /\ LastCaptured(h) /\ copy[hold[h].current] = "shelf"
      BY DEF Expired
    <3>2. h \notin taken
      BY <1>5, <3>1 DEF PickedUpStays, LastCaptured
    <3>3. hold[h].current \notin lent
      BY <1>5, <3>1 DEF LentIsOut
    <3>4. Claims(hold[h].current) \subseteq {h}
      BY <1>5, <3>1, LastIsAlone DEF Claims
    <3> QED  BY <3>1, <3>2, <3>3, <3>4
  <2>2. \A c : Claims(c)' = Claims(c)
    BY <1>1 DEF Rows, Claims, OnShelf, Waits
  <2> QED  BY <1>1, <1>3, <2>1, <2>2 DEF Rows, MeansWell, Means
<1>6. "clear" \notin Overlap => Clearing \subseteq {w}
  BY DEF List, May
<1>7. DesksPause' <=> DesksPause
  BY DEF DesksPause, Overlap
<1>8. WorksWell(w)'
  BY <1>4, <1>5, <1>7 DEF WorksWell
<1> QED  BY <1>1, <1>2, <1>6, <1>8, ClearingKeeps

\* A process that goes on has been the only one, if they run one by one.
LEMMA GoesOnAlone ==
    ASSUME ShelfIInv, NEW w \in Clearers, work[w].st # "idle"
    PROVE  "clear" \notin Overlap => Clearing \subseteq {w}
BY DEF ShelfIInv, ClearingInv, Clearing

\* What is fetched is what is listed.
LEMMA FetchKeeps ==
    ASSUME ShelfIInv, UNCHANGED scene, NEW w \in Clearers, NEW h \in Holds, Fetch(w, h)
    PROVE  ShelfIInv'
<1> USE DEF ShelfIInv, ShelfInv
<1>1. UNCHANGED Rows /\ work[w].st = "next" /\ h \in work[w].todo
  BY DEF Fetch, Rows
<1>2. HasRows(w) /\ ReadsWell(w) /\ Typed(w)
  BY DEF ClearingInv, TypeOK, Typed
<1>3. hold[h] \in Row /\ Sound(hold[h])
  BY DEF TypeOK, RowsInv
<1> DEFINE s == IF hold[h].current = NoCopy THEN "home" ELSE copy[hold[h].current]
<1>4. s \in Status
  BY <1>3 DEF TypeOK, Row, Status
<1>5. /\ DOMAIN work' = Clearers
      /\ \A v \in Clearers : v # w => work'[v] = work[v]
      /\ work'[w] = [work[w] EXCEPT !.st = "fetched", !.todo = @ \ {h}, !.hold = h,
                                    !.row = hold[h], !.stat = s]
  BY DEF Fetch, ClearingInv
<1> HIDE DEF s
<1>6. /\ DOMAIN work'[w] = WorkFields
      /\ work'[w].st = "fetched" /\ work'[w].todo = work[w].todo \ {h}
      /\ work'[w].hold = h /\ work'[w].row = hold[h] /\ work'[w].stat = s
      /\ work'[w].holds = work[w].holds /\ work'[w].copies = work[w].copies
      /\ work'[w].newly = work[w].newly
  BY <1>2, <1>5 DEF HasRows, WorkFields
<1>7. Typed(w)' /\ HasRows(w)'
  BY <1>2, <1>3, <1>4, <1>6 DEF Typed, HasRows
<1>8. ReadsWell(w)'
  BY <1>1, <1>2, <1>3, <1>6 DEF ReadsWell, Sound, Rows
<1>9. DesksPause => MeansWell(w)'
  <2>1. \A g \in Holds : \A c : Means(w, g, c)' => Means(w, g, c)
    BY <1>1, <1>6 DEF Means, Rows
  <2>2. \A c : Claims(c)' = Claims(c)
    BY <1>1 DEF Rows, Claims, OnShelf, Waits
  <2> QED  BY <1>1, <1>6, <2>1, <2>2 DEF ClearingInv, MeansWell, Rows
<1>10. "clear" \notin Overlap => CountsWell(w)'
  <2>1. "clear" \notin Overlap /\ ~hold[h].cancelled => told[h] = 0
    BY DEF ClearingInv, TypeOK
  <2> QED  BY <1>1, <1>6, <2>1 DEF ClearingInv, CountsWell, Rows
<1>11. (DesksPause' <=> DesksPause) /\ Overlap' = Overlap
  BY DEF DesksPause, Overlap
<1>12. WorksWell(w)'
  BY <1>7, <1>8, <1>9, <1>10, <1>11 DEF WorksWell
<1> QED  BY <1>1, <1>5, <1>12, ClearingKeeps, GoesOnAlone

\* The hold is written, unless it was cancelled already.
LEMMA WriteHoldKeeps ==
    ASSUME ShelfIInv, UNCHANGED scene, NEW w \in Clearers, WriteHold(w)
    PROVE  ShelfIInv'
<1> USE DEF ShelfIInv, ShelfInv
<1> DEFINE h == work[w].hold
           row == [work[w].row EXCEPT !.cancelled = TRUE]
<1>1. UNCHANGED Rows /\ work[w].st = "fetched"
  BY DEF WriteHold, Rows
<1>2. HasRows(w) /\ ReadsWell(w) /\ Typed(w)
  BY DEF ClearingInv, TypeOK, Typed
<1>3. h \in Holds /\ work[w].row \in Row /\ Sound(work[w].row)
  BY <1>1, <1>2 DEF HasRows, ReadsWell
<1>4. /\ row \in Row /\ row.cancelled /\ Sound(row) /\ row.current = work[w].row.current
  BY <1>3 DEF Row, Sound
<1>5. /\ DOMAIN work' = Clearers
      /\ \A v \in Clearers : v # w => work'[v] = work[v]
  BY DEF WriteHold, ClearingInv
<1>6. (DesksPause' <=> DesksPause) /\ Overlap' = Overlap
  BY <1>1 DEF DesksPause, Overlap, Rows
<1>7. \A c : Claims(c)' = Claims(c)
  BY <1>1 DEF Rows, Claims, OnShelf, Waits
<1>8. CASE ~work[w].row.cancelled
  <2>1. work'[w] = [work[w] EXCEPT !.st = "copy", !.newly = @ \cup {h},
                                   !.holds = Put(@, h, row)]
    BY <1>8 DEF WriteHold, ClearingInv
  <2> HIDE DEF h, row
  <2>2. /\ DOMAIN work'[w] = WorkFields
        /\ work'[w].st = "copy" /\ work'[w].todo = work[w].todo
        /\ work'[w].hold = work[w].hold /\ work'[w].row = work[w].row
        /\ work'[w].stat = work[w].stat
        /\ work'[w].holds = Put(work[w].holds, h, row) /\ work'[w].copies = work[w].copies
        /\ work'[w].newly = work[w].newly \cup {h}
    BY <1>2, <2>1 DEF HasRows, WorkFields
  <2>3. /\ DOMAIN work'[w].holds = DOMAIN work[w].holds \cup {h}
        /\ work'[w].holds[h] = row
        /\ \A g \in DOMAIN work[w].holds : g # h => work'[w].holds[g] = work[w].holds[g]
    BY <2>2 DEF Put
  <2>4. Typed(w)' /\ HasRows(w)'
    BY <1>1, <1>2, <1>3, <1>4, <2>2, <2>3 DEF Typed, HasRows, h
  <2>5. ReadsWell(w)'
    <3>1. \A g \in DOMAIN work'[w].holds :
             Sound(work'[w].holds[g]) /\ work'[w].holds[g].cancelled
      BY <1>2, <1>4, <2>3 DEF ReadsWell
    <3> QED  BY <1>1, <1>3, <2>2, <2>3, <3>1 DEF ReadsWell, Sound, Rows, h
  <2>6. DesksPause => MeansWell(w)'
    <3>1. \A g \in Holds : \A c : Means(w, g, c)' => Means(w, g, c)
      BY <1>1, <1>4, <2>2, <2>3 DEF Means, Rows, h
    <3> QED  BY <1>1, <1>7, <2>2, <2>3, <3>1 DEF ClearingInv, MeansWell, Rows
  <2>7. "clear" \notin Overlap => CountsWell(w)'
    BY <1>1, <1>8, <2>2 DEF ClearingInv, CountsWell, Rows, h
  <2>8. WorksWell(w)'
    BY <1>6, <2>4, <2>5, <2>6, <2>7 DEF WorksWell
  <2> QED  BY <1>1, <1>5, <2>8, ClearingKeeps, GoesOnAlone
<1>9. CASE work[w].row.cancelled
  <2>1. work'[w] = [work[w] EXCEPT !.st = "copy"]
    BY <1>9 DEF WriteHold, ClearingInv
  <2>2. /\ DOMAIN work'[w] = WorkFields
        /\ work'[w].st = "copy" /\ work'[w].todo = work[w].todo
        /\ work'[w].hold = work[w].hold /\ work'[w].row = work[w].row
        /\ work'[w].stat = work[w].stat
        /\ work'[w].holds = work[w].holds /\ work'[w].copies = work[w].copies
        /\ work'[w].newly = work[w].newly
    BY <1>2, <2>1 DEF HasRows, WorkFields
  <2>3. Typed(w)' /\ HasRows(w)'
    BY <1>1, <1>2, <2>2 DEF Typed, HasRows
  <2>4. ReadsWell(w)'
    BY <1>1, <1>2, <1>9, <2>2 DEF ReadsWell, Sound, Rows
  <2>5. DesksPause => MeansWell(w)'
    <3>1. \A g \in Holds : \A c : Means(w, g, c)' => Means(w, g, c)
      BY <1>1, <2>2 DEF Means, Rows
    <3> QED  BY <1>1, <1>7, <2>2, <3>1 DEF ClearingInv, MeansWell, Rows
  <2>6. "clear" \notin Overlap => CountsWell(w)'
    BY <1>1, <2>2 DEF ClearingInv, CountsWell, Rows
  <2>7. WorksWell(w)'
    BY <1>6, <2>3, <2>4, <2>5, <2>6 DEF WorksWell
  <2> QED  BY <1>1, <1>5, <2>7, ClearingKeeps, GoesOnAlone
<1> QED  BY <1>8, <1>9

\* A process that gives up, or dies, leaves nothing behind.
LEMMA IdleKeeps ==
    ASSUME ShelfIInv, NEW w \in Clearers, UNCHANGED Rows, work' = [work EXCEPT ![w] = Idle]
    PROVE  ShelfIInv'
<1>1. /\ DOMAIN work' = Clearers /\ work'[w] = Idle
      /\ \A v \in Clearers : v # w => work'[v] = work[v]
  BY DEF ShelfIInv, ClearingInv
<1>2. Typed(w)' /\ HasRows(w)' /\ ReadsWell(w)' /\ MeansWell(w)' /\ CountsWell(w)'
  <2>1. Typed(w)' /\ HasRows(w)'
    BY <1>1, IdleFields DEF Typed, HasRows, Status
  <2>2. ReadsWell(w)' /\ MeansWell(w)' /\ CountsWell(w)'
    BY <1>1, IdleFields DEF ReadsWell, MeansWell, Means, CountsWell
  <2> QED  BY <2>1, <2>2
<1>3. WorksWell(w)'
  BY <1>2 DEF WorksWell
<1> QED  BY <1>1, <1>3, IdleFields, ClearingKeeps

\* The copy is written: it waits for nobody but the hold that is cancelled.
LEMMA WriteCopyKeeps ==
    ASSUME ShelfIInv, UNCHANGED scene, NEW w \in Clearers, WriteCopy(w)
    PROVE  ShelfIInv'
<1> USE DEF ShelfIInv, ShelfInv
<1> DEFINE h == work[w].hold
           c == work[w].row.current
           status == IF ClearStatus THEN "cleared" ELSE work[w].stat
<1>1. UNCHANGED Rows /\ work[w].st = "copy"
  BY DEF WriteCopy, Rows
<1>2. HasRows(w) /\ ReadsWell(w) /\ Typed(w)
  BY DEF ClearingInv, TypeOK, Typed
<1>3. h \in Holds /\ c \in Copies \cup {NoCopy} /\ status \in Status
  BY <1>1, <1>2 DEF HasRows, Row, Status
<1>4. CASE c = NoCopy
  BY <1>1, <1>4, IdleKeeps DEF WriteCopy
<1>5. CASE c # NoCopy
  <2>1. /\ DOMAIN work' = Clearers
        /\ \A v \in Clearers : v # w => work'[v] = work[v]
        /\ work'[w] = [work[w] EXCEPT !.st = "next", !.copies = Put(@, c, status)]
    BY <1>5 DEF WriteCopy, ClearingInv
  <2> HIDE DEF h, c, status
  <2>2. /\ DOMAIN work'[w] = WorkFields
        /\ work'[w].st = "next" /\ work'[w].todo = work[w].todo
        /\ work'[w].stat = work[w].stat
        /\ work'[w].holds = work[w].holds /\ work'[w].copies = Put(work[w].copies, c, status)
        /\ work'[w].newly = work[w].newly
    BY <1>2, <2>1 DEF HasRows, WorkFields
  <2>3. /\ DOMAIN work'[w].copies = DOMAIN work[w].copies \cup {c}
        /\ work'[w].copies[c] = status
        /\ \A d \in DOMAIN work[w].copies : d # c => work'[w].copies[d] = work[w].copies[d]
    BY <2>2 DEF Put
  <2>4. Typed(w)' /\ HasRows(w)'
    BY <1>2, <1>3, <1>5, <2>2, <2>3 DEF Typed, HasRows
  <2>5. ReadsWell(w)'
    BY <1>1, <1>2, <2>2 DEF ReadsWell, Sound, Rows
  <2>6. ASSUME DesksPause PROVE MeansWell(w)'
    <3>1. \A g \in Holds : \A d : Means(w, g, d)' => Means(w, g, d)
      BY <1>1, <2>2 DEF Means, Rows
    <3>2. \A d : Claims(d)' = Claims(d)
      BY <1>1 DEF Rows, Claims, OnShelf, Waits
    <3>3. c \notin lent /\ Claims(c) \subseteq {h}
      BY <1>1, <1>3, <2>6 DEF Means, ClearingInv, MeansWell, h, c
    <3>4. Claims(c) \subseteq DOMAIN work[w].holds
      BY <1>1, <1>2, <3>3 DEF ReadsWell, Claims, OnShelf, Waits, h
    <3> QED  BY <1>1, <2>2, <2>3, <2>6, <3>1, <3>2, <3>3, <3>4
                DEF ClearingInv, MeansWell, Rows
  <2>7. "clear" \notin Overlap => CountsWell(w)'
    BY <1>1, <2>2 DEF ClearingInv, CountsWell, Rows
  <2>8. WorksWell(w)'
    BY <1>1, <2>4, <2>5, <2>6, <2>7 DEF WorksWell, DesksPause, Overlap, Rows
  <2> QED  BY <1>1, <2>1, <2>8, ClearingKeeps, GoesOnAlone
<1> QED  BY <1>4, <1>5

\* The commit cancels holds and changes copies that wait for nobody else.
LEMMA CommitKeeps ==
    ASSUME ShelfIInv, UNCHANGED scene, NEW w \in Clearers, Commit(w)
    PROVE  ShelfIInv'
<1> USE DEF ShelfIInv, ShelfInv
<1>1. /\ UNCHANGED <<scene, lent, now, taken>> /\ work[w].st = "next"
      /\ hold' = Merge(hold, work[w].holds) /\ copy' = Merge(copy, work[w].copies)
      /\ told' = [h \in Holds |-> told[h] + IF h \in work[w].newly THEN 1 ELSE 0]
  BY DEF Commit
<1>2. HasRows(w) /\ ReadsWell(w) /\ Typed(w)
  BY DEF ClearingInv, TypeOK, Typed
<1>3. /\ \A h \in Holds : hold'[h] = IF h \in DOMAIN work[w].holds THEN work[w].holds[h]
                                     ELSE hold[h]
      /\ hold' \in [Holds -> Row]
  BY <1>1, <1>2 DEF Merge, HasRows, Typed, TypeOK
<1>4. /\ \A c \in Copies : copy'[c] = IF c \in DOMAIN work[w].copies THEN work[w].copies[c]
                                      ELSE copy[c]
      /\ copy' \in [Copies -> Status]
  BY <1>1, <1>2 DEF Merge, HasRows, Typed, TypeOK
<1>5. /\ \A h \in Holds : told'[h] = IF h \in work[w].newly THEN told[h] + 1 ELSE told[h]
      /\ DOMAIN told' = Holds /\ \A h \in Holds : told'[h] \in Nat
  BY <1>1 DEF TypeOK
<1>6. /\ DOMAIN work' = Clearers /\ work'[w] = Idle
      /\ \A v \in Clearers : v # w => work'[v] = work[v]
  BY DEF Commit, ClearingInv
<1>7. (DesksPause' <=> DesksPause) /\ Overlap' = Overlap
  BY <1>1 DEF DesksPause, Overlap
<1>8. \A h \in Holds : hold[h].cancelled => hold'[h].cancelled
  BY <1>2, <1>3 DEF ReadsWell
<1>9. \A h \in Holds : OnShelf(h)' => OnShelf(h) /\ hold'[h] = hold[h]
                                      /\ h \notin DOMAIN work[w].holds
  BY <1>1, <1>2, <1>3 DEF OnShelf, Waits, ReadsWell
<1>10. \A c : Claims(c)' \subseteq Claims(c)
  BY <1>9 DEF Claims
<1>11. RowsInv'
  <2>1. \A h \in Holds : Sound(hold[h])'
    BY <1>1, <1>2, <1>3 DEF RowsInv, ReadsWell, Sound
  <2>2. ASSUME DesksPause, NEW g \in Holds, NEW h \in Holds, OnShelf(g)', g # h,
               hold'[h].current = hold'[g].current, ~hold'[h].filled
        PROVE  hold'[h].captured < hold'[g].captured
    <3>1. OnShelf(g) /\ hold'[g] = hold[g]
      BY <1>9, <2>2
    <3>2. CASE h \in DOMAIN work[w].holds
      <4>1. hold[g].current \in Copies \cup {NoCopy}
        BY DEF TypeOK, Row
      <4>2. Means(w, h, hold[g].current) /\ g \in Claims(hold[g].current)
        BY <1>3, <2>2, <3>1, <3>2 DEF Means, Claims
      <4> QED  BY <2>2, <4>1, <4>2 DEF ClearingInv, MeansWell
    <3>3. CASE h \notin DOMAIN work[w].holds
      BY <1>3, <2>2, <3>1, <3>3 DEF RowsInv
    <3> QED  BY <3>2, <3>3
  <2> QED  BY <1>7, <2>1, <2>2 DEF RowsInv
<1>12. LentIsOut'
  BY <1>1, <1>4, <1>7 DEF LentIsOut, ClearingInv, MeansWell, TypeOK
<1>13. PickedUpStays'
  <2>1. ASSUME DesksPause, NEW h \in taken PROVE h \in Holds /\ h \notin DOMAIN work[w].holds
    <3>1. h \in Holds
      BY DEF TypeOK
    <3>2. ASSUME h \in DOMAIN work[w].holds PROVE FALSE
      <4>1. work[w].holds[h].current \in Copies \cup {NoCopy}
        BY <1>2, <3>2 DEF Typed, Row
      <4> QED  BY <2>1, <3>1, <3>2, <4>1 DEF Means, ClearingInv, MeansWell
    <3> QED  BY <3>1, <3>2
  <2> QED  BY <1>1, <1>3, <1>7, <2>1 DEF PickedUpStays
<1>14. WaitingIsThere'
  <2>1. ASSUME DesksPause, NEW h \in Holds, OnShelf(h)'
        PROVE  copy'[hold'[h].current] = "shelf"
    <3>1. OnShelf(h) /\ hold'[h] = hold[h] /\ h \notin DOMAIN work[w].holds
      BY <1>9, <2>1
    <3>2. hold[h].current \in Copies
      BY <3>1, ShelfAssumption DEF TypeOK, Row, RowsInv, Sound, OnShelf
    <3>3. h \in Claims(hold[h].current)
      BY <3>1 DEF Claims
    <3>4. hold[h].current \notin DOMAIN work[w].copies
      BY <2>1, <3>1, <3>3 DEF ClearingInv, MeansWell
    <3> QED  BY <1>4, <2>1, <3>1, <3>2, <3>4 DEF WaitingIsThere
  <2> QED  BY <1>7, <2>1 DEF WaitingIsThere
<1>15. "clear" \notin Overlap => /\ \A h \in Holds : told'[h] <= 1
                                 /\ \A h \in Holds : told'[h] > 0 => hold'[h].cancelled
  BY <1>2, <1>3, <1>5, <1>8 DEF ToldOnce, ClearingInv, CountsWell, ReadsWell, Typed, TypeOK
<1>16. ASSUME NEW v \in Clearers PROVE WorksWell(v)'
  <2>1. CASE v = w
    <3>1. Typed(v)' /\ HasRows(v)'
      BY <1>6, <2>1, IdleFields DEF Typed, HasRows, Status
    <3>2. ReadsWell(v)' /\ MeansWell(v)' /\ CountsWell(v)'
      BY <1>6, <2>1, IdleFields DEF ReadsWell, MeansWell, Means, CountsWell
    <3> QED  BY <3>1, <3>2 DEF WorksWell
  <2>2. CASE v # w
    <3>1. work'[v] = work[v] /\ Typed(v) /\ HasRows(v) /\ ReadsWell(v)
      BY <1>6, <2>2 DEF ClearingInv, TypeOK, Typed
    <3>2. Typed(v)' /\ HasRows(v)'
      BY <3>1 DEF Typed, HasRows
    <3>3. ReadsWell(v)'
      BY <1>1, <1>8, <3>1 DEF ReadsWell, Sound, HasRows
    <3>4. ASSUME DesksPause PROVE MeansWell(v)'
      <4>1. ASSUME NEW g \in Holds, NEW c \in Copies \cup {NoCopy}, Means(v, g, c)'
            PROVE  Means(v, g, c) \/ Means(w, g, c)
        BY <1>3, <3>1, <4>1 DEF Means
      <4> QED  BY <1>1, <1>10, <3>1, <3>4, <4>1 DEF ClearingInv, MeansWell
    <3>5. ASSUME "clear" \notin Overlap PROVE CountsWell(v)'
      <4>1. work[v] = Idle
        BY <1>1, <2>2, <3>1, <3>5 DEF ClearingInv, Clearing, HasRows
      <4> QED  BY <3>1, <4>1, IdleFields DEF CountsWell
    <3> QED  BY <1>7, <3>2, <3>3, <3>4, <3>5 DEF WorksWell
  <2> QED  BY <2>1, <2>2
<1>17. TypeOK'
  BY <1>1, <1>3, <1>4, <1>5, <1>16 DEF TypeOK, WorksWell, Typed
<1>18. "clear" \notin Overlap => \A u, v \in Clearing' : u = v
  BY <1>6, IdleFields DEF ClearingInv, Clearing
<1>19. ClearingInv'
  BY <1>6, <1>7, <1>15, <1>16, <1>18 DEF ClearingInv, WorksWell
<1> QED  BY <1>7, <1>11, <1>12, <1>13, <1>14, <1>15, <1>17, <1>19 DEF ToldOnce

-----------------------------------------------------------------------------
(* The desks.                                                              *)

\* What a desk may do to the rows while a clearing, if there is one, goes on.
LEMMA DeskKeeps ==
    ASSUME ShelfIInv, UNCHANGED <<scene, work, told>>,
           hold' \in [Holds -> Row], copy' \in [Copies -> Status],
           lent' \subseteq Copies, taken' \subseteq Holds,
           now' \in 0..MaxCaptures, now <= now',
           \A h \in Holds : hold[h].cancelled => hold'[h].cancelled,
           RowsInv', LentIsOut', WaitingIsThere', PickedUpStays',
           DesksPause /\ Clearing # {} =>
              /\ UNCHANGED <<lent, taken>>
              /\ \A h \in Holds : hold'[h].current \in {hold[h].current, NoCopy}
              /\ \A h \in Holds :
                    OnShelf(h)' => OnShelf(h) /\ hold'[h].current = hold[h].current
    PROVE  ShelfIInv'
<1> USE DEF ShelfIInv, ShelfInv
<1>1. (DesksPause' <=> DesksPause) /\ Overlap' = Overlap
  BY DEF DesksPause, Overlap
<1>2. now \in Nat /\ now' \in Nat
  BY ShelfAssumption DEF TypeOK
<1>3. ASSUME NEW v \in Clearers PROVE WorksWell(v)'
  <2>1. work'[v] = work[v] /\ Typed(v) /\ HasRows(v) /\ ReadsWell(v)
    BY DEF ClearingInv, TypeOK, Typed
  <2>2. Typed(v)' /\ HasRows(v)'
    BY <2>1 DEF Typed, HasRows
  <2>3. ASSUME NEW row \in Row, Sound(row) PROVE Sound(row)'
    BY <1>2, <2>3, ShelfAssumption DEF Sound, Row
  <2>4. ReadsWell(v)'
    BY <2>1, <2>3 DEF ReadsWell, HasRows, Typed
  <2>5. ASSUME DesksPause PROVE MeansWell(v)'
    <3>1. CASE work[v].st = "idle"
      <4>1. work[v] = Idle
        BY <2>1, <3>1 DEF HasRows
      <4> QED  BY <2>1, <4>1, IdleFields DEF MeansWell, Means
    <3>2. CASE work[v].st # "idle"
      <4>1. /\ UNCHANGED <<lent, taken>>
            /\ \A h \in Holds : hold'[h].current \in {hold[h].current, NoCopy}
            /\ \A h \in Holds :
                  OnShelf(h)' => OnShelf(h) /\ hold'[h].current = hold[h].current
        BY <2>5, <3>2 DEF Clearing
      <4>2. \A c : Claims(c)' \subseteq Claims(c)
        BY <4>1 DEF Claims
      <4>3. Claims(NoCopy)' = {} /\ NoCopy \notin lent
        BY ShelfAssumption DEF Claims, OnShelf, RowsInv, Sound, TypeOK
      <4>4. ASSUME NEW g \in Holds, NEW c \in Copies \cup {NoCopy}, Means(v, g, c)'
            PROVE  g \notin taken /\ c \notin lent /\ Claims(c)' \subseteq {g}
        <5>1. CASE Means(v, g, c)
          BY <2>5, <4>2, <5>1 DEF ClearingInv, MeansWell
        <5>2. CASE g \in work[v].todo /\ c = NoCopy
          <6>1. hold[g].current \in Copies \cup {NoCopy} /\ Means(v, g, hold[g].current)
            BY <5>2 DEF Means, TypeOK, Row
          <6>2. g \notin taken
            BY <2>5, <6>1 DEF ClearingInv, MeansWell
          <6> QED  BY <4>3, <5>2, <6>2
        <5> QED  BY <2>1, <4>1, <4>4, <5>1, <5>2 DEF Means
      <4> QED  BY <2>1, <2>5, <4>1, <4>2, <4>4 DEF ClearingInv, MeansWell
    <3> QED  BY <3>1, <3>2
  <2>6. "clear" \notin Overlap => CountsWell(v)'
    BY <2>1 DEF ClearingInv, CountsWell
  <2> QED  BY <1>1, <2>2, <2>4, <2>5, <2>6 DEF WorksWell
<1>4. TypeOK'
  BY <1>3 DEF TypeOK, WorksWell, Typed
<1>5. ToldOnce'
  BY <1>1 DEF ToldOnce
<1>6. ClearingInv'
  BY <1>1, <1>3 DEF ClearingInv, Clearing, WorksWell
<1> QED  BY <1>4, <1>5, <1>6

\* Nobody else waits for the copy of a hold on the shelf.
LEMMA OnlyClaim ==
    ASSUME ShelfIInv, DesksPause, NEW c, NEW g \in Claims(c), NEW h \in Claims(c)
    PROVE  g = h
<1>1. hold[g].captured \in Nat /\ hold[h].captured \in Nat
  BY ShelfAssumption DEF ShelfIInv, ShelfInv, TypeOK, Row, Claims
<1> QED  BY <1>1 DEF ShelfIInv, RowsInv, Claims, OnShelf, Waits

\* Lending and returning, where no clearing is under way, or where it may be.
LEMMA Paused ==
    ASSUME ShelfIInv, NEW kind \in {"checkin", "checkout"}, May(kind)
    PROVE  DesksPause => Clearing = {}
BY DEF May, DesksPause

\* A copy that is returned is claimed by nobody yet.
LEMMA CheckinKeeps ==
    ASSUME ShelfIInv, UNCHANGED scene, NEW c \in Copies, Checkin(c)
    PROVE  ShelfIInv'
<1> USE DEF ShelfIInv, ShelfInv
<1>1. /\ UNCHANGED <<work, told, taken>> /\ lent' = lent \ {c}
      /\ copy[c] # "shelf" \/ Claims(c) = {}
      /\ DesksPause => Clearing = {}
  BY Paused DEF Checkin, deskVars
<1>2. DesksPause' <=> DesksPause
  BY DEF DesksPause, Overlap
<1>3. DesksPause => Claims(c) = {}
  BY <1>1 DEF WaitingIsThere, Claims
<1>4. ASSUME NEW h \in Holds, Waits(h), hold[h].captured = 0, now < MaxCaptures, now' = now + 1,
             hold' = [hold EXCEPT ![h] = [@ EXCEPT !.current = c, !.captured = now + 1,
                                                  !.expired = FALSE]],
             copy' = [copy EXCEPT ![c] = "shelf"]
      PROVE  ShelfIInv'
  <2>1. /\ now \in Nat /\ now' \in 0..MaxCaptures /\ now <= now'
        /\ \A g \in Holds : hold[g] \in Row /\ hold[g].captured \in Nat
    BY <1>4, ShelfAssumption DEF TypeOK, Row
  <2>2. /\ hold'[h] = [hold[h] EXCEPT !.current = c, !.captured = now + 1, !.expired = FALSE]
        /\ \A g \in Holds : g # h => hold'[g] = hold[g]
        /\ DOMAIN hold' = Holds
    BY <1>4 DEF TypeOK
  <2>3. /\ hold'[h].current = c /\ hold'[h].captured = now + 1
        /\ hold'[h].cancelled = hold[h].cancelled /\ hold'[h].filled = hold[h].filled
        /\ hold'[h] \in Row
    <3>1. now + 1 \in 0..MaxCaptures /\ hold[h] \in Row
      BY <1>4, <2>1
    <3> QED  BY <2>2, <3>1 DEF Row
  <2>4. hold' \in [Holds -> Row] /\ copy' \in [Copies -> Status]
    BY <1>4, <2>1, <2>2, <2>3 DEF TypeOK, Status
  <2>5. \A g \in Holds : g # h => (OnShelf(g)' <=> OnShelf(g))
    BY <2>2 DEF OnShelf, Waits
  <2>6. RowsInv'
    <3>1. \A g \in Holds : Sound(hold[g])'
      BY <1>4, <2>1, <2>2, <2>3, ShelfAssumption DEF RowsInv, Sound
    <3>2. ASSUME DesksPause, NEW g \in Holds, NEW k \in Holds, OnShelf(g)', g # k,
                 hold'[k].current = hold'[g].current, ~hold'[k].filled
          PROVE  hold'[k].captured < hold'[g].captured
      <4>1. CASE g = h
        <5>1. hold'[k] = hold[k] /\ hold[k].captured <= now /\ hold[k].captured \in Nat
          BY <2>1, <2>2, <3>2, <4>1 DEF RowsInv, Sound
        <5> QED  BY <2>1, <2>3, <4>1, <5>1
      <4>2. CASE g # h
        <5>1. OnShelf(g) /\ hold[g].current # c
          BY <1>3, <2>5, <3>2, <4>2 DEF Claims
        <5> QED  BY <2>2, <2>3, <3>2, <4>2, <5>1 DEF RowsInv
      <4> QED  BY <4>1, <4>2
    <3> QED  BY <1>2, <3>1, <3>2 DEF RowsInv
  <2>7. LentIsOut'
    BY <1>1, <1>2, <1>4 DEF LentIsOut, TypeOK
  <2>8. WaitingIsThere'
    <3>1. ASSUME DesksPause, NEW g \in Holds, OnShelf(g)' PROVE copy'[hold'[g].current] = "shelf"
      <4>1. CASE g = h
        BY <1>4, <2>3, <4>1 DEF TypeOK
      <4>2. CASE g # h
        <5>1. OnShelf(g) /\ hold'[g] = hold[g] /\ hold[g].current # c
          BY <1>3, <2>2, <2>5, <3>1, <4>2 DEF Claims
        <5> QED  BY <1>4, <3>1, <5>1 DEF WaitingIsThere, TypeOK
      <4> QED  BY <4>1, <4>2
    <3> QED  BY <1>2, <3>1 DEF WaitingIsThere
  <2>9. PickedUpStays'
    BY <1>1, <1>2, <2>2, <2>3 DEF PickedUpStays, TypeOK
  <2>10. /\ \A g \in Holds : hold[g].cancelled => hold'[g].cancelled
         /\ lent' \subseteq Copies /\ taken' \subseteq Holds
    BY <1>1, <2>2, <2>3 DEF TypeOK
  <2> QED  BY <1>1, <2>1, <2>4, <2>6, <2>7, <2>8, <2>9, <2>10, DeskKeeps
<1>5. ASSUME UNCHANGED <<hold, now>>, copy' = [copy EXCEPT ![c] = "home"]
      PROVE  ShelfIInv'
  <2>1. now \in Nat /\ \A h \in Holds : OnShelf(h)' <=> OnShelf(h)
    BY <1>5, ShelfAssumption DEF TypeOK, OnShelf, Waits
  <2>2. RowsInv' /\ PickedUpStays'
    BY <1>1, <1>2, <1>5, <2>1 DEF RowsInv, Sound, PickedUpStays
  <2>3. copy' \in [Copies -> Status] /\ lent' \subseteq Copies
    BY <1>1, <1>5 DEF TypeOK, Status
  <2>4. LentIsOut'
    BY <1>1, <1>2, <1>5 DEF LentIsOut, TypeOK
  <2>5. WaitingIsThere'
    BY <1>2, <1>3, <1>5, <2>1 DEF WaitingIsThere, Claims, TypeOK
  <2>6. hold' \in [Holds -> Row] /\ taken' \subseteq Holds /\ now' \in 0..MaxCaptures /\ now <= now'
    BY <1>1, <1>5, <2>1 DEF TypeOK
  <2>7. \A h \in Holds : hold[h].cancelled => hold'[h].cancelled
    BY <1>5
  <2> QED  BY <1>1, <2>2, <2>3, <2>4, <2>5, <2>6, <2>7, DeskKeeps
<1> QED  BY <1>4, <1>5 DEF Checkin

\* A hold that is filled, reset, cancelled or expires: the others are as alone
\* on their copies as they were.
LEMMA RowChanges ==
    ASSUME ShelfIInv, UNCHANGED <<scene, work, told, now>>, NEW h \in Holds, NEW x \in Row,
           hold' = [hold EXCEPT ![h] = x],
           \/ x.current = NoCopy /\ x.captured = 0 /\ x.filled = hold[h].filled
           \/ /\ x.current = hold[h].current /\ x.captured = hold[h].captured
              /\ hold[h].filled => x.filled,
           hold[h].cancelled => x.cancelled
    PROVE  /\ hold' \in [Holds -> Row] /\ now' \in 0..MaxCaptures /\ now <= now'
           /\ \A g \in Holds : hold[g].cancelled => hold'[g].cancelled
           /\ \A g \in Holds : hold'[g].current \in {hold[g].current, NoCopy}
           /\ \A g \in Holds : OnShelf(g)' => OnShelf(g) /\ hold'[g].current = hold[g].current
           /\ RowsInv'
<1> USE DEF ShelfIInv, ShelfInv
<1>1. /\ hold'[h] = x /\ \A g \in Holds : g # h => hold'[g] = hold[g]
      /\ hold' \in [Holds -> Row]
  BY DEF TypeOK
<1>2. now \in Nat /\ now' = now /\ now' \in 0..MaxCaptures
  BY ShelfAssumption DEF TypeOK
<1>3. \A g \in Holds : OnShelf(g)' => OnShelf(g) /\ hold'[g].current = hold[g].current
  BY <1>1 DEF OnShelf, Waits
<1>4. \A g \in Holds : Sound(hold[g])'
  BY <1>1, <1>2 DEF RowsInv, Sound
<1>5. ASSUME DesksPause, NEW g \in Holds, NEW k \in Holds, OnShelf(g)', g # k,
             hold'[k].current = hold'[g].current, ~hold'[k].filled
      PROVE  hold'[k].captured < hold'[g].captured
  <2>1. OnShelf(g) /\ hold'[g].current = hold[g].current /\ hold'[g].captured = hold[g].captured
    BY <1>1, <1>3, <1>5 DEF OnShelf
  <2>2. hold[g].current # NoCopy
    BY <2>1 DEF OnShelf, RowsInv, Sound
  <2>3. hold'[k].current = hold[k].current /\ hold'[k].captured = hold[k].captured
        /\ ~hold[k].filled
    BY <1>1, <1>5, <2>1, <2>2
  <2> QED  BY <1>5, <2>1, <2>3 DEF RowsInv
<1>6. RowsInv'
  BY <1>4, <1>5 DEF RowsInv, DesksPause, Overlap
<1> QED  BY <1>1, <1>2, <1>3, <1>6

\* Giving a hold back.
LEMMA UnsetRow ==
    ASSUME NEW row \in Row
    PROVE  /\ Unset(row) \in Row
           /\ Unset(row).current = NoCopy /\ Unset(row).captured = 0
           /\ Unset(row).filled = row.filled /\ Unset(row).cancelled = row.cancelled
<1>1. 0 \in 0..MaxCaptures
  BY ShelfAssumption
<1> QED  BY <1>1 DEF Unset, Row

\* A copy that is lent waits for nobody any more.
LEMMA CheckoutKeeps ==
    ASSUME ShelfIInv, UNCHANGED scene, NEW c \in Copies, Checkout(c)
    PROVE  ShelfIInv'
<1> USE DEF ShelfIInv, ShelfInv
<1>1. /\ UNCHANGED <<work, told, now>> /\ lent' = lent \cup {c}
      /\ copy' = [copy EXCEPT ![c] = "out"]
      /\ DesksPause => Clearing = {}
  BY Paused DEF Checkout, deskVars
<1>2. DesksPause' <=> DesksPause
  BY DEF DesksPause, Overlap
<1>3. LentIsOut' /\ copy' \in [Copies -> Status] /\ lent' \subseteq Copies
  BY <1>1, <1>2 DEF LentIsOut, TypeOK, Status
<1>4. CASE Claims(c) = {} /\ UNCHANGED <<hold, taken>>
  <2>1. \A g \in Holds : OnShelf(g)' <=> OnShelf(g)
    BY <1>4 DEF OnShelf, Waits
  <2>2. RowsInv' /\ PickedUpStays'
    BY <1>1, <1>2, <1>4, <2>1 DEF RowsInv, Sound, PickedUpStays
  <2>3. WaitingIsThere'
    BY <1>1, <1>2, <1>4, <2>1 DEF WaitingIsThere, Claims, TypeOK
  <2>4. now \in Nat /\ now <= now' /\ now' \in 0..MaxCaptures
    BY <1>1, ShelfAssumption DEF TypeOK
  <2>5. hold' \in [Holds -> Row] /\ taken' \subseteq Holds
        /\ \A h \in Holds : hold[h].cancelled => hold'[h].cancelled
    BY <1>4 DEF TypeOK
  <2> QED  BY <1>1, <1>3, <2>2, <2>3, <2>4, <2>5, DeskKeeps
<1>5. ASSUME NEW h \in Claims(c), NEW x \in Row, hold' = [hold EXCEPT ![h] = x],
             \/ x.current = NoCopy /\ x.captured = 0 /\ x.filled = hold[h].filled
             \/ x.current = hold[h].current /\ x.captured = hold[h].captured /\ x.filled,
             x.cancelled = hold[h].cancelled,
             \/ taken' = taken
             \/ taken' = taken \cup {h} /\ x.filled
      PROVE  ShelfIInv'
  <2>1. h \in Holds /\ OnShelf(h) /\ hold[h].current = c
    BY DEF Claims
  <2>2. /\ hold' \in [Holds -> Row] /\ now' \in 0..MaxCaptures /\ now <= now'
        /\ \A g \in Holds : hold[g].cancelled => hold'[g].cancelled
        /\ \A g \in Holds : hold'[g].current \in {hold[g].current, NoCopy}
        /\ \A g \in Holds : OnShelf(g)' => OnShelf(g) /\ hold'[g].current = hold[g].current
        /\ RowsInv'
    BY <1>1, <1>5, <2>1, RowChanges
  <2>3. hold'[h] = x /\ \A g \in Holds : g # h => hold'[g] = hold[g]
    BY <1>5, <2>1 DEF TypeOK
  <2>4. ~OnShelf(h)'
    BY <1>5, <2>3 DEF OnShelf, Waits
  <2>5. WaitingIsThere'
    <3>1. ASSUME DesksPause, NEW g \in Holds, OnShelf(g)' PROVE hold'[g].current # c
      BY <2>1, <2>2, <2>4, <3>1, OnlyClaim DEF Claims
    <3> QED  BY <1>1, <1>2, <2>2, <3>1 DEF WaitingIsThere, TypeOK
  <2>6. PickedUpStays' /\ taken' \subseteq Holds
    <3>1. ~hold[h].cancelled /\ ~hold[h].filled
      BY <2>1 DEF OnShelf, Waits
    <3>2. DesksPause => h \notin taken
      BY <3>1 DEF PickedUpStays
    <3> QED  BY <1>2, <1>5, <2>1, <2>3, <3>1, <3>2 DEF PickedUpStays, TypeOK
  <2> QED  BY <1>1, <1>3, <2>2, <2>5, <2>6, DeskKeeps
<1>6. CASE \E h \in Claims(c) : \/ /\ hold' = [hold EXCEPT ![h].filled = TRUE]
                                   /\ taken' = taken \cup {h}
                                \/ /\ hold' = [hold EXCEPT ![h] = Unset(@)]
                                   /\ UNCHANGED taken
  <2>1. PICK h \in Claims(c) : \/ /\ hold' = [hold EXCEPT ![h].filled = TRUE]
                                  /\ taken' = taken \cup {h}
                               \/ /\ hold' = [hold EXCEPT ![h] = Unset(@)]
                                  /\ UNCHANGED taken
    BY <1>6
  <2>2. h \in Holds /\ hold[h] \in Row
    BY DEF Claims, TypeOK
  <2>3. CASE hold' = [hold EXCEPT ![h].filled = TRUE] /\ taken' = taken \cup {h}
    <3> DEFINE x == [hold[h] EXCEPT !.filled = TRUE]
    <3>1. /\ x \in Row /\ x.current = hold[h].current /\ x.captured = hold[h].captured
          /\ x.filled /\ x.cancelled = hold[h].cancelled
      BY <2>2 DEF Row
    <3>2. hold' = [hold EXCEPT ![h] = x]
      BY <2>3
    <3> HIDE DEF x
    <3> QED  BY <1>5, <2>3, <3>1, <3>2
  <2>4. CASE hold' = [hold EXCEPT ![h] = Unset(@)] /\ UNCHANGED taken
    <3> DEFINE x == Unset(hold[h])
    <3>1. /\ x \in Row /\ x.current = NoCopy /\ x.captured = 0
          /\ x.filled = hold[h].filled /\ x.cancelled = hold[h].cancelled
      BY <2>2, UnsetRow
    <3>2. hold' = [hold EXCEPT ![h] = x]
      BY <2>2, <2>4 DEF TypeOK
    <3>3. taken' = taken
      BY <2>4
    <3> HIDE DEF x
    <3>4. \/ x.current = NoCopy /\ x.captured = 0 /\ x.filled = hold[h].filled
          \/ x.current = hold[h].current /\ x.captured = hold[h].captured /\ x.filled
      BY <3>1
    <3> QED  BY <1>5, <3>1, <3>2, <3>3, <3>4
  <2> QED  BY <2>1, <2>3, <2>4
<1> QED  BY <1>4, <1>6 DEF Checkout

\* A hold that is given back frees its copy for nobody.
LEMMA ResetKeeps ==
    ASSUME ShelfIInv, UNCHANGED scene, NEW h \in Holds, Reset(h)
    PROVE  ShelfIInv'
<1> USE DEF ShelfIInv, ShelfInv
<1> DEFINE c == hold[h].current
           x == Unset(hold[h])
<1>1. /\ UNCHANGED <<work, told, now, lent, taken>> /\ OnShelf(h)
      /\ hold' = [hold EXCEPT ![h] = x]
      /\ copy' = IF copy[c] = "shelf" THEN [copy EXCEPT ![c] = "home"] ELSE copy
      /\ h \in Claims(c)
  BY DEF Reset, deskVars, TypeOK, Claims
<1>2. DesksPause' <=> DesksPause
  BY DEF DesksPause, Overlap
<1>3. /\ x \in Row /\ x.current = NoCopy /\ x.captured = 0
      /\ x.filled = hold[h].filled /\ x.cancelled = hold[h].cancelled
  BY UnsetRow DEF TypeOK
<1>4. c \in Copies
  BY <1>1 DEF OnShelf, RowsInv, Sound, TypeOK, Row
<1> HIDE DEF c, x
<1>5. /\ hold' \in [Holds -> Row] /\ now' \in 0..MaxCaptures /\ now <= now'
      /\ \A g \in Holds : hold[g].cancelled => hold'[g].cancelled
      /\ \A g \in Holds : hold'[g].current \in {hold[g].current, NoCopy}
      /\ \A g \in Holds : OnShelf(g)' => OnShelf(g) /\ hold'[g].current = hold[g].current
      /\ RowsInv'
  BY <1>1, <1>3, RowChanges
<1>6. hold'[h] = x /\ \A g \in Holds : g # h => hold'[g] = hold[g]
  BY <1>1 DEF TypeOK
<1>7. copy' \in [Copies -> Status] /\ LentIsOut'
  BY <1>1, <1>2, <1>4 DEF LentIsOut, TypeOK, Status
<1>8. WaitingIsThere'
  <2>1. ASSUME DesksPause, NEW g \in Holds, OnShelf(g)' PROVE hold[g].current # c
    <3>1. g # h
      BY <1>3, <1>6, <2>1 DEF OnShelf
    <3> QED  BY <1>1, <1>5, <2>1, <3>1, OnlyClaim DEF Claims
  <2> QED  BY <1>1, <1>2, <1>5, <2>1 DEF WaitingIsThere, TypeOK
<1>9. PickedUpStays' /\ lent' \subseteq Copies /\ taken' \subseteq Holds
  BY <1>1, <1>2, <1>3, <1>6 DEF PickedUpStays, TypeOK
<1> QED  BY <1>1, <1>5, <1>7, <1>8, <1>9, DeskKeeps

\* A hold that is cancelled or expires keeps its copy.
LEMMA CancelKeeps ==
    ASSUME ShelfIInv, UNCHANGED scene, NEW h \in Holds, Cancel(h) \/ Expire(h)
    PROVE  ShelfIInv'
<1> USE DEF ShelfIInv, ShelfInv
<1>1. /\ UNCHANGED <<work, told, now, lent, taken, copy>>
      /\ Waits(h)
  BY DEF Cancel, Expire, deskVars, OnShelf
<1>2. DesksPause' <=> DesksPause
  BY DEF DesksPause, Overlap
<1>3. PICK x \in Row : /\ hold' = [hold EXCEPT ![h] = x]
                       /\ x.current = hold[h].current /\ x.captured = hold[h].captured
                       /\ x.filled = hold[h].filled
                       /\ hold[h].cancelled => x.cancelled
  <2>1. hold[h] \in Row
    BY DEF TypeOK
  <2>2. CASE Cancel(h)
    <3> DEFINE x == [hold[h] EXCEPT !.cancelled = TRUE]
    <3>1. hold' = [hold EXCEPT ![h] = x]
      BY <2>2 DEF Cancel
    <3>2. /\ x \in Row /\ x.current = hold[h].current /\ x.captured = hold[h].captured
          /\ x.filled = hold[h].filled /\ x.cancelled
      BY <2>1 DEF Row
    <3> QED  BY <3>1, <3>2
  <2>3. CASE Expire(h)
    <3> DEFINE x == [hold[h] EXCEPT !.expired = TRUE]
    <3>1. hold' = [hold EXCEPT ![h] = x]
      BY <2>3 DEF Expire
    <3>2. /\ x \in Row /\ x.current = hold[h].current /\ x.captured = hold[h].captured
          /\ x.filled = hold[h].filled /\ x.cancelled = hold[h].cancelled
      BY <2>1 DEF Row
    <3> QED  BY <3>1, <3>2
  <2> QED  BY <2>2, <2>3
<1>4. /\ hold' \in [Holds -> Row] /\ now' \in 0..MaxCaptures /\ now <= now'
      /\ \A g \in Holds : hold[g].cancelled => hold'[g].cancelled
      /\ \A g \in Holds : hold'[g].current \in {hold[g].current, NoCopy}
      /\ \A g \in Holds : OnShelf(g)' => OnShelf(g) /\ hold'[g].current = hold[g].current
      /\ RowsInv'
  BY <1>1, <1>3, RowChanges
<1>5. \A g \in Holds : g # h => hold'[g] = hold[g]
  BY <1>3 DEF TypeOK
<1>6. LentIsOut' /\ WaitingIsThere'
  BY <1>1, <1>2, <1>4 DEF LentIsOut, WaitingIsThere
<1>7. PickedUpStays' /\ lent' \subseteq Copies /\ taken' \subseteq Holds
  <2>1. DesksPause => h \notin taken
    BY <1>1 DEF Waits, PickedUpStays
  <2> QED  BY <1>1, <1>2, <1>5, <2>1 DEF PickedUpStays, TypeOK
<1> QED  BY <1>1, <1>4, <1>6, <1>7, DeskKeeps DEF TypeOK

-----------------------------------------------------------------------------
(* The theorems.                                                           *)

\* A hold that was captured once, or never.
LEMMA FirstRow ==
    ASSUME NEW c \in Copies \cup {NoCopy}, NEW k \in {0, 1}, NEW e \in BOOLEAN, NEW row,
           row = [current |-> c, captured |-> k, expired |-> e,
                  cancelled |-> FALSE, filled |-> FALSE]
    PROVE  /\ row \in Row /\ row.current = c /\ row.captured = k
           /\ ~row.cancelled /\ ~row.filled
<1>1. k \in 0..MaxCaptures
  BY ShelfAssumption
<1> QED  BY <1>1 DEF Row

\* A library in which each copy on the shelf is there for one hold.
LEMMA ShelfInit == Init => ShelfIInv
<1> SUFFICES ASSUME Init PROVE ShelfIInv
  OBVIOUS
<1> USE DEF Init
<1>1. ASSUME NEW h \in Holds
      PROVE  /\ hold[h] \in Row
             /\ ~hold[h].cancelled /\ ~hold[h].filled
             /\ hold[h].captured \in {0, 1}
             /\ hold[h].captured = 0 => hold[h].current = NoCopy
             /\ hold[h].captured = 1 => /\ hold[h].current \in Copies
                                        /\ Shelved[hold[h].current] = h
  <2> DEFINE cs == {c \in Copies : Shelved[c] = h}
  <2>1. hold[h] = [current |-> IF cs = {} THEN NoCopy ELSE CHOOSE c \in cs : TRUE,
                   captured |-> IF cs = {} THEN 0 ELSE 1, expired |-> cs # {},
                   cancelled |-> FALSE, filled |-> FALSE]
    BY DEF First
  <2>2. cs # {} => (CHOOSE c \in cs : TRUE) \in cs
    OBVIOUS
  <2>3. CASE cs = {}
    <3>1. hold[h] = [current |-> NoCopy, captured |-> 0, expired |-> FALSE,
                     cancelled |-> FALSE, filled |-> FALSE]
      BY <2>1, <2>3
    <3> HIDE DEF Init
    <3>2. /\ hold[h] \in Row /\ hold[h].current = NoCopy /\ hold[h].captured = 0
          /\ ~hold[h].cancelled /\ ~hold[h].filled
      BY <3>1, FirstRow
    <3> QED  BY <3>2
  <2>4. CASE cs # {}
    <3> DEFINE c == CHOOSE c \in cs : TRUE
    <3>1. c \in Copies /\ Shelved[c] = h
      BY <2>2, <2>4
    <3>2. hold[h] = [current |-> c, captured |-> 1, expired |-> TRUE,
                     cancelled |-> FALSE, filled |-> FALSE]
      BY <2>1, <2>4
    <3> HIDE DEF c, Init
    <3>3. /\ hold[h] \in Row /\ hold[h].current = c /\ hold[h].captured = 1
          /\ ~hold[h].cancelled /\ ~hold[h].filled
      BY ZenonT(30), <3>1, <3>2, FirstRow
    <3> QED  BY <3>1, <3>3
  <2> QED  BY <2>3, <2>4
<1>2. NoHold \notin Holds /\ NoCopy \notin Copies /\ now \in 0..MaxCaptures
  BY ShelfAssumption
<1>3. \A w \in Clearers : work[w] = Idle
  OBVIOUS
<1>4. \A w \in Clearers : WorksWell(w)
  BY <1>3, IdleFields DEF WorksWell, Typed, HasRows, ReadsWell, MeansWell, Means, CountsWell, Status
<1>5. TypeOK
  <2>1. hold \in [Holds -> Row]
    BY <1>1
  <2> QED  BY <1>2, <1>4, <2>1 DEF TypeOK, WorksWell, Typed, Status
<1>6. LentIsOut /\ PickedUpStays /\ ToldOnce
  BY DEF LentIsOut, PickedUpStays, ToldOnce
<1>7. WaitingIsThere
  BY <1>1, <1>2 DEF WaitingIsThere, OnShelf
<1>8. RowsInv
  BY <1>1, <1>2 DEF RowsInv, Sound, OnShelf
<1>9. ClearingInv
  BY <1>3, <1>4, IdleFields DEF ClearingInv, WorksWell, Clearing
<1> QED  BY <1>5, <1>6, <1>7, <1>8, <1>9 DEF ShelfIInv, ShelfInv

\* Every step keeps the invariant.
LEMMA ShelfStep == ShelfIInv /\ [Next]_vars => ShelfIInv'
<1> SUFFICES ASSUME ShelfIInv, [Next]_vars PROVE ShelfIInv'
  OBVIOUS
<1>1. CASE UNCHANGED vars
  <2>1. UNCHANGED <<scene, hold, copy, lent, work, now, told, taken>>
    BY <1>1 DEF vars
  <2>2. /\ now \in Nat /\ now' \in 0..MaxCaptures /\ copy' \in [Copies -> Status]
        /\ hold' \in [Holds -> Row] /\ lent' \subseteq Copies /\ taken' \subseteq Holds
    BY <2>1, ShelfAssumption DEF ShelfIInv, ShelfInv, TypeOK
  <2>3. LentIsOut' /\ WaitingIsThere' /\ PickedUpStays'
    BY <2>1 DEF ShelfIInv, ShelfInv, LentIsOut, WaitingIsThere, PickedUpStays, DesksPause,
                Overlap, OnShelf, Waits
  <2>4. RowsInv'
    BY <2>1 DEF ShelfIInv, RowsInv, Sound, DesksPause, Overlap, OnShelf, Waits
  <2>5. \A h \in Holds : OnShelf(h)' => OnShelf(h)
    BY <2>1 DEF OnShelf, Waits
  <2> QED  BY <2>1, <2>2, <2>3, <2>4, <2>5, DeskKeeps
<1>2. CASE Next
  <2>1. UNCHANGED scene
    BY <1>2 DEF Next
  <2>2. ASSUME NEW w \in Clearers, ListSome(w) PROVE ShelfIInv'
    <3>1. ASSUME NEW c \in Copies PROVE {c} \in SUBSET Copies
      OBVIOUS
    <3> QED  BY <2>1, <2>2, <3>1, ListKeeps DEF ListSome
  <2>3. ASSUME NEW w \in Clearers, Deadlock(w) PROVE ShelfIInv'
    BY <2>1, <2>3, IdleKeeps DEF Deadlock, Rows
  <2>4. ASSUME NEW w \in Clearers, ClearStep(w) PROVE ShelfIInv'
    BY <2>1, <2>3, <2>4, FetchKeeps, WriteHoldKeeps, WriteCopyKeeps, CommitKeeps DEF ClearStep
  <2>5. ASSUME DeskStep PROVE ShelfIInv'
    BY <2>1, <2>5, CheckinKeeps, CheckoutKeeps, ResetKeeps, CancelKeeps DEF DeskStep
  <2> QED  BY <1>2, <2>2, <2>4, <2>5 DEF Next
<1> QED  BY <1>1, <1>2

\* What a clearing means to write is in no patron's hands: ShelfIInv is inductive.
THEOREM ShelfInductive == Spec => []ShelfIInv
<1> QED  BY ShelfInit, ShelfStep, PTL DEF Spec

\* While the desks neither lend nor return, what is lent shows as lent, what
\* waits on the shelf shows as there, and what was picked up stays so.
THEOREM ShelfAgrees == Spec => []ShelfInv
<1>1. ShelfIInv => ShelfInv
  BY DEF ShelfIInv
<1> QED  BY <1>1, ShelfInductive, PTL

\* While the shelf is cleared by one process at a time, no patron is told twice
\* that a hold has expired on it.
THEOREM PatronToldOnce == Spec => []ToldOnce
<1>1. ShelfIInv => ToldOnce
  BY DEF ShelfIInv
<1> QED  BY <1>1, ShelfInductive, PTL
=============================================================================
