-------------------------------- MODULE Seeding --------------------------------
(***************************************************************************)
(* The demonstration catalogue (demo_catalog_service).  An instance that   *)
(* starts creates the cards of a package, all in one transaction, while    *)
(* their pictures are files and its progress is a journal, a file too.     *)
(* The transaction may fail, its commit may look like a failure, and the   *)
(* instance may stop anywhere; another one may start meanwhile.  A card    *)
(* and the row and files of the picture it is created with go by one       *)
(* identifier here; administrators show that picture on no other card.     *)
(***************************************************************************)
EXTENDS Naturals, Sequences, FiniteSets

CONSTANTS
    Instances,
    NoInstance,     \* holds the advisory lock when it is free
    Entries,        \* keys of the package
    Pets,           \* those whose kind is "pet"
    Package,        \* the package: the keys in their order
    Ids,            \* identifiers, each chosen once
    NoId

ASSUME SeedingAssumption ==
    /\ NoInstance \notin Instances
    /\ NoId \notin Ids \cup Entries
    /\ Pets \subseteq Entries
    /\ Package \in Seq(Entries)
    /\ \A e \in Entries : \E n \in 1 .. Len(Package) : Package[n] = e
    /\ \A m, n \in 1 .. Len(Package) : Package[m] = Package[n] => m = n   \* load_package

VARIABLES
    note,           \* media.source_note: the entry of every identifier chosen
    rows,           \* committed rows of media; cleanup marks, but never removes one
    cards,          \* committed cards
    shown,          \* those that show the picture they were created with
    changed,        \* those whose picture administrators have ever taken away
    files,          \* pictures in the media directory
    journal,        \* the file of SeedState
    lock,           \* pg_advisory_xact_lock
    pc,             \* what each instance does
    state,          \* its SeedState in memory
    next,           \* its place in the package
    created         \* created_media, not yet committed

cardVars == <<cards, shown, changed>>
dbVars == <<rows, cardVars, note>>
runVars == <<pc, state, next, created>>
vars == <<dbVars, files, journal, lock, runVars>>

-----------------------------------------------------------------------------
\* A new SeedState.
Nothing == [completed |-> FALSE, entries |-> [e \in Entries |-> NoId], pending |-> {}]

Init ==
    /\ note = [i \in Ids |-> NoId]
    /\ rows = {} /\ cards = {} /\ shown = {} /\ changed = {} /\ files = {}
    /\ journal = Nothing
    /\ lock = NoInstance
    /\ pc = [p \in Instances |-> "off"]
    /\ state = [p \in Instances |-> Nothing]
    /\ next = [p \in Instances |-> 1]
    /\ created = [p \in Instances |-> {}]

Entry(p) == Package[next[p]]
Loading(p) == pc[p] = "loading" /\ next[p] <= Len(Package)

\* Mutant: recovery is left to the journal.
NothingRecovered(e) == {}

\* Cards that earlier runs have left: the join of catalog_images and media, which
\* misses a card without its picture.
Recovered(e) == {i \in shown : note[i] = e}

Unlocked(p) == IF lock = p THEN NoInstance ELSE lock

\* What a process had in memory ends with it.
Forgotten(p) == /\ pc' = [pc EXCEPT ![p] = "off"]
                /\ state' = [state EXCEPT ![p] = Nothing]
                /\ next' = [next EXCEPT ![p] = 1]
                /\ created' = [created EXCEPT ![p] = {}]

-----------------------------------------------------------------------------
Start(p) ==
    /\ pc[p] = "off"
    /\ pc' = [pc EXCEPT ![p] = "waiting"]
    /\ UNCHANGED <<dbVars, files, journal, lock, state, next, created>>

\* Mutant: whatever the journal lists as pending is removed.
AllPending(pending) == pending

\* Pending pictures whose row was rolled back.
RolledBack(pending) == pending \ rows

\* The journal is read under the lock, and files it left behind are removed.
TakeLock(p) ==
    /\ pc[p] = "waiting"
    /\ lock = NoInstance
    /\ files' = files \ RolledBack(journal.pending)
    /\ state' = [state EXCEPT ![p] = [journal EXCEPT !.pending = {}]]
    /\ next' = [next EXCEPT ![p] = 1]
    /\ created' = [created EXCEPT ![p] = {}]
    /\ IF journal.completed
       THEN pc' = [pc EXCEPT ![p] = "serving"] /\ UNCHANGED lock
       ELSE pc' = [pc EXCEPT ![p] = "loading"] /\ lock' = p
    /\ UNCHANGED <<dbVars, journal>>

\* Mutant: an entry the journal names is taken for created.
TrustJournal(p) ==
    /\ Loading(p)
    /\ state[p].entries[Entry(p)] # NoId
    /\ next' = [next EXCEPT ![p] = @ + 1]
    /\ UNCHANGED <<dbVars, files, journal, lock, pc, state, created>>

Recover(p) ==
    /\ Loading(p)
    /\ \E i \in Recovered(Entry(p)) :
          state' = [state EXCEPT ![p].entries[Entry(p)] = i]
    /\ next' = [next EXCEPT ![p] = @ + 1]
    /\ UNCHANGED <<dbVars, files, journal, lock, pc, created>>

\* MediaService.upload in this transaction: the files, and a row for later.
Upload(p, i) ==
    /\ Loading(p)
    /\ Recovered(Entry(p)) = {}
    /\ note[i] = NoId
    /\ note' = [note EXCEPT ![i] = Entry(p)]
    /\ files' = files \cup {i}
    /\ created' = [created EXCEPT ![p] = @ \cup {i}]
    /\ pc' = [pc EXCEPT ![p] = "uploaded"]
    /\ UNCHANGED <<rows, cardVars, journal, lock, state, next>>

\* The journal learns of the picture; then the card is saved and published.
CreateCard(p) ==
    /\ pc[p] = "uploaded"
    /\ \E i \in created[p] \ state[p].pending :
          LET known == [state[p] EXCEPT !.pending = @ \cup {i}]
          IN /\ journal' = known
             /\ state' = [state EXCEPT ![p] = [known EXCEPT !.entries[Entry(p)] = i]]
    /\ next' = [next EXCEPT ![p] = @ + 1]
    /\ pc' = [pc EXCEPT ![p] = "loading"]
    /\ UNCHANGED <<dbVars, files, lock, created>>

\* The transaction ends.  A lost answer looks like a failure to the instance.
Commit(p) ==
    /\ pc[p] = "loading" /\ next[p] > Len(Package)
    /\ rows' = rows \cup created[p]
    /\ cards' = cards \cup created[p]
    /\ shown' = shown \cup created[p]
    /\ lock' = Unlocked(p)
    /\ pc' \in {[pc EXCEPT ![p] = step] : step \in {"committed", "failed"}}
    /\ UNCHANGED <<note, changed, files, journal, state, next, created>>

\* completed is written outside of the lock.
Finish(p) ==
    /\ pc[p] = "committed"
    /\ journal' = [state[p] EXCEPT !.completed = TRUE, !.pending = {}]
    /\ pc' = [pc EXCEPT ![p] = "serving"]
    /\ UNCHANGED <<dbVars, files, lock, state, next, created>>

\* Any error: an inactive category, a lost connection, a journal not written.
Fail(p) ==
    /\ pc[p] \in {"loading", "uploaded", "committed"}
    /\ pc' = [pc EXCEPT ![p] = "failed"]
    /\ lock' = Unlocked(p)
    /\ UNCHANGED <<dbVars, files, journal, state, next, created>>

\* except: files of this run without a row are removed, and the start fails.
CleanUp(p) ==
    /\ pc[p] = "failed"
    /\ files' = files \ RolledBack(created[p])
    /\ Forgotten(p)
    /\ UNCHANGED <<dbVars, journal, lock>>

\* The process ends, while it starts or while it serves.
Stop(p) ==
    /\ pc[p] # "off"
    /\ lock' = Unlocked(p)
    /\ Forgotten(p)
    /\ UNCHANGED <<dbVars, files, journal>>

\* Administrators of a running shop replace the pictures of a card, perhaps to put an
\* earlier one back.
TakePicture(p, i) ==
    /\ pc[p] = "serving"
    /\ i \in shown
    /\ shown' = shown \ {i}
    /\ changed' = changed \cup {i}
    /\ UNCHANGED <<note, rows, cards, files, journal, lock, runVars>>

PutPicture(p, i) ==
    /\ pc[p] = "serving"
    /\ i \in cards \ shown
    /\ shown' = shown \cup {i}
    /\ UNCHANGED <<note, rows, cards, changed, files, journal, lock, runVars>>

\* They delete pets that nobody has ordered; a product stays.
DeletePet(p, i) ==
    /\ pc[p] = "serving"
    /\ i \in cards
    /\ note[i] \in Pets
    /\ cards' = cards \ {i}
    /\ shown' = shown \ {i}
    /\ UNCHANGED <<note, rows, changed, files, journal, lock, runVars>>

Edit(p, i) == TakePicture(p, i) \/ PutPicture(p, i) \/ DeletePet(p, i)

Next ==
    \E p \in Instances :
        \/ Start(p) \/ TakeLock(p) \/ Recover(p) \/ CreateCard(p) \/ Commit(p)
        \/ Finish(p) \/ Fail(p) \/ CleanUp(p) \/ Stop(p)
        \/ \E i \in Ids : Upload(p, i) \/ Edit(p, i)

Spec == Init /\ [][Next]_vars

-----------------------------------------------------------------------------
(* Properties *)

\* However often starts fail, stop, or run side by side, the catalogue never has two
\* cards for one entry of the package, but for cards whose picture an administrator
\* took away while another instance was still starting: that one creates the card anew.
SeededOnce == \A i, j \in cards \ changed : note[i] = note[j] => i = j

\* No cleanup of a failed start, its own or that of a later one, takes the picture of
\* a card that exists, or of one that a running transaction is about to create.
CardsKeepTheirFiles ==
    /\ rows \subseteq files
    /\ \A p \in Instances : lock = p => created[p] \subseteq files

\* A journal that says "completed" names, for every entry, a card that was committed;
\* entries of runs that were rolled back are gone from it.
CompletedIsWhole ==
    journal.completed => \A e \in Entries : /\ journal.entries[e] \in rows
                                            /\ note[journal.entries[e]] = e

=============================================================================
