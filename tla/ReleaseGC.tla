---------------------------- MODULE ReleaseGC ----------------------------
(***************************************************************************)
(* The rows of one stack in stack_releases beside the worker that prunes   *)
(* them (pkg/worker/releasegc, pkg/stores/pgstore/stack_release.go).       *)
(*                                                                         *)
(* The worker reads the settings of the stack, then the terminal releases, *)
(* and then deletes by id, with nothing locked in between: releases are    *)
(* created and end, and the settings change, between any two of its steps. *)
(* A row's id is never given again; its sequence is MAX(sequence) + 1 over *)
(* the rows there are at that moment.                                      *)
(***************************************************************************)
EXTENDS Naturals, FiniteSets

CONSTANTS
  MaxReleases,  \* bound on the rows ever created
  Settings      \* the values the stack's settings take

ASSUME MaxReleasesAssumption == MaxReleases \in Nat \ {0}

\* release_retention_limit and min_successful_releases, or their defaults.
ASSUME SettingsAssumption ==
  Settings \subseteq [limit : Nat \ {0}, minSuccessful : Nat \ {0}]

Ids == 1 .. MaxReleases

VARIABLES
  rows,      \* rows of stack_releases
  created,   \* how many were ever created
  settings,  \* settings of the stack
  gc         \* the execution of the worker and what it has read

vars == <<rows, created, settings, gc>>

\* "Unsuccessful" stands for Failed, Superseded and Cancelled.
Terminal == {"Released", "Unsuccessful"}
Rows == [id : Ids, seq : Ids, state : Terminal \cup {"Active"}]

TypeOK ==
  /\ rows \in SUBSET Rows
  /\ created \in Ids \cup {0}
  /\ settings \in Settings
  /\ gc \in [pc : {"idle", "list", "delete"}, settings : Settings, doomed : SUBSET Ids]

Init ==
  /\ rows = {}
  /\ created = 0
  /\ settings \in Settings
  /\ gc = [pc |-> "idle", settings |-> settings, doomed |-> {}]

-----------------------------------------------------------------------------
(***************************************************************************)
(* What is kept of a set c of releases.                                    *)
(***************************************************************************)
Newer(c, s) == {t \in c : t.seq > s.seq}

Released(c) == {s \in c : s.state = "Released"}

\* Seeded fault: any terminal release counts as a successful one.
SuccessfulAny(c, cfg) == {s \in c : Cardinality(Newer(c, s)) < cfg.minSuccessful}

\* The most recent Released releases, unconditionally.
Successful(c, cfg) ==
  {s \in Released(c) : Cardinality(Newer(Released(c), s)) < cfg.minSuccessful}

\* Seeded fault: the filling goes one release too far.
KeepOneMore(c, cfg) ==
  LET kept == Successful(c, cfg)
  IN  kept \cup {s \in c : Cardinality(kept \cup Newer(c, s)) <= cfg.limit}

\* Seeded fault: nothing but the successful releases is kept.
KeepSuccessfulOnly(c, cfg) == Successful(c, cfg)

\* Then the most recent ones of any state, as long as fewer than the limit are
\* kept: by the time the loop is at s it has kept all that are newer.
Keep(c, cfg) ==
  LET kept == Successful(c, cfg)
  IN  kept \cup {s \in c : Cardinality(kept \cup Newer(c, s)) < cfg.limit}

releaseIDsToGC(c, cfg) == {s.id : s \in c \ Keep(c, cfg)}

\* The loops of the code: over the candidates, the most recent one first ...
bySeqDesc(c) ==
  CHOOSE d \in [1 .. Cardinality(c) -> c] :
    \A i, j \in 1 .. Cardinality(c) : i < j => d[i].seq > d[j].seq

\* ... each loop adds the ones it looks for to what is kept already, until there are
\* as many as it may keep.
Fill(d, n, wanted, bound, keep) ==
  LET kept[i \in 0 .. n] ==
        IF i = 0 THEN keep
          ELSE IF d[i] \in wanted /\ Cardinality(kept[i - 1]) < bound
            THEN kept[i - 1] \cup {d[i]}
            ELSE kept[i - 1]
  IN  kept[n]

LoopKeep(c, cfg) ==
  LET d == bySeqDesc(c)
      n == Cardinality(c)
  IN  Fill(d, n, c, cfg.limit, Fill(d, n, Released(c), cfg.minSuccessful, {}))

-----------------------------------------------------------------------------
\* MAX(sequence) + 1, of the rows there are, and 1 if there is none.
NextSequence == 1 + Cardinality({n \in Ids : \E s \in rows : s.seq >= n})

Create ==
  /\ created < MaxReleases
  /\ created' = created + 1
  /\ rows' = rows \cup {[id |-> created', seq |-> NextSequence, state |-> "Active"]}
  /\ UNCHANGED <<settings, gc>>

End(s, state) ==
  /\ s.state = "Active"
  /\ rows' = (rows \ {s}) \cup {[s EXCEPT !.state = state]}
  /\ UNCHANGED <<created, settings, gc>>

UpdateSettings(cfg) ==
  /\ settings' = cfg
  /\ UNCHANGED <<rows, created, gc>>

\* The worker: a request may be taken up at any time.  One is enqueued whenever an
\* execution of the release worker ends with its release terminal, to be taken up
\* later, and every hour one for each stack with many terminal releases.
GCLoad ==
  /\ gc.pc = "idle"
  /\ gc' = [gc EXCEPT !.pc = "list", !.settings = settings]
  /\ UNCHANGED <<rows, created, settings>>

\* Seeded fault: releases in flight are candidates too.
GCListAll ==
  /\ gc.pc = "list"
  /\ LET doomed == releaseIDsToGC(rows, gc.settings)
     IN  gc' = [gc EXCEPT !.pc = IF doomed = {} THEN "idle" ELSE "delete", !.doomed = doomed]
  /\ UNCHANGED <<rows, created, settings>>

\* ListTerminalSummariesByStackID: a release in flight is never a candidate.
GCList ==
  /\ gc.pc = "list"
  /\ LET doomed == releaseIDsToGC({s \in rows : s.state \in Terminal}, gc.settings)
     IN  gc' = [gc EXCEPT !.pc = IF doomed = {} THEN "idle" ELSE "delete", !.doomed = doomed]
  /\ UNCHANGED <<rows, created, settings>>

\* DeleteByIDs.
GCDelete ==
  /\ gc.pc = "delete"
  /\ rows' = {s \in rows : s.id \notin gc.doomed}
  /\ gc' = [gc EXCEPT !.pc = "idle", !.doomed = {}]
  /\ UNCHANGED <<created, settings>>

GCAbort ==
  /\ gc.pc # "idle"
  /\ gc' = [gc EXCEPT !.pc = "idle", !.doomed = {}]
  /\ UNCHANGED <<rows, created, settings>>

Next ==
  \/ Create
  \/ \E s \in rows, state \in Terminal : End(s, state)
  \/ \E cfg \in Settings : UpdateSettings(cfg)
  \/ GCLoad \/ GCList \/ GCDelete \/ GCAbort

Spec == Init /\ [][Next]_vars

-----------------------------------------------------------------------------
(***************************************************************************)
(* Properties.                                                             *)
(***************************************************************************)
Gone == {s \in rows : \A t \in rows' : t.id # s.id}

\* The validator accepts settings that keep fewer releases than successful ones: it
\* only knows maxima. With as many as there are rows, all are kept.
AnySettings == [limit : 1 .. MaxReleases, minSuccessful : 1 .. MaxReleases]

\* What is kept is what the loops of the code keep, for every history of releases
\* and every settings.
KeepIsTheLoop ==
  LET c == {s \in rows : s.state \in Terminal}
  IN  TypeOK /\ \A cfg \in AnySettings : Keep(c, cfg) = LoopKeep(c, cfg)

\* Only terminal releases are ever deleted, and of the Released ones, to which
\* the stack can be rolled back, only those that as many newer ones make up for
\* as the settings the worker had read ask for: also when releases end, and
\* settings change, between its query and its delete.
RollbackTargetsKept ==
  [][\A s \in Gone :
       /\ s.state \in Terminal
       /\ s.state = "Released" =>
            Cardinality(Newer(Released(rows), s)) >= gc.settings.minSuccessful]_rows

\* docs/concepts/releases.mdx: "History moves forward, never backwards: the
\* rollback gets a new sequence number".  As long as the settings the worker had
\* read keep more releases than successful ones, the highest sequence never gets
\* lower, so that none is given twice; and the sequence of a Released release is
\* not given again whatever the settings are.
HistoryMovesForward ==
  [][\A s \in Gone :
       gc.settings.limit > gc.settings.minSuccessful \/ s.state = "Released" =>
         \E t \in rows' : t.seq > s.seq]_rows

\* Not so: that it holds of every release and all settings.  With settings that keep
\* no more releases than successful ones, which the validator accepts, the most recent
\* release goes if it was not successful, and the next one gets its sequence.
HistoryNeverMovesBack == [][\A s \in Gone : \E t \in rows' : t.seq > s.seq]_rows

=============================================================================
