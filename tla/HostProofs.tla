----------------------------- MODULE HostProofs -----------------------------
(***************************************************************************)
(* What holds of run_match around its loop for every set of territories,   *)
(* every manifest, any number of accidents and any budget.  The inductive  *)
(* invariant says, of one territory, how far its adapter, its session and  *)
(* its files have come together (Sound), what the verification under way   *)
(* there has asked for (CheckSound), and, of the run, what each phase      *)
(* leaves behind (PhaseOK).  Contract's validation of the manifest is      *)
(* right for every graph of milestones (SearchIsRight, ContractIsRight).   *)
(***************************************************************************)
EXTENDS Host, NaturalsInduction, WellFoundedInduction, FunctionTheorems,
        FiniteSetTheorems, TLAPS

GuestStates == {"off", "failed", "up", "going", "down", "lost"}
Alive == {"up", "going", "down"}

Result == [status : Statuses, cost : Nat]
Events == [spent : Nat, outcome : {"open", "completed"} \union Failures]

AdapterStates == {"none", "setup", "polling", "awaiting", "answered", "forsaken",
                  "closing", "ended", "killed"}

SeatRecord ==
    [ harness : {None} \union {AdapterOf(t) : t \in Ids},
      adapter : AdapterStates,
      session : {"none", "live"} \union Exits,
      cut : BOOLEAN, children : BOOLEAN, marker : BOOLEAN,
      stream : Events, copy : Events,
      file : {None} \union Result,
      run : {"none", "waiting", "expired", "reported", "dropped"},
      report : {None} \union Result ]

CheckRecord ==
    [ step : {"idle", "marked", "stopping", "starting", "verifying"},
      milestone : {None} \union Names, attempt : Nat, booted : BOOLEAN,
      evidence : SUBSET Names, passed : SUBSET Names ]

Before == {"load", "boot", "ready", "audit"}
Phases == Before \union {"match", "drain", "teardown", "exited"}

TypeOK ==
    /\ guest \in [Ids -> GuestStates]
    /\ seat \in [Ids -> SeatRecord]
    /\ check \in [Ids -> CheckRecord]
    /\ phase \in Phases

(* A status that may be given to the seat s of t: what RebootIsNotBlamed   *)
(* asks of a report, already of the file that it is made of.               *)
Blameless(t, s, status, accidents) ==
    /\ s.cut =>
         \/ status \in {"interrupted", "timed_out", "budget_exceeded", s.copy.outcome}
         \/ status = "harness_error" /\ <<"adapter", t>> \in accidents
         \/ s.harness = "claux" /\ (status = "harness_error" \/ s.session = "terminated")
    /\ s.session = "lost" /\ status = "interrupted" =>
         s.marker \/ s.copy.outcome = "interrupted"

(* How far the seat s of a territory t has come, its guest being g.  A     *)
(* session that the referee's reboot has cut was marked first, so that its *)
(* adapter waits; a session with a result is not one of its adapter's      *)
(* children any more, so that nothing more happens to it; and a timeout    *)
(* looks at the result of an adapter that writes no more.                  *)
Sound(t, s, g, accidents) ==
    /\ s.adapter = "none" <=> s.run = "none"
    /\ s.adapter \in {"none", "setup"} => s.session = "none"
    /\ s.adapter \in {"awaiting", "answered", "forsaken"} => s.session = "lost" /\ s.marker
    /\ s.adapter = "closing" => s.session \in Exits
    /\ s.cut => s.marker /\ s.session \in {"lost", "terminated"}
    /\ s.cut /\ s.session = "lost" => s.adapter # "closing"
    /\ g = "going" => s.marker
    /\ s.run = "expired" => s.adapter = "killed"
    /\ s.run \in {"reported", "dropped"} => s.adapter \in {"ended", "killed"}
    /\ s.children => s.run \in {"waiting", "expired"}
    /\ s.file # None => /\ s.adapter \in {"ended", "killed"} /\ ~s.children
                        /\ Blameless(t, s, s.file.status, accidents)
    /\ s.adapter = "ended" /\ s.file = None =>
         <<"adapter", t>> \in accidents \/ (~s.cut /\ ~s.children)
    /\ s.run = "reported" =>
         /\ Blameless(t, s, s.report.status, accidents)
         /\ s.file # None => s.report.cost = s.file.cost

(* The verification c in a territory has a milestone, and its reboot is    *)
(* marked before it is asked for.                                          *)
CheckSound(c, s) ==
    /\ c.step # "idle" => c.milestone \in Names
    /\ c.step = "marked" => s.marker

(* What each phase leaves behind.                                          *)
PhaseOK ==
    /\ phase = "load" => \A t \in Ids : guest[t] = "off"
    /\ phase \in Before => \A t \in Ids : seat[t].run = "none"
    /\ phase # "match" => \A t \in Ids : check[t].step = "idle"
    /\ phase \in {"teardown", "exited"} =>
         \A t \in Ids : seat[t].children => error = "match"
    /\ phase = "exited" =>
         \A t \in Ids : guest[t] \in Alive => t \in stuck /\ error # None
    /\ phase \in {"boot", "ready", "audit", "match"} => Errors(manifest) = {}

AuditOK ==
    /\ leak \subseteq Forbidden /\ audited \intersect leak = {}
    /\ phase = "match" => leak = {}
    /\ \A t \in Ids : seat[t].run # "none" => leak = {}

IInv ==
    /\ TypeOK /\ PhaseOK /\ AuditOK
    /\ \A t \in Ids : Sound(t, seat[t], guest[t], faults)
    /\ \A t \in Ids : CheckSound(check[t], seat[t])

-----------------------------------------------------------------------------
(* While the arena stands, so does everything that is read off it. *)
LEMMA ArenaKept ==
  ASSUME manifest' = manifest
  PROVE  /\ Milestones' = Milestones /\ Names' = Names /\ Forbidden' = Forbidden
         /\ SeatRecord' = SeatRecord /\ CheckRecord' = CheckRecord
         /\ Errors(manifest)' = Errors(manifest)
<1>1. Milestones' = Milestones /\ Names' = Names /\ Forbidden' = Forbidden
  BY DEF Milestones, Names, Forbidden
<1>2. SeatRecord' = SeatRecord
  BY DEF SeatRecord, AdapterOf
<1> QED
  BY <1>1, <1>2 DEF CheckRecord

(* What the invariant says of one territory. *)
LEMMA OfOne ==
  ASSUME IInv, NEW t \in Ids
  PROVE  /\ seat[t] \in SeatRecord /\ guest[t] \in GuestStates /\ check[t] \in CheckRecord
         /\ Sound(t, seat[t], guest[t], faults)
         /\ CheckSound(check[t], seat[t])
         /\ check[t].step # "idle" => phase = "match"
BY DEF IInv, TypeOK, PhaseOK

(* More accidents excuse no less. *)
LEMMA FaultsGrow ==
  ASSUME NEW t, NEW s, NEW g, NEW some, NEW more, some \subseteq more,
         Sound(t, s, g, some)
  PROVE  Sound(t, s, g, more)
<1>1. \A status : Blameless(t, s, status, some) => Blameless(t, s, status, more)
  BY DEF Blameless
<1> QED
  BY <1>1 DEF Sound

(* A step of one territory, its seat, its guest and its verification, that *)
(* leaves what is sound there, starts nothing out of the match and revives *)
(* no guest.                                                               *)
SoundStep(t) ==
    /\ seat' \in [Ids -> SeatRecord] /\ guest' \in [Ids -> GuestStates]
    /\ check' \in [Ids -> CheckRecord]
    /\ \A u \in Ids \ {t} :
         seat'[u] = seat[u] /\ guest'[u] = guest[u] /\ check'[u] = check[u]
    /\ faults \subseteq faults'
    /\ Sound(t, seat'[t], guest'[t], faults')
    /\ CheckSound(check'[t], seat'[t])
    /\ check'[t].step # "idle" => phase = "match"
    /\ seat'[t].children => seat[t].children \/ phase = "match"
    /\ seat'[t].run # "none" => seat[t].run # "none" \/ phase = "match"
    /\ guest'[t] = guest[t] \/ guest[t] \in Alive

(* Such a step keeps the invariant. *)
LEMMA OneTerritory ==
  ASSUME IInv, NEW t \in Ids, UNCHANGED match, SoundStep(t)
  PROVE  IInv'
<1>1. UNCHANGED <<manifest, leak, audited, phase, error, stuck>>
  BY DEF arena, match
<1>2. TypeOK'
  BY <1>1, ArenaKept DEF IInv, TypeOK, SoundStep
<1>3. PhaseOK'
  BY <1>1, ArenaKept DEF IInv, TypeOK, PhaseOK, SoundStep, Before, Alive
<1>4. AuditOK'
  BY <1>1, ArenaKept DEF IInv, TypeOK, AuditOK, SoundStep
<1>5. ASSUME NEW u \in Ids PROVE Sound(u, seat'[u], guest'[u], faults')
  <2>1. CASE u = t
    BY <2>1 DEF SoundStep
  <2>2. CASE u # t
    BY <2>2, FaultsGrow DEF IInv, SoundStep
  <2> QED
    BY <2>1, <2>2
<1>6. ASSUME NEW u \in Ids PROVE CheckSound(check[u], seat[u])'
  <2>1. CASE u = t
    BY <2>1, <1>1, ArenaKept DEF CheckSound, SoundStep
  <2>2. CASE u # t
    BY <2>2, <1>1, ArenaKept DEF IInv, CheckSound, SoundStep
  <2> QED
    BY <2>1, <2>2
<1> QED
  BY <1>2, <1>3, <1>4, <1>5, <1>6 DEF IInv

(* A step of a seat alone. *)
LEMMA OneSeat ==
  ASSUME IInv, NEW t \in Ids, NEW s \in SeatRecord,
         Update(t, s), UNCHANGED <<guest, match, check>>,
         faults \subseteq faults',
         Sound(t, s, guest[t], faults'),
         seat[t].marker => s.marker,
         s.children => seat[t].children \/ phase = "match",
         s.run # "none" => seat[t].run # "none" \/ phase = "match"
  PROVE  IInv'
<1>1. /\ seat \in [Ids -> SeatRecord] /\ guest \in [Ids -> GuestStates]
      /\ check \in [Ids -> CheckRecord]
  BY DEF IInv, TypeOK
<1>2. /\ seat' \in [Ids -> SeatRecord] /\ seat'[t] = s
      /\ \A u \in Ids \ {t} : seat'[u] = seat[u]
  BY <1>1 DEF Update
<1>3. CheckSound(check'[t], seat'[t])
  BY <1>2, OfOne DEF CheckSound
<1>4. check[t].step # "idle" => phase = "match"
  BY OfOne
<1>5. SoundStep(t)
  BY <1>1, <1>2, <1>3, <1>4 DEF SoundStep
<1> QED
  BY <1>5, OneTerritory DEF match

(* The same of a seat that has been spawned, and keeps its marker. *)
LEMMA OneRun ==
  ASSUME IInv, NEW t \in Ids, NEW s \in SeatRecord,
         Update(t, s), UNCHANGED <<guest, match, check>>,
         faults \subseteq faults', Sound(t, s, guest[t], faults'),
         s.marker = seat[t].marker, s.children => seat[t].children,
         seat[t].run # "none"
  PROVE  IInv'
BY OneSeat

-----------------------------------------------------------------------------
(* The adapter. *)

LEMMA SetupDoneKeeps ==
  ASSUME IInv, NEW t \in Ids, SetupDone(t), UNCHANGED <<match, check>>
  PROVE  IInv'
<1> DEFINE s == [seat[t] EXCEPT !.adapter = "polling", !.session = "live"]
<1>1. seat[t] \in SeatRecord /\ Sound(t, seat[t], guest[t], faults)
  BY OfOne
<1>2. seat[t].adapter = "setup" /\ Update(t, s) /\ UNCHANGED <<guest, faults>>
  BY DEF SetupDone
<1>3. /\ s \in SeatRecord /\ s.adapter = "polling" /\ s.session = "live"
      /\ s.run = seat[t].run /\ s.cut = seat[t].cut /\ s.children = seat[t].children
      /\ s.marker = seat[t].marker /\ s.file = seat[t].file
  BY <1>1 DEF SeatRecord, AdapterStates
<1> HIDE DEF s
<1>4. Sound(t, s, guest[t], faults)
  BY <1>1, <1>2, <1>3 DEF Sound
<1>5. seat[t].run # "none"
  BY <1>1, <1>2 DEF Sound
<1> QED
  BY <1>2, <1>3, <1>4, <1>5, OneRun

(* An adapter that breaks leaves no children, and a result that is its own *)
(* fault, unless it is claux.sh, which leaves none.                        *)
LEMMA BrokenSound ==
  ASSUME NEW t, NEW s \in SeatRecord, NEW g, NEW accidents, Sound(t, s, g, accidents),
         s.adapter \in {"setup", "polling", "awaiting", "answered", "forsaken", "closing"},
         <<"adapter", t>> \in accidents \/ s.adapter = "setup"
  PROVE  /\ Broken(s) \in SeatRecord /\ Sound(t, Broken(s), g, accidents)
         /\ ~Broken(s).children /\ Broken(s).marker = s.marker /\ s.run # "none"
<1> DEFINE result == [status |-> "harness_error", cost |-> s.copy.spent]
           file == IF s.harness = "claux" THEN None ELSE result
           d == [s EXCEPT !.adapter = "ended", !.children = FALSE, !.file = file]
<1>1. Broken(s) = d
  BY DEF Broken
<1>2. result \in Result /\ result.status = "harness_error" /\ s.copy.spent \in Nat
  BY DEF SeatRecord, Result, Statuses, Events
<1> HIDE DEF result
<1>3. file \in {None} \union Result /\ (file # None => file.status = "harness_error")
  BY <1>2
<1> HIDE DEF file
<1>4. /\ d \in SeatRecord /\ d.adapter = "ended" /\ ~d.children /\ d.file = file
      /\ d.session = s.session /\ d.cut = s.cut /\ d.marker = s.marker
      /\ d.run = s.run /\ d.copy = s.copy /\ d.harness = s.harness
  BY <1>3 DEF SeatRecord, AdapterStates
<1> HIDE DEF d
<1>5. s.adapter = "setup" => ~s.cut
  BY DEF Sound
<1>6. file # None => Blameless(t, d, file.status, accidents)
  BY <1>3, <1>4, <1>5 DEF Blameless
<1>7. Sound(t, d, g, accidents) /\ s.run # "none"
  BY <1>4, <1>5, <1>6 DEF Sound
<1> QED
  BY <1>1, <1>4, <1>7

LEMMA SetupFailsKeeps ==
  ASSUME IInv, NEW t \in Ids, SetupFails(t), UNCHANGED <<match, check>>
  PROVE  IInv'
<1>1. /\ seat[t] \in SeatRecord /\ Sound(t, seat[t], guest[t], faults)
      /\ seat[t].adapter = "setup" /\ Update(t, Broken(seat[t])) /\ UNCHANGED <<guest, faults>>
  BY OfOne DEF SetupFails
<1> QED
  BY <1>1, BrokenSound, OneRun

(* A copy of the stream changes what the seat is known by, while nothing   *)
(* has been made of it.                                                    *)
LEMMA CopiedSound ==
  ASSUME NEW t, NEW s \in SeatRecord, NEW g, NEW accidents, Sound(t, s, g, accidents),
         s.adapter \in {"polling", "answered", "forsaken", "closing"}
  PROVE  LET d == [s EXCEPT !.copy = s.stream]
         IN /\ d \in SeatRecord /\ Sound(t, d, g, accidents) /\ d.adapter = s.adapter
            /\ d.marker = s.marker /\ d.children = s.children /\ d.run = s.run
<1> DEFINE d == [s EXCEPT !.copy = s.stream]
<1>1. /\ d \in SeatRecord /\ d.adapter = s.adapter /\ d.children = s.children /\ d.file = s.file
      /\ d.session = s.session /\ d.cut = s.cut /\ d.marker = s.marker /\ d.run = s.run
  BY DEF SeatRecord
<1> HIDE DEF d
<1>2. s.file = None /\ s.run # "reported"
  BY DEF Sound
<1>3. Sound(t, d, g, accidents)
  BY <1>1, <1>2 DEF Sound
<1> QED
  BY <1>1, <1>3 DEF d

LEMMA CollectKeeps ==
  ASSUME IInv, NEW t \in Ids, Collect(t), UNCHANGED <<match, check>>
  PROVE  IInv'
<1> DEFINE s == [seat[t] EXCEPT !.copy = seat[t].stream]
<1>1. /\ seat[t] \in SeatRecord /\ Sound(t, seat[t], guest[t], faults)
      /\ seat[t].adapter = "polling" /\ Update(t, s) /\ UNCHANGED <<guest, faults>>
  BY OfOne DEF Collect
<1>2. /\ s \in SeatRecord /\ Sound(t, s, guest[t], faults)
      /\ s.marker = seat[t].marker /\ s.children = seat[t].children
  BY <1>1, CopiedSound
<1> HIDE DEF s
<1>3. seat[t].run # "none"
  BY <1>1 DEF Sound
<1> QED
  BY <1>1, <1>2, <1>3, OneRun

(* A step of an adapter that has a session and no result yet. *)
LEMMA AdapterGoesOn ==
  ASSUME IInv, NEW t \in Ids, NEW next \in {"awaiting", "answered", "forsaken", "closing"},
         seat[t].adapter \in {"polling", "awaiting"}, seat[t].session \in Exits,
         next = "closing" => ~Marked(seat[t]),
         next # "closing" => Marked(seat[t]),
         Update(t, [seat[t] EXCEPT !.adapter = next]),
         UNCHANGED <<guest, faults, match, check>>
  PROVE  IInv'
<1> DEFINE s == [seat[t] EXCEPT !.adapter = next]
<1>1. seat[t] \in SeatRecord /\ Sound(t, seat[t], guest[t], faults)
  BY OfOne
<1>2. /\ s \in SeatRecord /\ s.adapter = next /\ s.session = seat[t].session
      /\ s.run = seat[t].run /\ s.cut = seat[t].cut /\ s.children = seat[t].children
      /\ s.marker = seat[t].marker /\ s.file = seat[t].file
  BY <1>1 DEF SeatRecord, AdapterStates
<1>3. Update(t, s)
  OBVIOUS
<1> HIDE DEF s
<1>4. Sound(t, s, guest[t], faults) /\ seat[t].run # "none"
  BY <1>1, <1>2 DEF Sound, Marked
<1> QED
  BY <1>2, <1>3, <1>4, OneRun

LEMMA NoticeKeeps ==
  ASSUME IInv, NEW t \in Ids, Notice(t), UNCHANGED <<match, check>>
  PROVE  IInv'
<1> DEFINE next == IF Marked(seat[t]) THEN "awaiting" ELSE "closing"
<1>1. /\ next \in {"awaiting", "answered", "forsaken", "closing"}
      /\ next = "closing" => ~Marked(seat[t])
      /\ next # "closing" => Marked(seat[t])
  OBVIOUS
<1>2. /\ seat[t].adapter = "polling" /\ seat[t].session \in Exits
      /\ Update(t, [seat[t] EXCEPT !.adapter = next]) /\ UNCHANGED <<guest, faults>>
  BY DEF Notice
<1> HIDE DEF next
<1> QED
  BY <1>1, <1>2, AdapterGoesOn

LEMMA WaitKeeps ==
  ASSUME IInv, NEW t \in Ids, Wait(t), UNCHANGED <<match, check>>
  PROVE  IInv'
<1>1. PICK end \in {"answered", "forsaken"} : Update(t, [seat[t] EXCEPT !.adapter = end])
  BY DEF Wait
<1>2. seat[t].adapter = "awaiting" /\ UNCHANGED <<guest, faults>>
  BY DEF Wait
<1>3. seat[t].session \in Exits /\ Marked(seat[t])
  BY <1>2, OfOne DEF Sound, Exits, Marked
<1>4. end \in {"awaiting", "answered", "forsaken", "closing"} /\ end # "closing"
  OBVIOUS
<1> QED
  BY <1>1, <1>2, <1>3, <1>4, AdapterGoesOn

(* A session the reboot has cut was marked, so its adapter has waited: it  *)
(* is interrupted, or is what the agent's stream says; unless claux.sh     *)
(* gave up.  And who says interrupted of a connection that went has seen   *)
(* the marker, or read it in the stream.                                   *)
LEMMA LabelFair ==
  ASSUME NEW t, NEW s \in SeatRecord, NEW g, NEW accidents, Sound(t, s, g, accidents),
         s.adapter \in {"answered", "forsaken", "closing"}, NEW fetched \in BOOLEAN
  PROVE  /\ Label(s, fetched) \in Statuses
         /\ Blameless(t, s, Label(s, fetched), accidents)
<1> DEFINE label == Label(s, fetched)
           outcome == s.copy.outcome
           back == Rebooted(s)
<1>1. /\ s.session \in Exits
      /\ s.cut => s.marker /\ s.session \in {"lost", "terminated"}
      /\ s.cut /\ s.session = "lost" => s.adapter \in {"answered", "forsaken"}
      /\ s.adapter \in {"answered", "forsaken"} => s.session = "lost" /\ s.marker
  BY DEF Sound, Exits
<1>2. /\ outcome \in {"open", "completed"} \union Failures
      /\ s.stream.outcome \in {"open", "completed"} \union Failures
      /\ s.copy.spent \in Nat
      /\ Failures \subseteq Statuses
      /\ {"completed", "interrupted", "harness_error", "failed"} \subseteq Statuses
  BY HostAssumption DEF SeatRecord, Events, Statuses
<1>3. back => s.adapter \in {"answered", "forsaken"}
  BY DEF Rebooted
<1>4. s.adapter \in {"answered", "forsaken"} => back \/ s.harness = "claux"
  BY DEF Rebooted
<1> HIDE DEF back
<1>5. CASE s.harness = "claux"
  <2> DEFINE kind == IF s.session = "quit" THEN s.stream.outcome ELSE outcome
  <2>1. label = IF fetched /\ outcome = "completed" THEN "completed"
                ELSE IF back THEN "interrupted"
                ELSE IF kind \in Failures THEN kind
                ELSE IF s.session = "lost" \/ s.copy.spent = 0 THEN "harness_error"
                ELSE "failed"
    BY <1>5 DEF Label, ClauxLabel, back
  <2>2. s.session # "quit" => kind = outcome
    OBVIOUS
  <2> HIDE DEF label, kind, outcome
  <2>3. \/ label = "completed" /\ outcome = "completed"
        \/ label = "interrupted" /\ back
        \/ label = kind /\ kind \in Failures
        \/ label = "harness_error"
        \/ label = "failed" /\ s.session # "lost"
    BY <2>1
  <2>4. label \in Statuses
    BY <1>2, <2>3
  <2>5. /\ s.cut => \/ label \in {"interrupted", outcome} \/ label = "harness_error"
                    \/ s.session = "terminated"
        /\ s.session = "lost" /\ label = "interrupted" => s.marker \/ outcome = "interrupted"
    BY <1>1, <1>3, <2>2, <2>3 DEF Exits
  <2> QED
    BY <1>5, <2>4, <2>5 DEF Blameless, label, outcome
<1>6. CASE s.harness # "claux"
  <2> DEFINE Says == \/ label = outcome /\ outcome \in Failures
                     \/ label = "interrupted" /\ (s.session = "terminated" \/ back)
                     \/ label \in {"harness_error", "completed", "failed"}
                        /\ s.session # "terminated" /\ ~back
  <2>1. ASSUME s.harness = "term_llm" PROVE Says
    <3>1. label = IF s.session = "terminated" \/ back THEN "interrupted"
                  ELSE IF s.session \in {"lost", "killed"} THEN "harness_error"
                  ELSE IF outcome \in Failures THEN outcome
                  ELSE IF s.session = "complete" /\ outcome = "completed" THEN "completed"
                  ELSE "harness_error"
      BY <2>1 DEF Label, TermLlmLabel, back
    <3> HIDE DEF label, outcome
    <3> QED
      BY <3>1
  <2>2. ASSUME s.harness # "term_llm" PROVE Says
    <3>1. label = IF outcome \in Failures THEN outcome
                  ELSE IF s.session = "terminated" \/ back THEN "interrupted"
                  ELSE IF s.session \in {"lost", "killed"} THEN "harness_error"
                  ELSE IF s.session = "complete" /\ outcome = "completed" THEN "completed"
                  ELSE IF s.copy.spent > 0 THEN "failed" ELSE "harness_error"
      BY <1>6, <2>2 DEF Label, OpencodeLabel, back
    <3> HIDE DEF label, outcome
    <3> QED
      BY <3>1
  <2>3. Says
    BY <2>1, <2>2
  <2> HIDE DEF label, outcome
  <2>4. label \in Statuses
    BY <1>2, <2>3
  <2>5. /\ s.cut => label \in {"interrupted", outcome}
        /\ s.session = "lost" /\ label = "interrupted" => s.marker \/ outcome = "interrupted"
    BY <1>1, <1>3, <1>4, <1>6, <2>3
  <2> QED
    BY <2>4, <2>5 DEF Blameless, label, outcome
<1> QED
  BY <1>5, <1>6

LEMMA CloseKeeps ==
  ASSUME IInv, NEW t \in Ids, Close(t), UNCHANGED <<match, check>>
  PROVE  IInv'
<1>1. PICK fetched \in BOOLEAN :
        LET s == IF fetched THEN [seat[t] EXCEPT !.copy = seat[t].stream] ELSE seat[t]
        IN Update(t, [s EXCEPT !.adapter = "ended", !.children = FALSE,
                               !.file = [ status |-> Label(s, fetched),
                                          cost |-> s.copy.spent ]])
  BY DEF Close
<1> DEFINE s == IF fetched THEN [seat[t] EXCEPT !.copy = seat[t].stream] ELSE seat[t]
           file == [status |-> Label(s, fetched), cost |-> s.copy.spent]
           d == [s EXCEPT !.adapter = "ended", !.children = FALSE, !.file = file]
<1>2. /\ seat[t] \in SeatRecord /\ Sound(t, seat[t], guest[t], faults)
      /\ seat[t].adapter \in {"answered", "forsaken", "closing"} /\ UNCHANGED <<guest, faults>>
  BY OfOne DEF Close
<1>3. Update(t, d)
  BY <1>1
<1>4. /\ s \in SeatRecord /\ Sound(t, s, guest[t], faults)
      /\ s.adapter = seat[t].adapter /\ s.marker = seat[t].marker /\ s.run = seat[t].run
  BY <1>2, CopiedSound
<1> HIDE DEF s
<1>5. /\ Label(s, fetched) \in Statuses
      /\ Blameless(t, s, Label(s, fetched), faults)
  BY <1>2, <1>4, LabelFair
<1>6. file \in Result /\ file # None /\ file.status = Label(s, fetched)
  BY <1>4, <1>5, HostAssumption DEF Result, SeatRecord, Events
<1> HIDE DEF file
<1>7. /\ d \in SeatRecord /\ d.adapter = "ended" /\ ~d.children /\ d.file = file
      /\ d.session = s.session /\ d.cut = s.cut /\ d.marker = s.marker
      /\ d.run = s.run /\ d.copy = s.copy /\ d.harness = s.harness
  BY <1>4, <1>6 DEF SeatRecord, AdapterStates
<1> HIDE DEF d
<1>8. Blameless(t, d, file.status, faults)
  BY <1>5, <1>6, <1>7 DEF Blameless
<1>9. Sound(t, d, guest[t], faults) /\ seat[t].run # "none"
  BY <1>2, <1>4, <1>6, <1>7, <1>8 DEF Sound
<1> QED
  BY <1>2, <1>3, <1>4, <1>7, <1>9, OneRun

-----------------------------------------------------------------------------
(* The controller of a seat. *)

LEMMA SpawnKeeps ==
  ASSUME IInv, NEW t \in Ids, phase = "match", Spawn(t, AdapterOf(t)),
         UNCHANGED <<match, check>>
  PROVE  IInv'
<1> DEFINE s == [seat[t] EXCEPT !.harness = AdapterOf(t), !.run = "waiting",
                                !.adapter = "setup", !.children = TRUE]
<1>1. /\ seat[t] \in SeatRecord /\ Sound(t, seat[t], guest[t], faults)
      /\ seat[t].run = "none" /\ Update(t, s) /\ UNCHANGED <<guest, faults>>
  BY OfOne DEF Spawn
<1>2. /\ s \in SeatRecord /\ s.adapter = "setup" /\ s.session = seat[t].session
      /\ s.run = "waiting" /\ s.cut = seat[t].cut /\ s.marker = seat[t].marker
      /\ s.file = seat[t].file
  BY <1>1 DEF SeatRecord, AdapterStates
<1> HIDE DEF s
<1>3. Sound(t, s, guest[t], faults)
  BY <1>1, <1>2 DEF Sound
<1> QED
  BY <1>1, <1>2, <1>3, OneSeat

(* Overrunning its budget is all that can change a status. *)
LEMMA BudgetApplied ==
  ASSUME NEW result \in Result
  PROVE  /\ ApplyBudget(result) \in Result
         /\ ApplyBudget(result).status \in {result.status, "budget_exceeded"}
         /\ ApplyBudget(result).cost = result.cost
BY DEF ApplyBudget, Result, Statuses

(* A report that holds nothing against the agent, and the cost of the file *)
(* if there is one, may be made of a seat whose adapter writes no more.    *)
LEMMA ReportKeeps ==
  ASSUME IInv, NEW t \in Ids, NEW result \in Result, Update(t, Report(seat[t], result)),
         seat[t].run \in {"waiting", "expired"}, seat[t].adapter \in {"ended", "killed"},
         Blameless(t, seat[t], result.status, faults),
         seat[t].file # None => result.cost = seat[t].file.cost,
         UNCHANGED <<guest, faults, match, check>>
  PROVE  IInv'
<1> DEFINE reported == ApplyBudget(result)
           s == [seat[t] EXCEPT !.children = FALSE, !.run = "reported", !.report = reported]
<1>1. seat[t] \in SeatRecord /\ Sound(t, seat[t], guest[t], faults)
  BY OfOne
<1>2. /\ reported \in Result /\ reported.status \in {result.status, "budget_exceeded"}
      /\ reported.cost = result.cost
  BY BudgetApplied
<1>3. Update(t, s)
  BY DEF Report, GroupKilled
<1> HIDE DEF reported
<1>4. /\ s \in SeatRecord /\ ~s.children /\ s.run = "reported" /\ s.report = reported
      /\ s.adapter = seat[t].adapter /\ s.session = seat[t].session /\ s.cut = seat[t].cut
      /\ s.marker = seat[t].marker /\ s.file = seat[t].file /\ s.copy = seat[t].copy
      /\ s.harness = seat[t].harness
  BY <1>1, <1>2 DEF SeatRecord
<1> HIDE DEF s
<1>5. Blameless(t, s, reported.status, faults)
  BY <1>2, <1>4 DEF Blameless
<1>6. \A status : Blameless(t, seat[t], status, faults) => Blameless(t, s, status, faults)
  BY <1>4 DEF Blameless
<1>7. Sound(t, s, guest[t], faults)
  BY <1>1, <1>2, <1>4, <1>5, <1>6 DEF Sound
<1> QED
  BY <1>3, <1>4, <1>7, OneRun

LEMMA ReapKeeps ==
  ASSUME IInv, NEW t \in Ids, Reap(t), UNCHANGED <<match, check>>
  PROVE  IInv'
<1> DEFINE result == IF seat[t].file = None THEN ControllerResult("harness_error")
                     ELSE seat[t].file
<1>1. seat[t] \in SeatRecord /\ Sound(t, seat[t], guest[t], faults)
  BY OfOne
<1>2. /\ seat[t].run = "waiting" /\ seat[t].adapter = "ended" /\ UNCHANGED <<guest, faults>>
      /\ Update(t, Report(seat[t], result))
  BY DEF Reap
<1>3. result \in Result
  BY <1>1 DEF SeatRecord, ControllerResult, Result, Statuses
<1>4. Blameless(t, seat[t], result.status, faults)
  <2>1. CASE seat[t].file = None
    <3>1. result.status = "harness_error"
      BY <2>1 DEF ControllerResult
    <3>2. <<"adapter", t>> \in faults \/ ~seat[t].cut
      BY <1>1, <1>2, <2>1 DEF Sound
    <3> HIDE DEF result
    <3> QED
      BY <3>1, <3>2 DEF Blameless
  <2>2. CASE seat[t].file # None
    BY <1>1, <2>2 DEF Sound
  <2> QED
    BY <2>1, <2>2
<1>5. seat[t].file # None => result.cost = seat[t].file.cost
  OBVIOUS
<1> HIDE DEF result
<1> QED
  BY <1>2, <1>3, <1>4, <1>5, ReportKeeps

LEMMA TimeoutKeeps ==
  ASSUME IInv, NEW t \in Ids, Timeout(t), UNCHANGED <<match, check>>
  PROVE  IInv'
<1> DEFINE result == IF seat[t].file = None THEN ControllerResult("timed_out")
                     ELSE [seat[t].file EXCEPT !.status = "timed_out"]
<1>1. seat[t] \in SeatRecord /\ Sound(t, seat[t], guest[t], faults)
  BY OfOne
<1>2. /\ seat[t].run = "expired" /\ UNCHANGED <<guest, faults>>
      /\ Update(t, Report(seat[t], result))
  BY DEF Timeout
<1>3. /\ result \in Result /\ result.status = "timed_out"
      /\ seat[t].file # None => result.cost = seat[t].file.cost
  <2>1. seat[t].file \in {None} \union Result
    BY <1>1 DEF SeatRecord
  <2> QED
    BY <2>1 DEF ControllerResult, Result, Statuses
<1> HIDE DEF result
<1>4. seat[t].adapter = "killed" /\ Blameless(t, seat[t], result.status, faults)
  BY <1>1, <1>2, <1>3 DEF Sound, Blameless
<1> QED
  BY <1>2, <1>3, <1>4, ReportKeeps

LEMMA ExpireKeeps ==
  ASSUME IInv, NEW t \in Ids, Expire(t), UNCHANGED <<match, check>>
  PROVE  IInv'
<1> DEFINE s == [seat[t] EXCEPT !.run = "expired", !.adapter = "killed"]
<1>1. /\ seat[t] \in SeatRecord /\ Sound(t, seat[t], guest[t], faults)
      /\ seat[t].run = "waiting" /\ Update(t, s) /\ UNCHANGED <<guest, faults>>
  BY OfOne DEF Expire, Expired
<1>2. /\ s \in SeatRecord /\ s.run = "expired" /\ s.adapter = "killed"
      /\ s.children = seat[t].children /\ s.session = seat[t].session /\ s.cut = seat[t].cut
      /\ s.marker = seat[t].marker /\ s.file = seat[t].file /\ s.copy = seat[t].copy
      /\ s.harness = seat[t].harness
  BY <1>1 DEF SeatRecord, AdapterStates
<1> HIDE DEF s
<1>3. \A status : Blameless(t, seat[t], status, faults) => Blameless(t, s, status, faults)
  BY <1>2 DEF Blameless
<1>4. Sound(t, s, guest[t], faults)
  BY <1>1, <1>2, <1>3 DEF Sound
<1> QED
  BY <1>1, <1>2, <1>4, OneRun

(* A seat that is dropped is sound wherever it was. *)
LEMMA DroppedSound ==
  ASSUME NEW t, NEW s \in SeatRecord, NEW g, NEW accidents, Sound(t, s, g, accidents)
  PROVE  /\ Dropped(s) \in SeatRecord /\ Sound(t, Dropped(s), g, accidents)
         /\ ~Dropped(s).children /\ Dropped(s).marker = s.marker
         /\ Dropped(s).run = "none" <=> s.run = "none"
<1>1. CASE s.run \notin {"waiting", "expired"}
  <2>1. Dropped(s) = s /\ ~s.children
    BY <1>1 DEF Dropped, Sound, SeatRecord
  <2> QED
    BY <2>1
<1>2. CASE s.run \in {"waiting", "expired"}
  <2> DEFINE d == [s EXCEPT !.children = FALSE, !.run = "dropped", !.adapter = "killed"]
  <2>1. Dropped(s) = d
    BY <1>2 DEF Dropped, GroupKilled
  <2>2. /\ d \in SeatRecord /\ ~d.children /\ d.run = "dropped" /\ d.adapter = "killed"
        /\ d.session = s.session /\ d.cut = s.cut /\ d.marker = s.marker /\ d.file = s.file
        /\ d.copy = s.copy /\ d.harness = s.harness
    BY DEF SeatRecord, AdapterStates
  <2> HIDE DEF d
  <2>3. \A status : Blameless(t, s, status, accidents) => Blameless(t, d, status, accidents)
    BY <2>2 DEF Blameless
  <2>4. Sound(t, d, g, accidents)
    BY <1>2, <2>2, <2>3 DEF Sound
  <2> QED
    BY <1>2, <2>1, <2>2, <2>4
<1> QED
  BY <1>1, <1>2

-----------------------------------------------------------------------------
(* The guest of a seat, and the accidents. *)

(* A session that ends, if it was live, has no result yet, and is sound in *)
(* whatever the guest becomes, as long as a reboot that cut it was marked. *)
LEMMA EndedSound ==
  ASSUME IInv, NEW t \in Ids, NEW exit \in {"terminated", "lost"}, NEW cut \in BOOLEAN,
         Ended(t, exit, cut), NEW g, g # "going",
         cut => guest[t] = "going",
         faults \subseteq faults'
  PROVE  /\ seat' \in [Ids -> SeatRecord]
         /\ \A u \in Ids \ {t} : seat'[u] = seat[u]
         /\ Sound(t, seat'[t], g, faults')
         /\ seat'[t].run = seat[t].run /\ seat'[t].children = seat[t].children
         /\ seat'[t].marker = seat[t].marker
<1>1. seat \in [Ids -> SeatRecord]
  BY DEF IInv, TypeOK
<1>2. /\ seat[t] \in SeatRecord /\ Sound(t, seat[t], guest[t], faults)
      /\ Sound(t, seat[t], guest[t], faults')
  BY OfOne, FaultsGrow
<1>3. CASE Live(t)
  <2> DEFINE s == [seat[t] EXCEPT !.session = exit, !.cut = cut]
  <2>1. seat' = [seat EXCEPT ![t] = s]
    BY <1>3 DEF Ended, Update
  <2>2. /\ s \in SeatRecord /\ s.session = exit /\ s.cut = cut
        /\ s.run = seat[t].run /\ s.children = seat[t].children
        /\ s.marker = seat[t].marker /\ s.adapter = seat[t].adapter
        /\ s.file = seat[t].file
    BY <1>2 DEF SeatRecord, Exits
  <2> HIDE DEF s
  <2>3. seat[t].session = "live" /\ seat[t].children
    BY <1>3 DEF Live
  <2>4. cut => s.marker
    BY <1>2, <2>2 DEF Sound
  <2>5. /\ s.file = None /\ s.run \in {"waiting", "expired"}
        /\ s.adapter \notin {"none", "setup", "awaiting", "answered", "forsaken", "closing"}
        /\ s.adapter = "ended" => <<"adapter", t>> \in faults'
    BY <1>2, <2>2, <2>3 DEF Sound, Exits
  <2>6. Sound(t, s, g, faults')
    BY <1>2, <2>2, <2>4, <2>5 DEF Sound
  <2> QED
    BY <1>1, <2>1, <2>2, <2>6
<1>4. CASE ~Live(t)
  <2>1. seat' = seat
    BY <1>4 DEF Ended
  <2>2. Sound(t, seat[t], g, faults')
    BY <1>2 DEF Sound
  <2> QED
    BY <1>1, <2>1, <2>2
<1> QED
  BY <1>3, <1>4

(* A step that ends the session of a guest that goes down, or is lost.     *)
LEMMA EndedKeeps ==
  ASSUME IInv, NEW t \in Ids, NEW exit \in {"terminated", "lost"}, NEW cut \in BOOLEAN,
         Ended(t, exit, cut), NEW g \in {"down", "lost"},
         guest' = [guest EXCEPT ![t] = g], guest[t] \in Alive,
         cut => guest[t] = "going",
         faults \subseteq faults', UNCHANGED <<match, check>>
  PROVE  IInv'
<1>1. /\ guest \in [Ids -> GuestStates] /\ check \in [Ids -> CheckRecord]
      /\ g \in GuestStates
  BY DEF IInv, TypeOK, GuestStates
<1>2. /\ seat' \in [Ids -> SeatRecord]
      /\ \A u \in Ids \ {t} : seat'[u] = seat[u]
      /\ Sound(t, seat'[t], g, faults')
      /\ seat'[t].run = seat[t].run /\ seat'[t].children = seat[t].children
      /\ seat'[t].marker = seat[t].marker
  BY EndedSound
<1>3. /\ guest' \in [Ids -> GuestStates] /\ guest'[t] = g
      /\ \A u \in Ids \ {t} : guest'[u] = guest[u]
  BY <1>1
<1>4. CheckSound(check'[t], seat'[t])
  BY <1>2, OfOne DEF CheckSound
<1>5. check[t].step # "idle" => phase = "match"
  BY OfOne
<1>6. SoundStep(t)
  BY <1>1, <1>2, <1>3, <1>4, <1>5 DEF SoundStep
<1> QED
  BY <1>6, OneTerritory

(* The agent works, and its session ends by itself. *)
LEMMA WorkKeeps ==
  ASSUME IInv, NEW t \in Ids, Work(t), UNCHANGED <<match, check>>
  PROVE  IInv'
<1>1. seat[t] \in SeatRecord /\ Sound(t, seat[t], guest[t], faults)
  BY OfOne
<1>2. seat[t].session = "live" /\ seat[t].children /\ UNCHANGED <<guest, faults>>
  BY DEF Work, Live
<1>3. ASSUME NEW s \in SeatRecord, Update(t, s), s.session # "none",
             \A field \in {"harness", "adapter", "cut", "children", "marker", "copy", "file",
                          "run", "report"} : s[field] = seat[t][field]
      PROVE  IInv'
  <2>1. /\ s.adapter = seat[t].adapter /\ s.children = seat[t].children
        /\ s.marker = seat[t].marker /\ s.cut = seat[t].cut /\ s.file = seat[t].file
        /\ s.run = seat[t].run
    BY <1>3
  <2>2. /\ s.file = None /\ s.run \in {"waiting", "expired"} /\ ~s.cut
        /\ s.adapter \notin {"none", "setup", "awaiting", "answered", "forsaken", "closing"}
    BY <1>1, <1>2, <2>1 DEF Sound, Exits
  <2>3. Sound(t, s, guest[t], faults)
    BY <1>1, <2>1, <2>2 DEF Sound
  <2> QED
    BY <1>2, <1>3, <2>1, <2>2, <2>3, OneRun
<1>4. ASSUME NEW stream \in Events, Update(t, [seat[t] EXCEPT !.stream = stream])
      PROVE  IInv'
  <2> DEFINE s == [seat[t] EXCEPT !.stream = stream]
  <2>1. /\ s \in SeatRecord /\ s.session # "none"
        /\ \A field \in {"harness", "adapter", "cut", "children", "marker", "copy", "file",
                          "run", "report"} : s[field] = seat[t][field]
    BY <1>1, <1>2 DEF SeatRecord
  <2>2. Update(t, s)
    BY <1>4
  <2> HIDE DEF s
  <2> QED
    BY <1>3, <2>1, <2>2
<1>5. CASE Update(t, [seat[t] EXCEPT !.stream.spent = @ + 1])
  <2> DEFINE stream == [seat[t].stream EXCEPT !.spent = @ + 1]
  <2>1. stream \in Events
    BY <1>1 DEF SeatRecord, Events
  <2>2. [seat[t] EXCEPT !.stream.spent = @ + 1] = [seat[t] EXCEPT !.stream = stream]
    BY <1>1 DEF SeatRecord, Events
  <2> HIDE DEF stream
  <2> QED
    BY <1>4, <1>5, <2>1, <2>2
<1>6. ASSUME NEW outcome \in {"completed"} \union Failures,
             Update(t, [seat[t] EXCEPT !.stream.outcome = outcome])
      PROVE  IInv'
  <2> DEFINE stream == [seat[t].stream EXCEPT !.outcome = outcome]
  <2>1. stream \in Events
    BY <1>1 DEF SeatRecord, Events
  <2>2. [seat[t] EXCEPT !.stream.outcome = outcome] = [seat[t] EXCEPT !.stream = stream]
    BY <1>1 DEF SeatRecord, Events
  <2> HIDE DEF stream
  <2> QED
    BY <1>4, <1>6, <2>1, <2>2
<1>7. ASSUME NEW exit \in Exits, Update(t, [seat[t] EXCEPT !.session = exit])
      PROVE  IInv'
  <2> DEFINE s == [seat[t] EXCEPT !.session = exit]
  <2>1. /\ s \in SeatRecord /\ s.session = exit
        /\ \A field \in {"harness", "adapter", "cut", "children", "marker", "copy", "file",
                          "run", "report"} : s[field] = seat[t][field]
    BY <1>1 DEF SeatRecord
  <2>2. Update(t, s) /\ exit # "none"
    BY <1>7 DEF Exits
  <2> HIDE DEF s
  <2> QED
    BY <1>3, <2>1, <2>2
<1> QED
  BY <1>5, <1>6, <1>7 DEF Work

LEMMA GoesDownKeeps ==
  ASSUME IInv, NEW t \in Ids, GoesDown(t), UNCHANGED <<match, check>>
  PROVE  IInv'
<1>1. /\ guest[t] = "going" /\ guest' = [guest EXCEPT ![t] = "down"]
      /\ faults \subseteq faults' /\ \E exit \in {"terminated", "lost"} : Ended(t, exit, TRUE)
  BY DEF GoesDown
<1> QED
  BY <1>1, EndedKeeps DEF Alive

LEMMA DisconnectsKeeps ==
  ASSUME IInv, NEW t \in Ids, Disconnects(t), UNCHANGED <<match, check>>
  PROVE  IInv'
<1>1. /\ Live(t) /\ UNCHANGED guest /\ faults \subseteq faults'
      /\ Update(t, [seat[t] EXCEPT !.session = "lost", !.cut = FALSE])
  BY DEF Disconnects, Accident, Ended
<1> DEFINE s == [seat[t] EXCEPT !.session = "lost", !.cut = FALSE]
<1>2. /\ seat[t] \in SeatRecord /\ Sound(t, seat[t], guest[t], faults')
  BY <1>1, OfOne, FaultsGrow
<1>3. /\ s \in SeatRecord /\ s.session = "lost" /\ ~s.cut
      /\ s.run = seat[t].run /\ s.children = seat[t].children
      /\ s.marker = seat[t].marker /\ s.adapter = seat[t].adapter
      /\ s.file = seat[t].file
  BY <1>2 DEF SeatRecord, Exits
<1>4. Update(t, s)
  BY <1>1
<1> HIDE DEF s
<1>5. /\ s.file = None /\ s.run \in {"waiting", "expired"}
      /\ s.adapter \notin {"none", "setup", "awaiting", "answered", "forsaken", "closing"}
  BY <1>1, <1>2, <1>3 DEF Live, Sound, Exits
<1>6. Sound(t, s, guest[t], faults')
  BY <1>2, <1>3, <1>5 DEF Sound
<1> QED
  BY <1>1, <1>3, <1>4, <1>5, <1>6, OneRun

LEMMA RebootsItselfKeeps ==
  ASSUME IInv, NEW t \in Ids, RebootsItself(t), UNCHANGED <<match, check>>
  PROVE  IInv'
<1>1. /\ guest[t] = "up" /\ guest' = [guest EXCEPT ![t] = "down"]
      /\ faults \subseteq faults' /\ \E exit \in {"terminated", "lost"} : Ended(t, exit, FALSE)
  BY DEF RebootsItself, Accident
<1> QED
  BY <1>1, EndedKeeps DEF Alive

LEMMA LostKeeps ==
  ASSUME IInv, NEW t \in Ids, Lost(t), UNCHANGED <<match, check>>
  PROVE  IInv'
<1>1. /\ guest[t] \in Alive /\ guest' = [guest EXCEPT ![t] = "lost"]
      /\ faults \subseteq faults' /\ Ended(t, "lost", FALSE)
  BY DEF Lost, Accident, Running, Alive
<1> QED
  BY <1>1, EndedKeeps

LEMMA AdapterDiesKeeps ==
  ASSUME IInv, NEW t \in Ids, AdapterDies(t), UNCHANGED <<match, check>>
  PROVE  IInv'
<1> DEFINE s == [seat[t] EXCEPT !.adapter = "ended"]
<1>1. /\ faults \subseteq faults' /\ <<"adapter", t>> \in faults' /\ Update(t, s)
      /\ UNCHANGED guest
      /\ seat[t].adapter \in {"setup", "polling", "awaiting", "answered", "forsaken", "closing"}
  BY DEF AdapterDies, Accident
<1>2. seat[t] \in SeatRecord /\ Sound(t, seat[t], guest[t], faults')
  BY <1>1, OfOne, FaultsGrow
<1>3. /\ s \in SeatRecord /\ s.adapter = "ended" /\ s.session = seat[t].session
      /\ s.run = seat[t].run /\ s.children = seat[t].children /\ s.cut = seat[t].cut
      /\ s.marker = seat[t].marker /\ s.file = seat[t].file
  BY <1>2 DEF SeatRecord, AdapterStates
<1> HIDE DEF s
<1>4. Sound(t, s, guest[t], faults') /\ seat[t].run # "none"
  BY <1>1, <1>2, <1>3 DEF Sound
<1> QED
  BY <1>1, <1>3, <1>4, OneRun

LEMMA AdapterBreaksKeeps ==
  ASSUME IInv, NEW t \in Ids, AdapterBreaks(t), UNCHANGED <<match, check>>
  PROVE  IInv'
<1>1. /\ faults \subseteq faults' /\ <<"adapter", t>> \in faults' /\ UNCHANGED guest
      /\ Update(t, Broken(seat[t]))
      /\ seat[t].adapter \in {"setup", "polling", "awaiting", "answered", "forsaken", "closing"}
  BY DEF AdapterBreaks, Accident
<1>2. seat[t] \in SeatRecord /\ Sound(t, seat[t], guest[t], faults')
  BY <1>1, OfOne, FaultsGrow
<1> QED
  BY <1>1, <1>2, BrokenSound, OneRun

(* A guest that comes up is seen to have booted by the verification.       *)
LEMMA ComesUpKeeps ==
  ASSUME IInv, NEW t \in Ids, ComesUp(t), UNCHANGED match,
         SetCheck(t, [check[t] EXCEPT !.booted = check[t].step # "idle"])
  PROVE  IInv'
<1> DEFINE c == [check[t] EXCEPT !.booted = check[t].step # "idle"]
<1>1. /\ seat \in [Ids -> SeatRecord] /\ guest \in [Ids -> GuestStates]
      /\ check \in [Ids -> CheckRecord]
  BY DEF IInv, TypeOK
<1>2. /\ seat[t] \in SeatRecord /\ Sound(t, seat[t], guest[t], faults)
      /\ check[t] \in CheckRecord /\ CheckSound(check[t], seat[t])
      /\ check[t].step # "idle" => phase = "match"
  BY OfOne
<1>3. c \in CheckRecord
  BY <1>2 DEF CheckRecord
<1>4. c.step = check[t].step /\ CheckSound(c, seat[t])
  BY <1>2 DEF CheckRecord, CheckSound
<1>5. Sound(t, seat[t], "up", faults)
  BY <1>2 DEF Sound
<1>6. check' = [check EXCEPT ![t] = c]
  BY DEF SetCheck
<1> HIDE DEF c
<1>7. /\ check' \in [Ids -> CheckRecord] /\ check'[t] = c
      /\ \A u \in Ids \ {t} : check'[u] = check[u]
  BY <1>1, <1>3, <1>6
<1>8. /\ guest' \in [Ids -> GuestStates] /\ guest'[t] = "up"
      /\ \A u \in Ids \ {t} : guest'[u] = guest[u]
      /\ guest[t] = "down" /\ UNCHANGED <<seat, faults>>
  BY <1>1 DEF ComesUp, GuestStates
<1>9. SoundStep(t)
  BY <1>1, <1>2, <1>4, <1>5, <1>7, <1>8 DEF SoundStep, Alive
<1> QED
  BY <1>9, OneTerritory

-----------------------------------------------------------------------------
(* The verification of a milestone. *)

(* A step of the verification in t that touches at most the marker of its  *)
(* seat and asks its guest to go.                                          *)
LEMMA OneCheck ==
  ASSUME IInv, NEW t \in Ids, phase = "match",
         NEW c \in CheckRecord, SetCheck(t, c),
         NEW s \in SeatRecord, seat' = [seat EXCEPT ![t] = s],
         NEW g \in GuestStates, guest' = [guest EXCEPT ![t] = g],
         UNCHANGED <<faults, match>>,
         Sound(t, s, g, faults), CheckSound(c, s),
         g # guest[t] => guest[t] \in Alive
  PROVE  IInv'
<1>1. /\ seat \in [Ids -> SeatRecord] /\ guest \in [Ids -> GuestStates]
      /\ check \in [Ids -> CheckRecord]
  BY DEF IInv, TypeOK
<1>2. /\ seat' \in [Ids -> SeatRecord] /\ seat'[t] = s
      /\ \A u \in Ids \ {t} : seat'[u] = seat[u]
  BY <1>1
<1>3. /\ guest' \in [Ids -> GuestStates] /\ guest'[t] = g
      /\ \A u \in Ids \ {t} : guest'[u] = guest[u]
  BY <1>1
<1>4. /\ check' \in [Ids -> CheckRecord] /\ check'[t] = c
      /\ \A u \in Ids \ {t} : check'[u] = check[u]
  BY <1>1 DEF SetCheck
<1>5. SoundStep(t)
  BY <1>2, <1>3, <1>4 DEF SoundStep
<1> QED
  BY <1>5, OneTerritory

(* A step of the verification that only looks at its guest. *)
LEMMA OnlyCheck ==
  ASSUME IInv, NEW t \in Ids, phase = "match",
         NEW c \in CheckRecord, SetCheck(t, c), CheckSound(c, seat[t]),
         UNCHANGED <<guest, seat, faults, match>>
  PROVE  IInv'
<1>1. /\ seat \in [Ids -> SeatRecord] /\ guest \in [Ids -> GuestStates]
      /\ seat[t] \in SeatRecord /\ guest[t] \in GuestStates
      /\ Sound(t, seat[t], guest[t], faults)
  BY OfOne DEF IInv, TypeOK
<1>2. seat' = [seat EXCEPT ![t] = seat[t]] /\ guest' = [guest EXCEPT ![t] = guest[t]]
  BY <1>1
<1> QED
  BY <1>1, <1>2, OneCheck

(* A seat whose marker is set is as sound as it was. *)
LEMMA MarkSound ==
  ASSUME NEW t, NEW s \in SeatRecord, NEW g, NEW accidents, Sound(t, s, g, accidents)
  PROVE  /\ [s EXCEPT !.marker = TRUE] \in SeatRecord
         /\ [s EXCEPT !.marker = TRUE].marker
         /\ Sound(t, [s EXCEPT !.marker = TRUE], g, accidents)
<1> DEFINE d == [s EXCEPT !.marker = TRUE]
<1>1. /\ d \in SeatRecord /\ d.marker = TRUE
      /\ d.adapter = s.adapter /\ d.session = s.session /\ d.children = s.children
      /\ d.cut = s.cut /\ d.copy = s.copy /\ d.harness = s.harness
      /\ d.file = s.file /\ d.run = s.run /\ d.report = s.report
  BY DEF SeatRecord
<1> HIDE DEF d
<1>2. \A status : Blameless(t, s, status, accidents) => Blameless(t, d, status, accidents)
  BY <1>1 DEF Blameless
<1>3. Sound(t, d, g, accidents)
  BY <1>1, <1>2 DEF Sound
<1> QED
  BY <1>1, <1>3 DEF d

(* The milestone that begins has a name, and its reboot a marker. *)
LEMMA BeginCheckKeeps ==
  ASSUME IInv, NEW t \in Ids, BeginCheck(t)
  PROVE  IInv'
<1>1. PICK m \in Milestones :
        /\ SetCheck(t, [check[t] EXCEPT
                          !.step = IF m.reboot THEN "marked" ELSE "verifying",
                          !.milestone = m.id, !.attempt = @ + 1, !.booted = FALSE])
        /\ IF m.reboot THEN Mark(t) ELSE UNCHANGED seat
  BY DEF BeginCheck
<1> DEFINE step == IF m.reboot THEN "marked" ELSE "verifying"
           attempt == check[t].attempt + 1
           c == [check[t] EXCEPT !.step = step, !.milestone = m.id,
                                 !.attempt = attempt, !.booted = FALSE]
<1>2. /\ seat \in [Ids -> SeatRecord] /\ guest \in [Ids -> GuestStates]
      /\ check[t] \in CheckRecord /\ seat[t] \in SeatRecord
      /\ Sound(t, seat[t], guest[t], faults)
  BY OfOne DEF IInv, TypeOK
<1>3. phase = "match" /\ UNCHANGED <<guest, faults, match>>
  BY DEF BeginCheck
<1>4. m.id \in Names
  BY DEF Names
<1>5. SetCheck(t, c)
  BY <1>1
<1>6. attempt \in Nat /\ step \in {"marked", "verifying"} /\ (step = "marked" => m.reboot)
  BY <1>2 DEF CheckRecord
<1> HIDE DEF attempt, step
<1>7. c \in CheckRecord /\ c.step = step /\ c.milestone = m.id
  BY <1>2, <1>4, <1>6 DEF CheckRecord
<1> HIDE DEF c
<1>8. guest[t] \in GuestStates /\ guest' = [guest EXCEPT ![t] = guest[t]]
  BY <1>2, <1>3
<1>9. CASE m.reboot
  <2> DEFINE s == [seat[t] EXCEPT !.marker = TRUE]
  <2>1. s \in SeatRecord /\ s.marker /\ Sound(t, s, guest[t], faults)
    BY <1>2, MarkSound
  <2>2. seat' = [seat EXCEPT ![t] = s]
    BY <1>1, <1>9 DEF Mark, Update
  <2> HIDE DEF s
  <2>3. CheckSound(c, s)
    BY <1>4, <1>7, <2>1 DEF CheckSound
  <2> QED
    BY <1>3, <1>5, <1>7, <1>8, <2>1, <2>2, <2>3, OneCheck
<1>10. CASE ~m.reboot
  <2>1. UNCHANGED seat
    BY <1>1, <1>10
  <2>2. CheckSound(c, seat[t])
    BY <1>4, <1>6, <1>7, <1>10 DEF CheckSound
  <2> QED
    BY <1>3, <1>5, <1>7, <2>1, <2>2, OnlyCheck
<1> QED
  BY <1>9, <1>10

LEMMA AskRebootKeeps ==
  ASSUME IInv, NEW t \in Ids, AskReboot(t)
  PROVE  IInv'
<1> DEFINE c == [check[t] EXCEPT !.step = "stopping"]
<1>1. /\ seat \in [Ids -> SeatRecord] /\ guest \in [Ids -> GuestStates]
      /\ check[t] \in CheckRecord /\ seat[t] \in SeatRecord
      /\ Sound(t, seat[t], guest[t], faults) /\ CheckSound(check[t], seat[t])
  BY OfOne DEF IInv, TypeOK
<1>2. /\ phase = "match" /\ check[t].step = "marked" /\ UNCHANGED <<seat, faults, match>>
      /\ SetCheck(t, c)
      /\ \/ guest[t] = "up" /\ guest' = [guest EXCEPT ![t] = "going"]
         \/ UNCHANGED guest
  BY DEF AskReboot
<1>3. c \in CheckRecord /\ c.step = "stopping" /\ c.milestone = check[t].milestone
  BY <1>1 DEF CheckRecord
<1> HIDE DEF c
<1>4. CheckSound(c, seat[t]) /\ seat[t].marker
  BY <1>1, <1>2, <1>3 DEF CheckSound
<1>5. CASE guest[t] = "up" /\ guest' = [guest EXCEPT ![t] = "going"]
  <2>1. Sound(t, seat[t], "going", faults)
    BY <1>1, <1>4 DEF Sound
  <2>2. "going" \in GuestStates /\ guest[t] \in Alive
    BY <1>5 DEF GuestStates, Alive
  <2>3. seat' = [seat EXCEPT ![t] = seat[t]]
    BY <1>1, <1>2
  <2> QED
    BY <1>1, <1>2, <1>3, <1>4, <1>5, <2>1, <2>2, <2>3, OneCheck
<1>6. CASE UNCHANGED guest
  BY <1>2, <1>3, <1>4, <1>6, OnlyCheck
<1> QED
  BY <1>2, <1>5, <1>6

(* A probe that fails or succeeds tells the verification to go on. *)
LEMMA SeeKeeps ==
  ASSUME IInv, NEW t \in Ids, SeeStopped(t) \/ SeeStarted(t)
  PROVE  IInv'
<1>1. PICK step \in {"starting", "verifying"} :
        SetCheck(t, [check[t] EXCEPT !.step = step])
  BY DEF SeeStopped, SeeStarted
<1> DEFINE c == [check[t] EXCEPT !.step = step]
<1>2. check[t] \in CheckRecord /\ CheckSound(check[t], seat[t])
  BY OfOne
<1>3. /\ phase = "match" /\ check[t].step # "idle"
      /\ SetCheck(t, c) /\ UNCHANGED <<guest, seat, faults, match>>
  BY <1>1 DEF SeeStopped, SeeStarted
<1>4. c \in CheckRecord /\ c.step = step /\ c.milestone = check[t].milestone
  BY <1>2 DEF CheckRecord
<1> HIDE DEF c
<1>5. CheckSound(c, seat[t])
  BY <1>2, <1>3, <1>4 DEF CheckSound
<1> QED
  BY <1>3, <1>4, <1>5, OnlyCheck

(* Whatever a verification leaves, and finds, is of its milestone. *)
LEMMA VerifyKeeps ==
  ASSUME IInv, NEW t \in Ids, Verify(t)
  PROVE  IInv'
<1> DEFINE m == check[t].milestone
<1>1. check[t] \in CheckRecord /\ CheckSound(check[t], seat[t])
  BY OfOne
<1>2. /\ phase = "match" /\ check[t].step = "verifying"
      /\ UNCHANGED <<guest, seat, faults, match>>
  BY DEF Verify
<1>3. m \in Names
  BY <1>1, <1>2 DEF CheckSound
<1>4. PICK exit \in {"success", "failure", "timeout"}, left \in {"nothing", "invalid", "valid"} :
        LET there == CASE left = "nothing" -> check[t].evidence
                       [] left = "invalid" -> check[t].evidence \ {m}
                       [] left = "valid" -> check[t].evidence \union {m}
        IN SetCheck(t, [check[t] EXCEPT
                          !.step = "idle", !.milestone = None, !.booted = FALSE,
                          !.evidence = there,
                          !.passed = IF exit = "success" THEN @ \union ({m} \intersect there)
                                     ELSE @])
  BY DEF Verify
<1> DEFINE there == CASE left = "nothing" -> check[t].evidence
                      [] left = "invalid" -> check[t].evidence \ {m}
                      [] left = "valid" -> check[t].evidence \union {m}
           passed == IF exit = "success" THEN check[t].passed \union ({m} \intersect there)
                     ELSE check[t].passed
           c == [check[t] EXCEPT !.step = "idle", !.milestone = None, !.booted = FALSE,
                                 !.evidence = there, !.passed = passed]
<1>5. SetCheck(t, c)
  BY <1>4
<1>6. there \in SUBSET Names
  <2>1. there \in {check[t].evidence, check[t].evidence \ {m}, check[t].evidence \union {m}}
    OBVIOUS
  <2> HIDE DEF there
  <2> QED
    BY <1>1, <1>3, <2>1 DEF CheckRecord
<1> HIDE DEF there
<1>7. passed \in SUBSET Names
  BY <1>1, <1>3, <1>6 DEF CheckRecord
<1> HIDE DEF passed
<1>8. c \in CheckRecord /\ c.step = "idle"
  BY <1>1, <1>6, <1>7 DEF CheckRecord
<1> HIDE DEF c
<1>9. CheckSound(c, seat[t])
  BY <1>8 DEF CheckSound
<1> QED
  BY <1>2, <1>5, <1>8, <1>9, OnlyCheck

-----------------------------------------------------------------------------
(* The run around the match. *)

LEMMA AllIdleSound ==
  /\ AllIdle \in [Ids -> CheckRecord]
  /\ \A t \in Ids : AllIdle[t].step = "idle"
<1>1. Idle \in CheckRecord /\ Idle.step = "idle"
  BY DEF Idle, CheckRecord
<1> QED
  BY <1>1 DEF AllIdle

(* A step of the run that touches no guest keeps what is sound in each     *)
(* territory: it remains to look at the phase.                             *)
LEMMA RunOnly ==
  ASSUME IInv, UNCHANGED <<guest, manifest, leak>>, faults \subseteq faults',
         \/ UNCHANGED seat
         \/ seat' = [t \in Ids |-> Dropped(seat[t])],
         check' = check \/ check' = AllIdle,
         phase' \in Phases, PhaseOK', AuditOK'
  PROVE  IInv'
<1>1. /\ guest \in [Ids -> GuestStates] /\ seat \in [Ids -> SeatRecord]
      /\ check \in [Ids -> CheckRecord]
  BY DEF IInv, TypeOK
<1>2. /\ seat' \in [Ids -> SeatRecord]
      /\ \A t \in Ids : /\ Sound(t, seat'[t], guest[t], faults')
                        /\ seat'[t].marker = seat[t].marker
  <2>1. \A t \in Ids : seat[t] \in SeatRecord /\ Sound(t, seat[t], guest[t], faults')
    BY OfOne, FaultsGrow
  <2>2. CASE UNCHANGED seat
    BY <1>1, <2>1, <2>2
  <2>3. CASE seat' = [t \in Ids |-> Dropped(seat[t])]
    BY <2>1, <2>3, DroppedSound
  <2> QED
    BY <2>2, <2>3
<1>3. /\ check' \in [Ids -> CheckRecord]
      /\ \A t \in Ids : CheckSound(check'[t], seat'[t])
  <2>1. CASE check' = check
    BY <1>1, <1>2, <2>1, OfOne DEF CheckSound
  <2>2. CASE check' = AllIdle
    BY <2>2, AllIdleSound DEF CheckSound
  <2> QED
    BY <2>1, <2>2
<1>4. TypeOK'
  BY <1>1, <1>2, <1>3, ArenaKept DEF TypeOK
<1>5. \A t \in Ids : CheckSound(check[t], seat[t])'
  BY <1>3, ArenaKept DEF CheckSound
<1>6. \A t \in Ids : Sound(t, seat'[t], guest'[t], faults')
  BY <1>2
<1> QED
  BY <1>4, <1>5, <1>6 DEF IInv

(* Before the match nothing is spawned, so that giving up leaves nothing. *)
LEMMA NothingYet ==
  ASSUME IInv, phase \in Before
  PROVE  \A t \in Ids : seat[t].run = "none" /\ ~seat[t].children
BY OfOne DEF IInv, PhaseOK, Sound

LEMMA LoadKeeps ==
  ASSUME IInv, Load
  PROVE  IInv'
<1>1. /\ phase = "load"
      /\ \/ phase' = "exited"
         \/ phase' = "boot" /\ Errors(manifest) = {}
  <2>1. PICK wrong \in {Errors(manifest)}, answered \in BOOLEAN :
          LET refused == IF wrong # {} THEN "manifest"
                         ELSE IF AdaptersKnown /\ Preflight(answered)
                                 /\ PortsFit(Len(manifest.territories)) THEN None
                         ELSE "start"
          IN phase' = IF refused = None THEN "boot" ELSE "exited"
    BY DEF Load
  <2>2. CASE wrong # {}
    BY <2>1, <2>2, HostAssumption DEF Load
  <2>3. CASE wrong = {}
    <3>1. phase' \in {"boot", "exited"}
      BY <2>1
    <3> QED
      BY <2>3, <3>1 DEF Load
  <2> QED
    BY <2>2, <2>3
<1>2. UNCHANGED <<guest, seat, late, faults, manifest, leak, audited, stuck, check>>
  BY DEF Load, arena
<1>3. PhaseOK'
  BY <1>1, <1>2, NothingYet, ArenaKept DEF IInv, PhaseOK, Before, Alive
<1>4. AuditOK'
  BY <1>1, <1>2, ArenaKept DEF IInv, AuditOK
<1> QED
  BY <1>1, <1>2, <1>3, <1>4, RunOnly DEF Phases, Before

LEMMA BootAllKeeps ==
  ASSUME IInv, BootAll
  PROVE  IInv'
<1>1. /\ phase = "boot"
      /\ \/ phase' = "teardown"
         \/ phase' = "ready"
  BY DEF BootAll
<1>2. UNCHANGED <<guest, seat, late, faults, manifest, leak, audited, stuck, check>>
  BY DEF BootAll, arena
<1>3. PhaseOK'
  BY <1>1, <1>2, NothingYet, ArenaKept DEF IInv, PhaseOK, Before
<1>4. AuditOK'
  BY <1>1, <1>2, ArenaKept DEF IInv, AuditOK
<1> QED
  BY <1>1, <1>2, <1>3, <1>4, RunOnly DEF Phases, Before

LEMMA WaitForSshKeeps ==
  ASSUME IInv, WaitForSsh
  PROVE  IInv'
<1>1. phase = "ready" /\ phase' \in {"audit", "teardown"}
  BY DEF WaitForSsh, GiveUp
<1>2. UNCHANGED <<guest, seat, late, faults, manifest, leak, audited, stuck, check>>
  BY DEF WaitForSsh, arena
<1>3. PhaseOK'
  BY <1>1, <1>2, NothingYet, ArenaKept DEF IInv, PhaseOK, Before
<1>4. AuditOK'
  BY <1>1, <1>2, ArenaKept DEF IInv, AuditOK
<1> QED
  BY <1>1, <1>2, <1>3, <1>4, RunOnly DEF Phases, Before

(* What is marked as audited was searched for, and was not there. *)
LEMMA AuditKeeps ==
  ASSUME IInv, NEW t, NEW text, Audit(t, text)
  PROVE  IInv'
<1>1. phase = "audit" /\ phase' \in {"audit", "teardown"}
  BY DEF Audit, GiveUp
<1>2. UNCHANGED <<guest, seat, late, faults, manifest, leak, stuck, check>>
  BY DEF Audit
<1>3. PhaseOK'
  BY <1>1, <1>2, NothingYet, ArenaKept DEF IInv, PhaseOK, Before
<1>4. \/ audited' = audited
      \/ <<t, text>> \notin leak /\ audited' = audited \union {<<t, text>>}
  BY DEF Audit, FoundClean
<1>5. AuditOK'
  BY <1>1, <1>2, <1>4, ArenaKept DEF IInv, AuditOK
<1> QED
  BY <1>1, <1>2, <1>3, <1>5, RunOnly DEF Phases, Before

(* The match starts once all that is forbidden has been searched for. *)
LEMMA StartMatchKeeps ==
  ASSUME IInv, StartMatch
  PROVE  IInv'
<1>1. phase = "audit" /\ phase' \in {"match", "teardown"} /\ Forbidden \subseteq audited
  BY DEF StartMatch, GiveUp
<1>2. UNCHANGED <<guest, seat, late, faults, manifest, leak, audited, stuck, check>>
  BY DEF StartMatch, arena
<1>3. PhaseOK'
  BY <1>1, <1>2, NothingYet, ArenaKept DEF IInv, PhaseOK, Before
<1>4. leak = {}
  BY <1>1 DEF IInv, AuditOK
<1>5. AuditOK'
  BY <1>2, <1>4, ArenaKept DEF IInv, AuditOK
<1> QED
  BY <1>1, <1>2, <1>3, <1>5, RunOnly DEF Phases, Before

(* The match is left, for the drain or, by an error, at once. *)
LEMMA MatchLeft ==
  ASSUME IInv, phase = "match", phase' = "drain" \/ (phase' = "teardown" /\ error' = "match"),
         check' = AllIdle,
         UNCHANGED <<guest, seat, late, arena, stuck>>, faults \subseteq faults'
  PROVE  IInv'
<1>1. UNCHANGED <<guest, seat, manifest, leak, audited, stuck>>
  BY DEF arena
<1>2. PhaseOK'
  BY <1>1, AllIdleSound DEF PhaseOK, Before
<1>3. AuditOK'
  BY <1>1, ArenaKept DEF IInv, AuditOK
<1> QED
  BY <1>1, <1>2, <1>3, RunOnly DEF Phases

LEMMA FinishKeeps ==
  ASSUME IInv, Finish
  PROVE  IInv'
BY MatchLeft DEF Finish

LEMMA LeaveKeeps ==
  ASSUME IInv, LostInReboot \/ Abort
  PROVE  IInv'
<1>1. Leave /\ faults \subseteq faults'
  BY DEF LostInReboot, Abort, Accident
<1> QED
  BY <1>1, MatchLeft DEF Leave

LEMMA TimeIsUpKeeps ==
  ASSUME IInv, TimeIsUp
  PROVE  IInv'
<1>1. UNCHANGED <<guest, seat, faults, manifest, leak, audited, phase, error, stuck, check>>
  BY DEF TimeIsUp, match, arena
<1>2. PhaseOK'
  BY <1>1, ArenaKept DEF IInv, PhaseOK
<1>3. AuditOK'
  BY <1>1, ArenaKept DEF IInv, AuditOK
<1> QED
  BY <1>1, <1>2, <1>3, RunOnly DEF IInv, TypeOK

(* A seat that is dropped has no children, and did not start by that. *)
LEMMA DropAll ==
  ASSUME IInv, seat' = [t \in Ids |-> Dropped(seat[t])]
  PROVE  \A t \in Ids : ~seat'[t].children /\ (seat'[t].run = "none" <=> seat[t].run = "none")
<1> SUFFICES ASSUME NEW t \in Ids
             PROVE  ~seat'[t].children /\ (seat'[t].run = "none" <=> seat[t].run = "none")
  OBVIOUS
<1> QED
  BY OfOne, DroppedSound

LEMMA DrainKeeps ==
  ASSUME IInv, Drain
  PROVE  IInv'
<1>1. phase = "drain" /\ phase' = "teardown" /\ seat' = [t \in Ids |-> Dropped(seat[t])]
  BY DEF Drain
<1>2. UNCHANGED <<guest, late, faults, manifest, leak, audited, error, stuck, check>>
  BY DEF Drain, arena
<1>3. PhaseOK'
  BY <1>1, <1>2, DropAll DEF IInv, PhaseOK, Before
<1>4. AuditOK'
  BY <1>1, <1>2, DropAll, ArenaKept DEF IInv, AuditOK
<1> QED
  BY <1>1, <1>2, <1>3, <1>4, RunOnly DEF Phases

(* Every guest that was not stopped was held, and is stuck; and a seat     *)
(* that is still played was detached by an error of the match.             *)
LEMMA ExitKeeps ==
  ASSUME IInv, Exit
  PROVE  IInv'
<1>1. /\ phase = "teardown" /\ phase' = "exited" /\ Held = {}
      /\ error' = IF error = None /\ stuck # {} THEN "stop" ELSE error
      /\ seat' = IF error' = None THEN [t \in Ids |-> Dropped(seat[t])] ELSE seat
  BY DEF Exit
<1>2. UNCHANGED <<guest, late, faults, manifest, leak, audited, stuck, check>>
  BY DEF Exit, arena
<1>3. \A t \in Ids : guest[t] \in Alive => t \in stuck /\ error' # None
  BY <1>1, HostAssumption DEF Held, Alive
<1>4. \A t \in Ids : /\ seat'[t].children => error' = "match"
                     /\ seat'[t].run # "none" => seat[t].run # "none"
  <2>1. \A t \in Ids : seat[t].children => error = "match"
    BY <1>1 DEF IInv, PhaseOK
  <2>2. error = "match" => error' = "match"
    BY <1>1, HostAssumption
  <2>3. CASE error' = None
    BY <1>1, <2>3, DropAll
  <2>4. CASE error' # None
    BY <1>1, <2>1, <2>2, <2>4
  <2> QED
    BY <2>3, <2>4
<1>5. PhaseOK'
  BY <1>1, <1>2, <1>3, <1>4 DEF IInv, PhaseOK, Before
<1>6. AuditOK'
  BY <1>1, <1>2, <1>4, ArenaKept DEF IInv, AuditOK
<1>7. UNCHANGED seat \/ seat' = [t \in Ids |-> Dropped(seat[t])]
  BY <1>1
<1> QED
  BY <1>1, <1>2, <1>5, <1>6, <1>7, RunOnly DEF Phases

(* A guest that boots is up or has failed while no seat is played. *)
LEMMA BootKeeps ==
  ASSUME IInv, NEW t \in Ids, Boot(t)
  PROVE  IInv'
<1>1. PICK g \in {"up", "failed"} : guest' = [guest EXCEPT ![t] = g]
  BY DEF Boot
<1>2. /\ phase = "boot"
      /\ UNCHANGED <<seat, late, faults, manifest, leak, audited, phase, error, stuck, check>>
  BY DEF Boot, match, arena
<1>3. /\ guest \in [Ids -> GuestStates] /\ guest' \in [Ids -> GuestStates]
      /\ \A u \in Ids : guest'[u] = IF u = t THEN g ELSE guest[u]
  BY <1>1 DEF IInv, TypeOK, GuestStates
<1>4. TypeOK'
  BY <1>2, <1>3, ArenaKept DEF IInv, TypeOK
<1>5. PhaseOK'
  BY <1>2, <1>3, ArenaKept DEF IInv, PhaseOK
<1>6. AuditOK'
  BY <1>2, ArenaKept DEF IInv, AuditOK
<1>7. ASSUME NEW u \in Ids PROVE Sound(u, seat[u], guest[u], faults)'
  <2>1. Sound(u, seat[u], guest[u], faults) /\ seat[u].run = "none" /\ seat[u] \in SeatRecord
    BY <1>2, OfOne DEF IInv, PhaseOK, Before
  <2> QED
    BY <1>2, <1>3, <2>1 DEF Sound
<1>8. ASSUME NEW u \in Ids PROVE CheckSound(check[u], seat[u])'
  <2>1. check[u].step = "idle"
    BY <1>2 DEF IInv, PhaseOK
  <2> QED
    BY <1>2, <2>1 DEF CheckSound
<1> QED
  BY <1>4, <1>5, <1>6, <1>7, <1>8 DEF IInv

(* A guest is stopped, or is known not to have stopped. *)
LEMMA StopKeeps ==
  ASSUME IInv, NEW t \in Ids, Stop(t)
  PROVE  IInv'
<1>1. /\ phase = "teardown" /\ guest[t] \notin {"off", "failed"}
      /\ UNCHANGED <<late, manifest, leak, audited, phase, error, check>>
      /\ faults \subseteq faults'
  BY DEF Stop, Held, Accident, arena
<1>2. \/ guest' = [guest EXCEPT ![t] = "off"] /\ Ended(t, "lost", FALSE)
      \/ UNCHANGED <<guest, seat>>
  BY DEF Stop
<1>3. /\ guest \in [Ids -> GuestStates] /\ seat \in [Ids -> SeatRecord]
      /\ check \in [Ids -> CheckRecord]
  BY DEF IInv, TypeOK
<1>4. /\ guest' \in [Ids -> GuestStates] /\ seat' \in [Ids -> SeatRecord]
      /\ \A u \in Ids : /\ Sound(u, seat'[u], guest'[u], faults')
                        /\ seat'[u].run = seat[u].run
                        /\ seat'[u].children = seat[u].children
  <2>1. \A u \in Ids : Sound(u, seat[u], guest[u], faults')
    BY <1>1, OfOne, FaultsGrow
  <2>2. CASE UNCHANGED <<guest, seat>>
    BY <1>3, <2>1, <2>2
  <2>3. CASE guest' = [guest EXCEPT ![t] = "off"] /\ Ended(t, "lost", FALSE)
    <3>1. /\ guest' \in [Ids -> GuestStates] /\ guest'[t] = "off"
          /\ \A u \in Ids \ {t} : guest'[u] = guest[u]
      BY <1>3, <2>3 DEF GuestStates
    <3>2. /\ seat' \in [Ids -> SeatRecord]
          /\ \A u \in Ids \ {t} : seat'[u] = seat[u]
          /\ Sound(t, seat'[t], "off", faults')
          /\ seat'[t].run = seat[t].run /\ seat'[t].children = seat[t].children
      BY <1>1, <2>3, EndedSound DEF GuestStates
    <3> QED
      BY <1>1, <2>1, <3>1, <3>2
  <2> QED
    BY <1>2, <2>2, <2>3
<1>5. TypeOK'
  BY <1>1, <1>3, <1>4, ArenaKept DEF IInv, TypeOK
<1>6. PhaseOK'
  BY <1>1, <1>4 DEF IInv, PhaseOK, Before
<1>7. AuditOK'
  BY <1>1, <1>4, ArenaKept DEF IInv, AuditOK
<1>8. ASSUME NEW u \in Ids PROVE CheckSound(check[u], seat[u])'
  <2>1. check[u].step = "idle"
    BY <1>1 DEF IInv, PhaseOK
  <2> QED
    BY <1>1, <2>1 DEF CheckSound
<1> QED
  BY <1>1, <1>4, <1>5, <1>6, <1>7, <1>8 DEF IInv

-----------------------------------------------------------------------------
LEMMA IInvInit ==
  Init => IInv
<1> SUFFICES ASSUME Init PROVE IInv
  OBVIOUS
<1>1. EmptySeat \in SeatRecord
  BY DEF EmptySeat, SeatRecord, AdapterStates, NoEvents, Events
<1>2. Idle \in CheckRecord /\ Idle.step = "idle"
  BY DEF Idle, CheckRecord
<1>3. \A t \in Ids : seat[t] = EmptySeat /\ guest[t] = "off" /\ check[t] = Idle
  BY DEF Init
<1>4. TypeOK
  BY <1>1, <1>2 DEF Init, TypeOK, GuestStates, Phases, Before
<1>5. PhaseOK
  BY <1>2, <1>3 DEF Init, PhaseOK, EmptySeat
<1>6. AuditOK
  BY <1>3 DEF Init, AuditOK, EmptySeat
<1>7. ASSUME NEW t \in Ids PROVE Sound(t, seat[t], guest[t], faults)
  BY <1>3 DEF Sound, EmptySeat
<1>8. ASSUME NEW t \in Ids PROVE CheckSound(check[t], seat[t])
  BY <1>2, <1>3 DEF CheckSound
<1> QED
  BY <1>4, <1>5, <1>6, <1>7, <1>8 DEF IInv

LEMMA IInvNext ==
  IInv /\ [Next]_vars => IInv'
<1> SUFFICES ASSUME IInv, [Next]_vars PROVE IInv'
  OBVIOUS
<1>1. CASE RunStep
  BY <1>1, LoadKeeps, BootAllKeeps, WaitForSshKeeps, AuditKeeps, StartMatchKeeps,
     FinishKeeps, DrainKeeps, ExitKeeps, TimeIsUpKeeps DEF RunStep
<1>2. CASE TeardownStep
  BY <1>2, BootKeeps, StopKeeps DEF TeardownStep
<1>3. CASE LostInReboot \/ Abort
  BY <1>3, LeaveKeeps
<1>4. ASSUME NEW t \in Seated, ControllerStep(t) PROVE IInv'
  <2>1. t \in Ids
    BY HostAssumption
  <2> QED
    BY <1>4, <2>1, SpawnKeeps, ReapKeeps, ExpireKeeps, TimeoutKeeps, BeginCheckKeeps,
       AskRebootKeeps, SeeKeeps, VerifyKeeps DEF ControllerStep
<1>5. ASSUME NEW t \in Seated, AdapterStep(t) PROVE IInv'
  <2>1. t \in Ids
    BY HostAssumption
  <2> QED
    BY <1>5, <2>1, SetupDoneKeeps, SetupFailsKeeps, CollectKeeps, NoticeKeeps, WaitKeeps,
       CloseKeeps
    DEF AdapterStep
<1>6. ASSUME NEW t \in Seated, GuestStep(t) PROVE IInv'
  <2>1. t \in Ids
    BY HostAssumption
  <2> QED
    BY <1>6, <2>1, WorkKeeps, GoesDownKeeps, ComesUpKeeps DEF GuestStep
<1>7. ASSUME NEW t \in Seated, AccidentStep(t) PROVE IInv'
  <2>1. t \in Ids
    BY HostAssumption
  <2> QED
    BY <1>7, <2>1, DisconnectsKeeps, RebootsItselfKeeps, LostKeeps, AdapterDiesKeeps,
       AdapterBreaksKeeps DEF AccidentStep
<1>8. CASE UNCHANGED vars
  <2>1. UNCHANGED <<guest, seat, late, faults, manifest, leak, audited, phase, error, stuck, check>>
    BY <1>8 DEF vars
  <2>2. PhaseOK'
    BY <2>1, ArenaKept DEF IInv, PhaseOK
  <2>3. AuditOK'
    BY <2>1, ArenaKept DEF IInv, AuditOK
  <2> QED
    BY <2>1, <2>2, <2>3, RunOnly DEF IInv, TypeOK
<1> QED
  BY <1>1, <1>2, <1>3, <1>4, <1>5, <1>6, <1>7, <1>8 DEF Next

(* The inductive invariant, for every instance. *)
LEMMA IInvHolds ==
  Spec => []IInv
BY IInvInit, IInvNext, PTL DEF Spec

-----------------------------------------------------------------------------
(* Whatever the manifest, the audits and the accidents, no seat is played  *)
(* while the image of a territory has a forbidden string in it             *)
(* (runner.rs:1075-1140).                                                  *)
THEOREM NothingLeaksHolds == Spec => []NothingLeaks
<1>1. IInv => NothingLeaks
  BY DEF IInv, AuditOK, NothingLeaks
<1> QED
  BY <1>1, IInvHolds, PTL

(* However a run of run_match ends, what is left running is what could not *)
(* be stopped, and then there is an error (supervisor.rs:98-110).          *)
THEOREM NoGuestLeftHolds == Spec => []NoGuestLeft
<1>1. IInv => NoGuestLeft
  BY DEF IInv, PhaseOK, NoGuestLeft, Running, Alive
<1> QED
  BY <1>1, IInvHolds, PTL

(* No process of an adapter's group outlives the task that waits for it,   *)
(* nor the controller, unless an error of the match has detached the task: *)
(* a timeout, a death of the adapter, a drain and a plain end all kill the *)
(* group (command.rs:11-27, 120-158; runner.rs:527, 604-607).              *)
THEOREM NoChildOutlivesHolds == Spec => []NoChildOutlives
<1>1. IInv => NoChildOutlives
  BY DEF IInv, PhaseOK, Sound, NoChildOutlives
<1> QED
  BY <1>1, IInvHolds, PTL

(* In whatever order a reboot, the events of the agent, the end of its     *)
(* session, the adapter's wait, a break and a timeout come, a session the  *)
(* referee cut is interrupted, late, over budget or what its own stream    *)
(* says, except by a harness that broke and by claux.sh (runner.rs:413-420,*)
(* opencode_adapter.py:97-139, term_llm_adapter.py:68-88,                  *)
(* claux.sh:286-434).                                                      *)
THEOREM RebootIsNotBlamedHolds == Spec => []RebootIsNotBlamed
<1>1. ASSUME IInv PROVE RebootIsNotBlamed
  <2>1. \A t \in Ids : Reported(t) => Blameless(t, seat[t], seat[t].report.status, faults)
    BY <1>1, OfOne DEF Sound, Reported
  <2> QED
    BY <2>1 DEF RebootIsNotBlamed, Blameless
<1> QED
  BY <1>1, IInvHolds, PTL

(* Whatever an adapter has left when its time is up, before, while or      *)
(* after it is killed, is in the report of its seat (command.rs:127-158).  *)
THEOREM LateAnswerCountsHolds == Spec => []LateAnswerCounts
<1>1. IInv => LateAnswerCounts
  BY DEF IInv, Sound, LateAnswerCounts, Reported
<1> QED
  BY <1>1, IInvHolds, PTL

-----------------------------------------------------------------------------
(* The validation of the milestones.  Each of the two searches is reduced  *)
(* to sets of milestones that wait for each other: milestone_has_cycle     *)
(* finds one just when there is one, and as many turns as there are        *)
(* milestones pass all of them just when there is none.                    *)

LEMMA Least ==
  ASSUME NEW T \in SUBSET Nat, T # {}
  PROVE  \E x \in T : \A y \in T : x <= y
<1>1. PICK x \in T : \A y \in T : ~(<<y, x>> \in OpToRel(<, Nat))
  BY NatLessThanWellFounded, WFMin
<1>2. ASSUME NEW y \in T, ~(x <= y) PROVE FALSE
  <2>1. y < x /\ y \in Nat /\ x \in Nat
    BY <1>2
  <2>2. <<y, x>> \in OpToRel(<, Nat)
    BY <2>1 DEF OpToRel
  <2> QED BY <1>1, <2>2
<1> QED BY <1>2

LEMMA SetInduction ==
  ASSUME NEW S, 0 \in S, \A n \in Nat : n \in S => n + 1 \in S
  PROVE  \A n \in Nat : n \in S
<1> SUFFICES ASSUME NEW n \in Nat, n \notin S PROVE FALSE
  OBVIOUS
<1> DEFINE T == {k \in Nat : k \notin S}
<1>1. PICK x \in T : \A y \in T : x <= y
  BY Least
<1>2. x \in Nat /\ x # 0 /\ x \notin S
  BY <1>1
<1>3. x - 1 \in Nat /\ x - 1 \notin T
  BY <1>1, <1>2
<1> QED BY <1>2, <1>3

(* The milestones a graph of dependencies names.                           *)
NamedIn(depends) == DOMAIN depends \union UNION {depends[id] : id \in DOMAIN depends}

(* milestone_has_cycle at a milestone, f being what it answers further on. *)
Visit(depends, f, visiting, id) ==
  \/ id \in visiting
  \/ id \in DOMAIN depends /\ \E d \in depends[id] : f[visiting \union {id}][d]

Searches(depends, f) ==
  f = [visiting \in SUBSET NamedIn(depends) |->
        [id \in NamedIn(depends) |-> Visit(depends, f, visiting, id)]]

(* Whoever is in a knot waits for another one of it, or for the path.      *)
Knot(depends, knot, visiting) ==
  \A id \in knot : \/ id \in visiting
                   \/ id \in DOMAIN depends /\ depends[id] \cap knot # {}

(* The search finds whatever is in such a knot.                            *)
Answer(depends) ==
  [visiting \in SUBSET NamedIn(depends) |->
    [id \in NamedIn(depends) |->
       \E knot \in SUBSET NamedIn(depends) : id \in knot /\ Knot(depends, knot, visiting)]]

LEMMA SearchStep ==
  ASSUME NEW depends, NEW f, Searches(depends, f),
         NEW v \in SUBSET NamedIn(depends), NEW id \in NamedIn(depends)
  PROVE  f[v][id] = Visit(depends, f, v, id)
<1> DEFINE F == [x \in SUBSET NamedIn(depends) |->
                  [i \in NamedIn(depends) |-> Visit(depends, f, x, i)]]
<1>1. f = F
  BY DEF Searches
<1>2. F[v][id] = Visit(depends, f, v, id)
  OBVIOUS
<1> HIDE DEF F
<1> QED BY <1>1, <1>2

LEMMA AnswerSearches ==
  ASSUME NEW depends
  PROVE  Searches(depends, Answer(depends))
<1> DEFINE named == NamedIn(depends)
           Found(id, v) == \E knot \in SUBSET named : id \in knot /\ Knot(depends, knot, v)
           Turn(id, v) == \/ id \in v
                          \/ id \in DOMAIN depends /\ \E d \in depends[id] : Found(d, v \union {id})
<1>1. ASSUME NEW id \in DOMAIN depends PROVE depends[id] \subseteq named /\ id \in named
  BY DEF NamedIn
<1>2. ASSUME NEW v \in SUBSET named, NEW id \in named PROVE Found(id, v) <=> Turn(id, v)
  <2>1. ASSUME Found(id, v), id \notin v
        PROVE  id \in DOMAIN depends /\ \E d \in depends[id] : Found(d, v \union {id})
    <3>1. PICK knot \in SUBSET named : id \in knot /\ Knot(depends, knot, v)
      BY <2>1
    <3>2. id \in DOMAIN depends /\ depends[id] \cap knot # {}
      BY <2>1, <3>1 DEF Knot
    <3>3. Knot(depends, knot, v \union {id})
      BY <3>1 DEF Knot
    <3> QED BY <3>2, <3>3
  <2>2. ASSUME id \in v PROVE Found(id, v)
    <3>1. {id} \in SUBSET named /\ id \in {id} /\ Knot(depends, {id}, v)
      BY <2>2 DEF Knot
    <3> QED BY <3>1
  <2>3. ASSUME id \in DOMAIN depends, NEW d \in depends[id], Found(d, v \union {id})
        PROVE  Found(id, v)
    <3>1. PICK knot \in SUBSET named : d \in knot /\ Knot(depends, knot, v \union {id})
      BY <2>3
    <3>2. Knot(depends, knot \union {id}, v)
      BY <2>3, <3>1 DEF Knot
    <3>3. knot \union {id} \in SUBSET named
      OBVIOUS
    <3> QED BY <3>2, <3>3
  <2> QED BY <2>1, <2>2, <2>3
<1>3. ASSUME NEW v \in SUBSET named, NEW id \in DOMAIN depends, NEW d \in depends[id]
      PROVE  Answer(depends)[v \union {id}][d] = Found(d, v \union {id})
  <2>1. v \union {id} \in SUBSET named /\ d \in named
    BY <1>1
  <2> QED BY <2>1 DEF Answer
<1>4. ASSUME NEW v \in SUBSET named, NEW id \in named
      PROVE  Found(id, v) = Visit(depends, Answer(depends), v, id)
  BY <1>2, <1>3 DEF Visit
<1>5. Answer(depends) = [v \in SUBSET named |-> [id \in named |-> Found(id, v)]]
  BY DEF Answer
<1> HIDE DEF Found, Turn, named
<1>6. [v \in SUBSET named |-> [id \in named |-> Found(id, v)]]
        = [v \in SUBSET named |->
            [id \in named |-> Visit(depends, Answer(depends), v, id)]]
  BY <1>4
<1> QED BY <1>5, <1>6 DEF Searches, named

LEMMA OneAnswer ==
  ASSUME NEW depends, IsFiniteSet(NamedIn(depends)),
         NEW f, Searches(depends, f), NEW g, Searches(depends, g),
         NEW v \in SUBSET NamedIn(depends), NEW i \in NamedIn(depends)
  PROVE  f[v][i] = g[v][i]
<1> SUFFICES ASSUME f[v][i] # g[v][i] PROVE FALSE
  OBVIOUS
<1> DEFINE named == NamedIn(depends)
           Differ(x) == \E id \in named : f[x][id] # g[x][id]
           left == {Cardinality(named \ x) : x \in {y \in SUBSET named : Differ(y)}}
<1>1. ASSUME NEW x \in SUBSET named
      PROVE  IsFiniteSet(named \ x) /\ Cardinality(named \ x) \in Nat
  BY FS_Difference, FS_CardinalityType
<1>2. left \in SUBSET Nat /\ left # {}
  BY <1>1
<1> HIDE DEF left
<1>3. PICK n \in left : \A m \in left : n <= m
  BY <1>2, Least
<1>4. PICK x \in SUBSET named : Differ(x) /\ n = Cardinality(named \ x)
  BY <1>3 DEF left
<1>5. PICK id \in named : f[x][id] # g[x][id]
  BY <1>4
<1>6. f[x][id] = Visit(depends, f, x, id) /\ g[x][id] = Visit(depends, g, x, id)
  <2> HIDE DEF Differ, named
  <2>1. x \in SUBSET NamedIn(depends) /\ id \in NamedIn(depends)
    BY DEF named
  <2> QED BY <2>1, SearchStep
<1>7. id \notin x /\ id \in DOMAIN depends
      /\ \E d \in depends[id] : f[x \union {id}][d] # g[x \union {id}][d]
  BY <1>5, <1>6 DEF Visit
<1>8. depends[id] \subseteq named
  BY <1>7 DEF NamedIn
<1>9. x \union {id} \in SUBSET named /\ Differ(x \union {id})
  BY <1>7, <1>8
<1>10. named \ (x \union {id}) = (named \ x) \ {id} /\ id \in named \ x
  BY <1>7
<1>11. Cardinality(named \ (x \union {id})) = n - 1
  <2> DEFINE rest == named \ x
  <2>1. IsFiniteSet(rest) /\ id \in rest /\ Cardinality(rest) = n
    BY <1>1, <1>4, <1>10
  <2> HIDE DEF rest
  <2>2. Cardinality(rest \ {id}) = n - 1
    BY <2>1, FS_RemoveElement
  <2> QED BY <1>10, <2>2 DEF rest
<1>12. n - 1 \in left
  BY <1>9, <1>11 DEF left
<1> QED BY <1>2, <1>3, <1>12

(* The search reports a cycle just when some milestones wait for each other. *)
LEMMA HasCycleIs ==
  ASSUME NEW depends, IsFiniteSet(NamedIn(depends))
  PROVE  HasCycle(depends)
           <=> \E knot \in SUBSET DOMAIN depends :
                 knot # {} /\ \A id \in knot : depends[id] \cap knot # {}
<1> DEFINE named == NamedIn(depends)
<1>1. PICK f : Searches(depends, f)
                 /\ (HasCycle(depends) <=> \E id \in DOMAIN depends : f[{}][id])
  <2> DEFINE f == CHOOSE f : Searches(depends, f)
  <2>1. Searches(depends, f)
    BY AnswerSearches
  <2>2. HasCycle(depends) <=> \E id \in DOMAIN depends : f[{}][id]
    BY DEF HasCycle, Searches, Visit, NamedIn
  <2> QED BY <2>1, <2>2
<1>2. ASSUME NEW id \in DOMAIN depends
      PROVE  f[{}][id] = \E knot \in SUBSET named : id \in knot /\ Knot(depends, knot, {})
  <2>1. id \in named /\ {} \in SUBSET named
    BY DEF NamedIn
  <2>2. f[{}][id] = Answer(depends)[{}][id]
    BY <1>1, <2>1, OneAnswer, AnswerSearches
  <2> QED BY <2>1, <2>2 DEF Answer
<1>3. ASSUME NEW id \in DOMAIN depends, NEW knot \in SUBSET named, id \in knot, Knot(depends, knot, {})
      PROVE  knot \in SUBSET DOMAIN depends /\ \A k \in knot : depends[k] \cap knot # {}
  BY <1>3 DEF Knot
<1>4. ASSUME NEW knot \in SUBSET DOMAIN depends, NEW id \in knot,
             \A k \in knot : depends[k] \cap knot # {}
      PROVE  knot \in SUBSET named /\ Knot(depends, knot, {})
  BY <1>4 DEF Knot, NamedIn
<1> QED BY <1>1, <1>2, <1>3, <1>4

-----------------------------------------------------------------------------
Step(depends, passed) ==
  passed \union {id \in DOMAIN depends : depends[id] \subseteq passed}

(* p[k] are the milestones that can be passed in k turns.                  *)
Passes(depends, p, n) ==
  p = [k \in 0..n |-> IF k = 0 THEN {} ELSE Step(depends, p[k - 1])]

LEMMA PassesExist ==
  ASSUME NEW depends
  PROVE  \A n \in Nat : \E p : Passes(depends, p, n)
<1> DEFINE S == {n \in Nat : \E p : Passes(depends, p, n)}
<1>1. 0 \in S
  <2>1. Passes(depends, [k \in 0..0 |-> {}], 0)
    BY DEF Passes
  <2> QED BY <2>1
<1>2. ASSUME NEW n \in Nat, n \in S PROVE n + 1 \in S
  <2>1. PICK p : Passes(depends, p, n)
    BY <1>2
  <2> DEFINE q == [k \in 0..n + 1 |-> IF k = n + 1 THEN Step(depends, p[n]) ELSE p[k]]
  <2>2. ASSUME NEW k \in 0..n + 1
        PROVE  q[k] = IF k = 0 THEN {} ELSE Step(depends, q[k - 1])
    <3>1. CASE k = n + 1
      BY <3>1
    <3>2. CASE k \in 0..n
      <4>1. p[k] = IF k = 0 THEN {} ELSE Step(depends, p[k - 1])
        BY <2>1, <3>2 DEF Passes
      <4>2. k # 0 => k - 1 \in 0..n
        BY <3>2
      <4> QED BY <3>2, <4>1, <4>2
    <3> QED BY <3>1, <3>2
  <2>3. q = [k \in 0..n + 1 |-> q[k]]
    OBVIOUS
  <2> HIDE DEF q
  <2>4. Passes(depends, q, n + 1)
    BY <2>2, <2>3 DEF Passes
  <2> QED BY <2>4
<1> HIDE DEF S
<1>3. \A n \in Nat : n \in S
  BY <1>1, <1>2, SetInduction
<1> QED BY <1>3 DEF S

LEMMA PassesFacts ==
  ASSUME NEW depends, NEW n \in Nat, NEW p, Passes(depends, p, n)
  PROVE  /\ p[0] = {}
         /\ \A k \in 0..n : p[k] \subseteq DOMAIN depends
         /\ \A k \in 1..n : p[k] = Step(depends, p[k - 1])
<1>1. p[0] = {} /\ \A k \in 1..n : p[k] = Step(depends, p[k - 1])
  BY DEF Passes
<1> DEFINE S == {k \in Nat : k <= n => p[k] \subseteq DOMAIN depends}
<1>2. 0 \in S
  BY <1>1
<1>3. ASSUME NEW k \in Nat, k \in S PROVE k + 1 \in S
  <2>1. ASSUME k + 1 <= n PROVE p[k + 1] \subseteq DOMAIN depends
    <3>1. k + 1 \in 1..n /\ (k + 1) - 1 = k /\ p[k] \subseteq DOMAIN depends
      BY <1>3, <2>1
    <3>2. p[k + 1] = Step(depends, p[k])
      BY <1>1, <3>1
    <3> QED BY <3>1, <3>2 DEF Step
  <2> QED BY <2>1
<1> HIDE DEF S
<1>4. \A k \in Nat : k \in S
  BY <1>2, <1>3, SetInduction
<1> QED BY <1>1, <1>4 DEF S

(* Of milestones that can be passed one waits for none of the others.      *)
LEMMA FirstPassed ==
  ASSUME NEW depends, NEW n \in Nat, NEW p, Passes(depends, p, n),
         NEW knot \in SUBSET p[n], knot # {}
  PROVE  \E id \in knot : depends[id] \subseteq DOMAIN depends /\ depends[id] \cap knot = {}
<1> DEFINE T == {k \in 0..n : knot \cap p[k] # {}}
<1>1. T \in SUBSET Nat /\ n \in T
  OBVIOUS
<1> HIDE DEF T
<1>2. PICK k \in T : \A m \in T : k <= m
  BY <1>1, Least
<1>3. k \in 0..n /\ knot \cap p[k] # {}
  BY DEF T
<1>4. k # 0
  BY <1>3, PassesFacts
<1>5. k - 1 \in 0..n /\ k \in 1..n /\ k - 1 \notin T
  BY <1>1, <1>2, <1>3, <1>4
<1>6. knot \cap p[k - 1] = {}
  BY <1>5 DEF T
<1>7. PICK id \in knot : id \in p[k]
  BY <1>3
<1>8. p[k] = Step(depends, p[k - 1]) /\ p[k - 1] \subseteq DOMAIN depends
  BY <1>5, PassesFacts
<1>9. depends[id] \subseteq p[k - 1]
  BY <1>6, <1>7, <1>8 DEF Step
<1> QED BY <1>6, <1>8, <1>9

(* As many turns as there are milestones pass all that can be passed.      *)
LEMMA PassesEnd ==
  ASSUME NEW depends, IsFiniteSet(DOMAIN depends), NEW n \in Nat, NEW p, Passes(depends, p, n)
  PROVE  Cardinality(p[n]) >= n \/ Step(depends, p[n]) = p[n]
<1> DEFINE S == {k \in Nat : k <= n => \/ Cardinality(p[k]) >= k
                                        \/ Step(depends, p[k]) = p[k]}
<1>1. \A k \in 0..n : /\ p[k] \subseteq DOMAIN depends /\ IsFiniteSet(p[k])
                      /\ Cardinality(p[k]) \in Nat
  BY PassesFacts, FS_Subset, FS_CardinalityType
<1>2. 0 \in S
  <2>1. Cardinality(p[0]) \in Nat
    BY <1>1
  <2> QED BY <2>1
<1>3. ASSUME NEW k \in Nat, k \in S PROVE k + 1 \in S
  <2> SUFFICES ASSUME k + 1 <= n
               PROVE  \/ Cardinality(p[k + 1]) >= k + 1
                      \/ Step(depends, p[k + 1]) = p[k + 1]
    OBVIOUS
  <2>1. k \in 0..n /\ k + 1 \in 0..n /\ k + 1 \in 1..n /\ (k + 1) - 1 = k
    OBVIOUS
  <2>2. p[k + 1] = Step(depends, p[k])
    BY <2>1, PassesFacts
  <2>3. CASE Step(depends, p[k]) = p[k]
    BY <2>2, <2>3
  <2>4. CASE Step(depends, p[k]) # p[k] /\ Cardinality(p[k]) >= k
    <3>1. p[k] \subseteq p[k + 1] /\ p[k] # p[k + 1]
      BY <2>2, <2>4 DEF Step
    <3>2. Cardinality(p[k]) <= Cardinality(p[k + 1])
          /\ Cardinality(p[k]) # Cardinality(p[k + 1])
      BY <1>1, <2>1, <3>1, FS_Subset
    <3> QED BY <1>1, <2>1, <2>4, <3>2
  <2> QED BY <1>3, <2>1, <2>3, <2>4
<1> HIDE DEF S
<1>4. \A k \in Nat : k \in S
  BY <1>2, <1>3, SetInduction
<1>5. n \in S
  BY <1>4
<1> QED BY <1>5 DEF S

LEMMA AllPassableIs ==
  ASSUME NEW depends, IsFiniteSet(DOMAIN depends)
  PROVE  AllPassable(depends)
           <=> \A knot \in SUBSET DOMAIN depends :
                 knot # {} => \E id \in knot : /\ depends[id] \subseteq DOMAIN depends
                                              /\ depends[id] \cap knot = {}
<1> DEFINE known == DOMAIN depends
           n == Cardinality(known)
<1>1. n \in Nat
  BY FS_CardinalityType
<1>2. PICK p : Passes(depends, p, n) /\ (AllPassable(depends) <=> p[n] = known)
  <2> DEFINE p == CHOOSE p : Passes(depends, p, n)
  <2>1. Passes(depends, p, n)
    BY <1>1, PassesExist
  <2>2. AllPassable(depends) <=> p[n] = known
    BY DEF AllPassable, Passes, Step
  <2> QED BY <2>1, <2>2
<1> HIDE DEF n
<1>3. ASSUME AllPassable(depends), NEW knot \in SUBSET known, knot # {}
      PROVE  \E id \in knot : depends[id] \subseteq known /\ depends[id] \cap knot = {}
  BY <1>1, <1>2, <1>3, FirstPassed
<1>4. ASSUME ~AllPassable(depends)
      PROVE  \E knot \in SUBSET known :
               knot # {} /\ \A id \in knot : ~(depends[id] \subseteq known /\ depends[id] \cap knot = {})
  <2> DEFINE left == known \ p[n]
  <2>1. p[n] \subseteq known /\ p[n] # known
    BY <1>1, <1>2, <1>4, PassesFacts
  <2>2. Cardinality(p[n]) < n
    <3>1. /\ Cardinality(p[n]) <= n /\ Cardinality(p[n]) # n
          /\ IsFiniteSet(p[n])
      BY <2>1, FS_Subset DEF n
    <3>2. Cardinality(p[n]) \in Nat
      BY <3>1, FS_CardinalityType
    <3> QED BY <1>1, <3>1, <3>2
  <2>3. Step(depends, p[n]) = p[n]
    <3>1. Cardinality(p[n]) \in Nat
      BY <2>1, FS_Subset, FS_CardinalityType
    <3> QED BY <1>1, <1>2, <2>2, <3>1, PassesEnd
  <2>4. ASSUME NEW id \in left, depends[id] \subseteq known, depends[id] \cap left = {} PROVE FALSE
    BY <2>3, <2>4 DEF Step
  <2>5. left # {} /\ left \in SUBSET known
    BY <2>1
  <2> QED BY <2>4, <2>5
<1> QED BY <1>3, <1>4

(* The depth-first search is right: milestones can be passed one after the *)
(* other just when it finds no cycle and all they depend on is there.      *)
LEMMA SearchIsRight ==
  ASSUME NEW depends, IsFiniteSet(DOMAIN depends),
         \A id \in DOMAIN depends : IsFiniteSet(depends[id])
  PROVE  AllPassable(depends)
           <=> /\ ~HasCycle(depends)
               /\ \A id \in DOMAIN depends : /\ depends[id] \subseteq DOMAIN depends
                                             /\ id \notin depends[id]
<1> DEFINE known == DOMAIN depends
           all == {depends[id] : id \in known}
<1>1. IsFiniteSet(NamedIn(depends))
  <2> DEFINE f == [id \in known |-> depends[id]]
  <2>1. f \in Surjection(known, all)
    BY DEF Surjection
  <2>2. IsFiniteSet(all)
    BY <2>1, FS_Surjection
  <2>3. \A s \in all : IsFiniteSet(s)
    OBVIOUS
  <2> HIDE DEF all
  <2>4. IsFiniteSet(UNION all)
    BY <2>2, <2>3, FS_UNION
  <2>5. IsFiniteSet(known \union UNION all)
    BY <2>4, FS_Union
  <2> QED BY <2>5 DEF NamedIn, all
<1>2. HasCycle(depends)
        <=> \E knot \in SUBSET known : knot # {} /\ \A id \in knot : depends[id] \cap knot # {}
  BY <1>1, HasCycleIs
<1>3. AllPassable(depends)
        <=> \A knot \in SUBSET known :
              knot # {} => \E id \in knot : depends[id] \subseteq known /\ depends[id] \cap knot = {}
  BY AllPassableIs
<1>4. ASSUME AllPassable(depends), NEW id \in known
      PROVE  depends[id] \subseteq known /\ id \notin depends[id]
  <2>1. {id} \in SUBSET known /\ {id} # {}
    OBVIOUS
  <2> QED BY <1>3, <1>4, <2>1
<1> HIDE DEF all
<1> QED BY <1>2, <1>3, <1>4
-----------------------------------------------------------------------------
(* A contract has no error just when it can be played.                     *)
LEMMA DependsFacts ==
  ASSUME NEW ms, ms \in Seq(ToSet(ms)), \A m \in ToSet(ms) : IsFiniteSet(m.depends_on)
  PROVE  /\ DOMAIN DependsOf(ms) = ToSet(IdsOf(ms))
         /\ IsFiniteSet(DOMAIN DependsOf(ms))
         /\ \A id \in DOMAIN DependsOf(ms) : IsFiniteSet(DependsOf(ms)[id])
         /\ Unique(IdsOf(ms)) =>
              \A i \in DOMAIN ms : DependsOf(ms)[ms[i].id] = ms[i].depends_on
<1> DEFINE slots(id) == {k \in DOMAIN ms : ms[k].id = id}
           needs(id) == {ms[i].depends_on : i \in slots(id)}
<1>1. DOMAIN ms = 1..Len(ms) /\ Len(ms) \in Nat /\ IsFiniteSet(DOMAIN ms)
  BY FS_Interval
<1>2. DOMAIN DependsOf(ms) = ToSet(IdsOf(ms))
      /\ \A id \in ToSet(IdsOf(ms)) : DependsOf(ms)[id] = UNION needs(id)
  BY DEF DependsOf
<1>3. IsFiniteSet(ToSet(IdsOf(ms)))
  <2>1. IdsOf(ms) \in Surjection(DOMAIN ms, ToSet(IdsOf(ms)))
    BY DEF Surjection, IdsOf, ToSet
  <2> QED BY <1>1, <2>1, FS_Surjection
<1>4. ASSUME NEW id \in ToSet(IdsOf(ms)) PROVE IsFiniteSet(DependsOf(ms)[id])
  <2> DEFINE f == [i \in slots(id) |-> ms[i].depends_on]
  <2>1. f \in Surjection(slots(id), needs(id))
    BY DEF Surjection
  <2>2. IsFiniteSet(slots(id))
    BY <1>1, FS_Subset
  <2>3. IsFiniteSet(needs(id))
    BY <2>1, <2>2, FS_Surjection
  <2>4. \A s \in needs(id) : IsFiniteSet(s)
    BY DEF ToSet
  <2> HIDE DEF needs
  <2> QED BY <1>2, <2>3, <2>4, FS_UNION
<1>5. ASSUME Unique(IdsOf(ms)), NEW i \in DOMAIN ms
      PROVE  DependsOf(ms)[ms[i].id] = ms[i].depends_on
  <2>1. slots(ms[i].id) = {i}
    BY <1>5 DEF Unique, IdsOf
  <2>2. needs(ms[i].id) = {ms[i].depends_on}
    BY <2>1
  <2>3. ms[i].id \in ToSet(IdsOf(ms))
    BY DEF IdsOf, ToSet
  <2>4. UNION {ms[i].depends_on} = ms[i].depends_on
    OBVIOUS
  <2> HIDE DEF needs
  <2> QED BY <1>2, <2>2, <2>3, <2>4
<1> QED BY <1>2, <1>3, <1>4, <1>5

LEMMA ContractIsRight ==
  ASSUME NEW toml, WellTyped(toml)
  PROVE  ContractErrors(toml) = {} <=> ContractPlayable(toml)
<1>1. CASE toml.build = None
  BY <1>1 DEF ContractErrors, ContractPlayable
<1>2. CASE toml.build # None
  <2> DEFINE build == toml.build
             ms == build.milestones
             ids == ToSet(IdsOf(ms))
             depends == DependsOf(ms)
             Finite == ms \in Seq(ToSet(ms)) /\ \A m \in ToSet(ms) : IsFiniteSet(m.depends_on)
  <2>1. Finite /\ \A i \in DOMAIN ms : {ms[i].timeout, ms[i].points} \subseteq Nat
    BY <1>2 DEF WellTyped, ToSet
  <2>2. ids = {ms[i].id : i \in DOMAIN ms}
    BY DEF IdsOf, ToSet
  <2>3. /\ DOMAIN depends = ids
        /\ Unique(IdsOf(ms)) => \A i \in DOMAIN ms : depends[ms[i].id] = ms[i].depends_on
    BY <2>1, DependsFacts
  <2>4. AllPassable(depends)
          <=> /\ ~HasCycle(depends)
              /\ \A id \in ids : depends[id] \subseteq ids /\ id \notin depends[id]
    <3>1. IsFiniteSet(DOMAIN depends) /\ \A id \in DOMAIN depends : IsFiniteSet(depends[id])
      BY <2>1, DependsFacts
    <3> QED BY <2>3, <3>1, SearchIsRight
  <2>5. Unique(IdsOf(ms)) =>
          ((\A id \in ids : depends[id] \subseteq ids /\ id \notin depends[id])
             <=> \A i \in DOMAIN ms : ms[i].depends_on \subseteq ids /\ ms[i].id \notin ms[i].depends_on)
    BY <2>2, <2>3
  <2>6. ASSUME NEW i \in DOMAIN ms
        PROVE  MilestoneErrors(ms[i], ids, toml.duration) = {}
                 <=> /\ ms[i].timeout \in 1..toml.duration /\ ms[i].points > 0
                     /\ ms[i].depends_on \subseteq ids /\ ms[i].id \notin ms[i].depends_on
    <3>1. ms[i].points > 0 <=> ms[i].points # 0
      BY <2>1
    <3> QED BY <3>1 DEF MilestoneErrors
  <2>7. ContractErrors(toml) = {}
          <=> /\ toml.mode = "build_race"
              /\ Unique(IdsOf(ms))
              /\ ms # <<>>
              /\ \A i \in DOMAIN ms : MilestoneErrors(ms[i], ids, toml.duration) = {}
              /\ ~HasCycle(depends)
              /\ build.completion \in ids
              /\ \A i \in DOMAIN ms : ms[i].id = build.completion => ms[i].required
    <3> DEFINE wrong == UNION {MilestoneErrors(ms[i], ids, toml.duration) : i \in DOMAIN ms}
    <3>1. ContractErrors(toml)
            = UNION { IF toml.mode = "build_race" THEN {} ELSE {"only_build_race"},
                      IF Unique(IdsOf(ms)) THEN {} ELSE {"unique"},
                      IF ms = <<>> THEN {"empty"} ELSE {},
                      wrong,
                      IF HasCycle(depends) THEN {"cycle"} ELSE {},
                      IF build.completion \in ids THEN {} ELSE {"completion"},
                      IF \E i \in DOMAIN ms : ms[i].id = build.completion /\ ~ms[i].required
                      THEN {"optional_completion"} ELSE {} }
      BY <1>2 DEF ContractErrors
    <3>2. wrong = {}
            <=> \A i \in DOMAIN ms : MilestoneErrors(ms[i], ids, toml.duration) = {}
      OBVIOUS
    <3> HIDE DEF wrong, ids, depends, ms, build
    <3> QED BY <3>1, <3>2
  <2>8. ContractPlayable(toml)
          <=> /\ toml.mode = "build_race"
              /\ Unique(IdsOf(ms))
              /\ AllPassable(depends)
              /\ \E i \in DOMAIN ms : ms[i].id = build.completion /\ ms[i].required
              /\ \A i \in DOMAIN ms : ms[i].timeout \in 1..toml.duration /\ ms[i].points > 0
    BY <1>2 DEF ContractPlayable
  <2>9. Unique(IdsOf(ms)) =>
          ((\E i \in DOMAIN ms : ms[i].id = build.completion /\ ms[i].required)
             <=> /\ build.completion \in ids
                 /\ \A i \in DOMAIN ms : ms[i].id = build.completion => ms[i].required)
    BY <2>2 DEF Unique, IdsOf
  <2>10. build.completion \in ids => ms # <<>>
    BY <2>2
  <2> HIDE DEF ids, depends, ms, build
  <2> QED BY <2>4, <2>5, <2>6, <2>7, <2>8, <2>9, <2>10
<1> QED BY <1>1, <1>2

(* Without an error every territory has one agent, and there is no other.  *)
LEMMA SeatsAreRight ==
  ASSUME NEW toml, WellTyped(toml), Errors(toml) = {}
  PROVE  SeatsPlayable(toml)
<1> DEFINE ts == toml.territories
           as == toml.agents
           Of(t) == {i \in DOMAIN as : as[i].territory = t}
           ids == ToSet(IdsOf(ts))
<1>1. /\ DOMAIN ts = 1..Len(ts) /\ Len(ts) \in Nat
      /\ DOMAIN as = 1..Len(as) /\ Len(as) \in Nat
  BY DEF WellTyped
<1>2. Len(ts) >= 2
  BY <1>1 DEF Errors, WellTyped
<1>3. /\ Unique(IdsOf(ts))
      /\ Unique(IdsOf(as))
      /\ \A i \in DOMAIN as : as[i].territory \in ids
      /\ \A t \in ids : Cardinality(Of(t)) = 1
  <2>1. TerritoryErrors(toml) = {} /\ AgentErrors(toml) = {}
    BY DEF Errors
  <2>2. Unique(IdsOf(ts))
    BY <2>1 DEF TerritoryErrors
  <2> QED BY <2>1, <2>2 DEF AgentErrors
<1>4. ids = {ts[i].id : i \in DOMAIN ts}
  BY DEF IdsOf, ToSet
<1>5. \A i, j \in DOMAIN ts : i # j => ts[i].id # ts[j].id
  BY <1>3 DEF Unique, IdsOf
<1>6. \A i, j \in DOMAIN as : i # j => as[i].id # as[j].id
  BY <1>3 DEF Unique, IdsOf
<1>7. \A t \in ids : \E x : Of(t) = {x}
  <2> SUFFICES ASSUME NEW t \in ids PROVE \E x : Of(t) = {x}
    OBVIOUS
  <2>1. IsFiniteSet(DOMAIN as)
    BY <1>1, FS_Interval
  <2>2. IsFiniteSet(Of(t))
    BY <2>1, FS_Subset
  <2> QED BY <1>3, <2>2, FS_Singleton
<1> DEFINE sits == [i \in DOMAIN ts |-> CHOOSE x : Of(ts[i].id) = {x}]
<1>8. \A i \in DOMAIN ts : Of(ts[i].id) = {sits[i]}
  BY <1>4, <1>7
<1> HIDE DEF sits
<1>9. \A i \in DOMAIN ts : sits[i] \in DOMAIN as /\ as[sits[i]].territory = ts[i].id
  <2> SUFFICES ASSUME NEW i \in DOMAIN ts
               PROVE  sits[i] \in DOMAIN as /\ as[sits[i]].territory = ts[i].id
    OBVIOUS
  <2>1. sits[i] \in Of(ts[i].id)
    BY <1>8
  <2> QED BY <2>1
<1>10. sits \in [DOMAIN ts -> DOMAIN as]
  BY <1>9 DEF sits
<1>11. \A i, j \in DOMAIN ts : i # j => sits[i] # sits[j]
  BY <1>5, <1>9
<1>12. Len(ts) = Len(as)
  <2>1. sits \in Injection(DOMAIN ts, DOMAIN as)
    BY <1>10, <1>11 DEF Injection, IsInjective
  <2>2. \A j \in DOMAIN as : \E i \in DOMAIN ts : sits[i] = j
    <3> SUFFICES ASSUME NEW j \in DOMAIN as PROVE \E i \in DOMAIN ts : sits[i] = j
      OBVIOUS
    <3>1. PICK i \in DOMAIN ts : as[j].territory = ts[i].id
      BY <1>3, <1>4
    <3>2. j \in Of(ts[i].id)
      BY <3>1
    <3> QED BY <1>8, <3>2
  <2>3. sits \in Surjection(DOMAIN ts, DOMAIN as)
    BY <1>10, <2>2, ZenonT(30) DEF Surjection
  <2>4. IsFiniteSet(DOMAIN as) /\ Cardinality(DOMAIN as) = Len(as)
    BY <1>1, FS_Interval, SMTT(30)
  <2>5. Cardinality(DOMAIN ts) = Len(ts)
    BY <1>1, FS_Interval, SMTT(30)
  <2>6. Cardinality(DOMAIN ts) = Cardinality(DOMAIN as)
    BY <2>1, <2>3, <2>4, FS_Injection
  <2> QED BY <2>4, <2>5, <2>6
<1>13. \A i, j \in DOMAIN ts :
         /\ as[sits[i]].territory = ts[i].id
         /\ i # j => as[sits[i]].id # as[sits[j]].id /\ ts[i].id # ts[j].id
  BY <1>5, <1>6, <1>9, <1>11
<1> QED BY <1>2, <1>10, <1>12, <1>13 DEF SeatsPlayable

-----------------------------------------------------------------------------
(* What the loading of the manifest has answered stands. *)
LoadOK ==
    /\ manifest \in Manifests
    /\ phase # "load" => (error = "manifest" <=> Errors(manifest) # {})

LEMMA LoadAnswers ==
  ASSUME LoadOK, Load
  PROVE  LoadOK'
<1>1. UNCHANGED manifest /\ Errors(manifest)' = Errors(manifest)
  BY DEF Load, arena
<1>2. error' = "manifest" <=> Errors(manifest) # {}
  <2>1. PICK wrong \in {Errors(manifest)}, answered \in BOOLEAN :
          error' = IF wrong # {} THEN "manifest"
                   ELSE IF AdaptersKnown /\ Preflight(answered)
                           /\ PortsFit(Len(manifest.territories)) THEN None
                   ELSE "start"
    BY DEF Load
  <2> QED
    BY <2>1, HostAssumption
<1> QED
  BY <1>1, <1>2 DEF LoadOK

(* No other step looks at another manifest, or refuses it. *)
LEMMA LaterErrors ==
  ASSUME IInv, [Next]_vars, ~Load
  PROVE  /\ UNCHANGED manifest
         /\ phase = "load" => phase' = "load"
         /\ \/ UNCHANGED error
            \/ error' # "manifest" /\ (error # "manifest" \/ Errors(manifest) = {})
<1> DEFINE Quiet == UNCHANGED <<manifest, phase, error>>
           Goal == /\ UNCHANGED manifest
                   /\ phase = "load" => phase' = "load"
                   /\ \/ UNCHANGED error
                      \/ error' # "manifest" /\ (error # "manifest" \/ Errors(manifest) = {})
<1> SUFFICES Goal
  OBVIOUS
<1>1. CASE Quiet
  BY <1>1
<1>2. CASE Exit
  BY <1>2, HostAssumption DEF Exit, arena
<1>3. ASSUME UNCHANGED manifest, phase \in {"boot", "ready", "audit", "match"},
             UNCHANGED error \/ error' \in {"start", "leak", "match"}
      PROVE  Goal
  BY <1>3 DEF IInv, PhaseOK
<1>4. CASE RunStep
  <2>1. CASE BootAll \/ WaitForSsh \/ StartMatch \/ Finish
    BY <1>3, <2>1 DEF BootAll, WaitForSsh, StartMatch, Finish, GiveUp, arena
  <2>2. CASE \E cell \in Forbidden : Audit(cell[1], cell[2])
    BY <1>3, <2>2 DEF Audit, GiveUp
  <2>3. CASE Drain \/ TimeIsUp
    BY <1>1, <2>3 DEF Drain, TimeIsUp, match, arena
  <2> QED
    BY <1>2, <1>4, <2>1, <2>2, <2>3 DEF RunStep
<1>5. CASE TeardownStep
  BY <1>1, <1>5 DEF TeardownStep, Boot, Stop, match, arena
<1>6. CASE LostInReboot \/ Abort
  BY <1>3, <1>6 DEF LostInReboot, Abort, Leave, arena
<1>7. ASSUME NEW t \in Ids,
             ControllerStep(t) \/ AdapterStep(t) \/ GuestStep(t) \/ AccidentStep(t)
      PROVE  Goal
  BY <1>1, <1>7 DEF ControllerStep, AdapterStep, GuestStep, AccidentStep, BeginCheck,
     AskReboot, SeeStopped, SeeStarted, Verify, match, arena
<1>8. CASE UNCHANGED vars
  BY <1>1, <1>8 DEF vars
<1> QED
  BY <1>4, <1>5, <1>6, <1>7, <1>8, HostAssumption DEF Next

LEMMA LoadOKHolds == Spec => []LoadOK
<1>1. Init => LoadOK
  BY DEF Init, LoadOK
<1>2. ASSUME IInv, LoadOK, [Next]_vars PROVE LoadOK'
  <2>1. CASE ~Load
    <3>1. UNCHANGED manifest => Errors(manifest)' = Errors(manifest)
      OBVIOUS
    <3> QED
      BY <1>2, <2>1, <3>1, LaterErrors DEF LoadOK
  <2> QED
    BY <1>2, <2>1, LoadAnswers
<1> QED
  BY <1>1, <1>2, IInvHolds, PTL DEF Spec

(* Whatever a manifest says, if it loads its milestones can all be passed  *)
(* and every territory has its one agent; and none is refused for its      *)
(* contract alone unless that cannot be played (validation_errors and      *)
(* milestone_has_cycle, manifest.rs:491-600).                              *)
THEOREM AcceptedIsPlayableHolds == Spec => []AcceptedIsPlayable
<1>1. ASSUME LoadOK PROVE AcceptedIsPlayable
  <2>1. WellTyped(manifest)
    BY <1>1, ManifestsAssumption DEF LoadOK
  <2>2. ContractErrors(manifest) = {} <=> ContractPlayable(manifest)
    BY <2>1, ContractIsRight
  <2>3. Errors(manifest) = {} => SeatsPlayable(manifest) /\ ContractErrors(manifest) = {}
    BY <2>1, SeatsAreRight DEF Errors
  <2> QED
    BY <1>1, <2>2, <2>3 DEF LoadOK, AcceptedIsPlayable
<1> QED
  BY <1>1, LoadOKHolds, PTL
=============================================================================
