--------------------------- MODULE ReviewRoundProofs ---------------------------
(***************************************************************************)
(* What holds of a review round for any reviewers, bases, reports, verdict *)
(* texts and bounds: a review that counts as verified by a supplied report *)
(* is of the base and the content the report is about, and one that is     *)
(* recorded as approved leaves nothing open.                               *)
(***************************************************************************)
EXTENDS ReviewRound, TLAPS

Running(r) == tier[r].pc # "done"

\* A Tier 1 command that nothing got in between of is the only one, and what it
\* found is about the base and the content its sidecar names.
CleanTier1(r) ==
    Running(r) /\ tier[r].clean =>
        /\ \A q \in Reviewers \ {r} : ~Running(q)
        /\ files.report = None
        /\ tier[r].pc = "digest" => tier[r].report.of = <<tier[r].base, tree>>
        /\ tier[r].pc \in {"publishSidecar", "publishReport"} =>
              tier[r].report.of = <<tier[r].sidecar.base, tier[r].sidecar.digest>>
        /\ tier[r].pc = "publishReport" => files.sidecar = tier[r].sidecar

\* A report that was published clean stands beside its own sidecar, with no
\* command at work on either.
CleanFiles ==
    files.report # None /\ files.report.clean =>
        /\ \A r \in Reviewers : ~Running(r)
        /\ files.report.of = <<files.sidecar.base, files.sidecar.digest>>

\* What `codeloop review` has read: the report that is still there, then one that
\* is about what its provenance says.
CleanReading ==
    /\ cmd.pc = "critique" => ~cmd.supplied
    /\ cmd.pc = "sidecar" => cmd.supplied /\ cmd.report # None
    /\ cmd.pc = "sidecar" /\ cmd.clean /\ cmd.report.clean => files.report = cmd.report
    /\ cmd.pc \in {"measure", "decide"} /\ cmd.supplied =>
          /\ cmd.report # None
          /\ cmd.clean /\ cmd.report.clean /\ cmd.provenance # None =>
                cmd.report.of = <<cmd.provenance.base, cmd.provenance.digest>>
    /\ cmd.pc \in {"critique", "decide"} => cmd.digest \in {None, cmd.reviewed}

ReviewInvariant ==
    /\ TypeOK
    /\ \A r \in Reviewers : CleanTier1(r)
    /\ CleanFiles
    /\ CleanReading

-----------------------------------------------------------------------------
(* The records the steps are made of.                                      *)

\* A Tier 1 command by its step.
LEMMA Tier1Shapes ==
    ASSUME NEW t \in Tier1Commands
    PROVE  /\ t.pc \in {"done", "critique", "digest", "publishSidecar", "publishReport"}
           /\ t.pc = "done" => t = NotRunning
           /\ t.pc = "critique" => t \in [pc : {"critique"}, base : Bases, clean : BOOLEAN]
           /\ t.pc = "digest" =>
                 t \in [pc : {"digest"}, base : Bases, clean : BOOLEAN, report : Critiques]
           /\ t.pc \in {"publishSidecar", "publishReport"} =>
                 t \in [pc : {"publishSidecar", "publishReport"}, clean : BOOLEAN,
                        report : Critiques, sidecar : Sidecars]
<1>1. CASE t = NotRunning
  BY <1>1 DEF NotRunning
<1>2. CASE t \in [pc : {"critique"}, base : Bases, clean : BOOLEAN]
  BY <1>2
<1>3. CASE t \in [pc : {"digest"}, base : Bases, clean : BOOLEAN, report : Critiques]
  BY <1>3
<1>4. CASE t \in [pc : {"publishSidecar", "publishReport"}, clean : BOOLEAN,
                   report : Critiques, sidecar : Sidecars]
  BY <1>4
<1> QED
  BY <1>1, <1>2, <1>3, <1>4 DEF Tier1Commands

\* A review command by its step.
LEMMA ReviewShapes ==
    ASSUME NEW c \in ReviewCommands
    PROVE  /\ c.pc \in {"done", "sidecar", "measure", "critique", "decide"}
           /\ c.pc = "done" => c = NotRunning
           /\ c.pc \in {"sidecar", "measure"} =>
                 c \in [pc : {"sidecar", "measure"}, base : Bases, supplied : BOOLEAN,
                        clean : BOOLEAN, report : Critiques \union {None},
                        provenance : Sidecars \union {None}]
           /\ c.pc \in {"critique", "decide"} =>
                 c \in [pc : {"critique", "decide"}, base : Bases, supplied : BOOLEAN,
                        clean : BOOLEAN, report : Critiques \union {None},
                        provenance : Sidecars \union {None}, measured : BOOLEAN,
                        reviewed : Int, commit : Int \union {None}, digest : Int \union {None}]
BY DEF ReviewCommands, NotRunning

\* A command that is not running is one of each kind.
LEMMA NotRunningIsCommand ==
    NotRunning \in Tier1Commands /\ NotRunning \in ReviewCommands /\ NotRunning.pc = "done"
BY DEF NotRunning, Tier1Commands, ReviewCommands

\* A command that has measured.
LEMMA MeasuredShape ==
    ASSUME NEW t \in [pc : {"digest"}, base : Bases, clean : BOOLEAN, report : Critiques],
           NEW sidecar \in Sidecars, NEW u,
           u = [pc |-> "publishSidecar", clean |-> t.clean, report |-> t.report,
                sidecar |-> sidecar]
    PROVE  /\ u \in [pc : {"publishSidecar", "publishReport"}, clean : BOOLEAN,
                     report : Critiques, sidecar : Sidecars]
           /\ u.pc = "publishSidecar" /\ u.report = t.report /\ u.sidecar = sidecar
           /\ u.clean => t.clean
OBVIOUS

\* A report of the present content.
LEMMA ReportIsCritique ==
    ASSUME tree \in Int, NEW base \in Bases, NEW findings,
           NEW confidence \in {"high", "low"}, NEW bypassed \in BOOLEAN,
           IF bypassed THEN findings = <<>> /\ confidence = "low" ELSE findings \in Reports
    PROVE  /\ Report(base, findings, confidence, bypassed) \in Critiques
           /\ Report(base, findings, confidence, bypassed).of = <<base, tree>>
BY DEF Report, Critiques

-----------------------------------------------------------------------------
(* The steps of Tier 1.                                                    *)

\* A command that is started crowds out every other, and is crowded by one.
LEMMA CrowdedTier1 ==
    ASSUME NEW t \in [Reviewers -> Tier1Commands]
    PROVE  /\ Crowded(t) \in [Reviewers -> Tier1Commands]
           /\ \A r \in Reviewers :
                 /\ Crowded(t)[r].pc = t[r].pc
                 /\ t[r].pc # "done" /\ Crowded(t)[r].clean =>
                       /\ Crowded(t)[r] = t[r]
                       /\ \A q \in Reviewers \ {r} : t[q].pc = "done"
<1> SUFFICES ASSUME NEW r \in Reviewers
             PROVE  /\ Crowded(t)[r] \in Tier1Commands
                    /\ Crowded(t)[r].pc = t[r].pc
                    /\ t[r].pc # "done" /\ Crowded(t)[r].clean =>
                          /\ Crowded(t)[r] = t[r]
                          /\ \A q \in Reviewers \ {r} : t[q].pc = "done"
  BY DEF Crowded
<1> DEFINE alone == \A q \in Reviewers \ {r} : t[q].pc = "done"
<1>1. CASE t[r].pc = "done" \/ alone
  <2>1. Crowded(t)[r] = t[r]
    BY <1>1 DEF Crowded
  <2> QED
    BY <1>1, <2>1
<1>2. CASE ~(t[r].pc = "done" \/ alone)
  <2>1. Crowded(t)[r] = [t[r] EXCEPT !.clean = FALSE]
    BY <1>2 DEF Crowded
  <2>2. [t[r] EXCEPT !.clean = FALSE] \in Tier1Commands
        /\ [t[r] EXCEPT !.clean = FALSE].pc = t[r].pc
        /\ ~[t[r] EXCEPT !.clean = FALSE].clean
    <3>1. t[r] \in Tier1Commands /\ t[r].pc # "done"
      BY <1>2
    <3>2. CASE t[r].pc = "critique"
      BY <3>1, <3>2, Tier1Shapes DEF Tier1Commands
    <3>3. CASE t[r].pc = "digest"
      BY <3>1, <3>3, Tier1Shapes DEF Tier1Commands
    <3>4. CASE t[r].pc \in {"publishSidecar", "publishReport"}
      BY <3>1, <3>4, Tier1Shapes DEF Tier1Commands
    <3> QED
      BY <3>1, <3>2, <3>3, <3>4, Tier1Shapes
  <2> QED
    BY <2>1, <2>2
<1> QED
  BY <1>1, <1>2

\* A critique that starts takes the evidence of the last one away.
LEMMA StartKeeps ==
    ASSUME ReviewInvariant, NEW r \in Reviewers, NEW base \in Bases, StartTier1(r, base)
    PROVE  ReviewInvariant'
<1> DEFINE started == [pc |-> "critique", base |-> base, clean |-> TRUE]
           t == [tier EXCEPT ![r] = started]
<1>1. /\ tier \in [Reviewers -> Tier1Commands] /\ cmd \in ReviewCommands
      /\ tier[r].pc = "done" /\ tier' = Crowded(t)
      /\ files' = [report |-> None, sidecar |-> None]
      /\ cmd' = IF cmd.pc = "sidecar" THEN [cmd EXCEPT !.clean = FALSE] ELSE cmd
      /\ UNCHANGED <<tree, head, task>>
  BY DEF ReviewInvariant, TypeOK, StartTier1
<1>2. started \in Tier1Commands /\ started.pc = "critique"
  BY DEF Tier1Commands
<1>3. t \in [Reviewers -> Tier1Commands] /\ t[r].pc = "critique"
  BY <1>1, <1>2
<1> HIDE DEF t
<1>4. /\ tier' \in [Reviewers -> Tier1Commands]
      /\ \A q \in Reviewers :
            /\ tier'[q].pc = t[q].pc
            /\ t[q].pc # "done" /\ tier'[q].clean =>
                  \A p \in Reviewers \ {q} : t[p].pc = "done"
  BY <1>1, <1>3, CrowdedTier1
<1>5. cmd' \in ReviewCommands /\ cmd'.pc = cmd.pc
      /\ (cmd.pc = "sidecar" => ~cmd'.clean /\ cmd'.report = cmd.report /\ cmd'.supplied = cmd.supplied)
      /\ (cmd.pc # "sidecar" => cmd' = cmd)
  BY <1>1, ReviewShapes DEF ReviewCommands
<1>6. TypeOK'
  <2>1. files' \in [report : Critiques \union {None}, sidecar : Sidecars \union {None}]
    BY <1>1
  <2>2. critiques' \in 0 .. MaxCritiques
    BY ReviewAssumption DEF ReviewInvariant, TypeOK, StartTier1
  <2> QED
    BY <1>1, <1>4, <1>5, <2>1, <2>2 DEF ReviewInvariant, TypeOK
<1>7. \A q \in Reviewers : CleanTier1(q)'
  <2> SUFFICES ASSUME NEW q \in Reviewers, tier'[q].pc # "done", tier'[q].clean
               PROVE  CleanTier1(q)'
    BY DEF CleanTier1, Running
  <2>1. \A p \in Reviewers \ {q} : tier'[p].pc = "done"
    BY <1>4
  <2>2. q = r /\ tier'[q].pc = "critique"
    BY <2>1, <1>3, <1>4
  <2> QED
    BY <1>1, <2>1, <2>2 DEF CleanTier1, Running
<1>8. CleanFiles'
  BY <1>1 DEF CleanFiles
<1>9. CleanReading'
  BY <1>5 DEF ReviewInvariant, CleanReading
<1> QED
  BY <1>6, <1>7, <1>8, <1>9 DEF ReviewInvariant

\* Steps of the other commands of Tier 1 that leave the files alone.
LEMMA CritiqueKeeps ==
    ASSUME ReviewInvariant, NEW r \in Reviewers,
           (\E findings \in Reports : RunCritique(r, findings)) \/ MeasureTier1(r)
    PROVE  ReviewInvariant'
<1>1. /\ tier \in [Reviewers -> Tier1Commands] /\ tree \in Int /\ head \in Int
      /\ CleanTier1(r) /\ tier[r] \in Tier1Commands
  BY DEF ReviewInvariant, TypeOK
<1>2. UNCHANGED <<tree, head, files, critiques, cmd, task>>
  BY DEF RunCritique, MeasureTier1
<1>3. /\ tier' \in [Reviewers -> Tier1Commands]
      /\ \A q \in Reviewers \ {r} : tier'[q] = tier[q]
      /\ tier[r].pc # "done" /\ tier'[r].pc # "done"
      /\ tier'[r].clean => tier[r].clean
      /\ CleanTier1(r)'
  <2>1. CASE \E findings \in Reports : RunCritique(r, findings)
    <3>1. PICK findings \in Reports : RunCritique(r, findings)
      BY <2>1
    <3>2. tier[r] \in [pc : {"critique"}, base : Bases, clean : BOOLEAN]
      BY <1>1, <3>1, Tier1Shapes DEF RunCritique
    <3> DEFINE report == Report(tier[r].base, findings, "high", FALSE)
    <3>3. report \in Critiques /\ report.of = <<tier[r].base, tree>>
      BY <1>1, <3>2, ReportIsCritique
    <3>4. tier' = [tier EXCEPT ![r] = [pc |-> "digest", base |-> tier[r].base,
                                       clean |-> tier[r].clean, report |-> report]]
      BY <3>1 DEF RunCritique
    <3> HIDE DEF report
    <3>5. /\ tier'[r] = [pc |-> "digest", base |-> tier[r].base,
                         clean |-> tier[r].clean, report |-> report]
          /\ \A q \in Reviewers \ {r} : tier'[q] = tier[q]
      BY <1>1, <3>4
    <3>6. tier'[r] \in Tier1Commands
      BY <3>2, <3>3, <3>5 DEF Tier1Commands
    <3>7. tier' \in [Reviewers -> Tier1Commands]
      BY <1>1, <3>4, <3>5, <3>6
    <3>8. /\ tier'[r].pc = "digest" /\ tier'[r].base = tier[r].base
          /\ tier'[r].report.of = <<tier[r].base, tree>>
          /\ tier'[r].clean => tier[r].clean
      BY <3>2, <3>3, <3>5
    <3>9. tier[r].pc = "critique"
      BY <3>2
    <3> QED
      BY <1>1, <1>2, <3>5, <3>7, <3>8, <3>9 DEF CleanTier1, Running
  <2>2. CASE MeasureTier1(r)
    <3>1. tier[r] \in [pc : {"digest"}, base : Bases, clean : BOOLEAN, report : Critiques]
      BY <1>1, <2>2, Tier1Shapes DEF MeasureTier1
    <3>2. [base |-> tier[r].base, head |-> head, digest |-> tree] \in Sidecars
      BY <1>1, <3>1 DEF Sidecars
    <3>3. PICK s \in Sidecars :
            /\ s.base = tier[r].base /\ s.digest = tree
            /\ tier' = [tier EXCEPT ![r] = [pc |-> "publishSidecar", clean |-> tier[r].clean,
                                            report |-> tier[r].report, sidecar |-> s]]
      BY <1>1, <2>2, <3>2 DEF MeasureTier1
    <3>4. /\ tier'[r] = [pc |-> "publishSidecar", clean |-> tier[r].clean,
                         report |-> tier[r].report, sidecar |-> s]
          /\ \A q \in Reviewers \ {r} : tier'[q] = tier[q]
      BY <1>1, <3>3
    <3>5. /\ tier[r].pc = "digest" /\ tier[r].report \in Critiques
          /\ (tier[r].clean = TRUE \/ tier[r].clean = FALSE)
      BY <3>1
    <3>6. /\ tier'[r] \in [pc : {"publishSidecar", "publishReport"}, clean : BOOLEAN,
                           report : Critiques, sidecar : Sidecars]
          /\ tier'[r].pc = "publishSidecar" /\ tier'[r].report = tier[r].report
          /\ tier'[r].sidecar = s
          /\ tier'[r].clean => tier[r].clean
      <4>1. tier'[r] = [pc |-> "publishSidecar", clean |-> tier[r].clean,
                        report |-> tier[r].report, sidecar |-> s]
        BY <3>4
      <4>2. s \in Sidecars
        BY <3>3
      <4> QED
        BY <3>1, <4>1, <4>2, MeasuredShape
    <3>7. tier' \in [Reviewers -> Tier1Commands]
      BY <1>1, <3>3, <3>4, <3>6 DEF Tier1Commands
    <3>8. CleanTier1(r)'
      BY <1>1, <1>2, <3>3, <3>4, <3>5, <3>6 DEF CleanTier1, Running
    <3> QED
      BY <3>4, <3>5, <3>6, <3>7, <3>8
  <2> QED
    BY <2>1, <2>2
<1>4. TypeOK'
  BY <1>2, <1>3 DEF ReviewInvariant, TypeOK
<1>5. \A q \in Reviewers : CleanTier1(q)'
  <2> SUFFICES ASSUME NEW q \in Reviewers \ {r} PROVE CleanTier1(q)'
    BY <1>3
  <2> QED
    BY <1>2, <1>3 DEF ReviewInvariant, CleanTier1, Running
<1>6. CleanFiles'
  BY <1>2, <1>3 DEF ReviewInvariant, CleanFiles, Running
<1>7. CleanReading'
  BY <1>2 DEF ReviewInvariant, CleanReading
<1> QED
  BY <1>4, <1>5, <1>6, <1>7 DEF ReviewInvariant

\* The sidecar is published.
LEMMA PublishSidecarKeeps ==
    ASSUME ReviewInvariant, NEW r \in Reviewers, PublishSidecar(r)
    PROVE  ReviewInvariant'
<1>1. /\ tier \in [Reviewers -> Tier1Commands] /\ CleanTier1(r)
      /\ files \in [report : Critiques \union {None}, sidecar : Sidecars \union {None}]
      /\ UNCHANGED <<tree, head, critiques, cmd, task>>
  BY DEF ReviewInvariant, TypeOK, PublishSidecar
<1>2. /\ tier[r].pc = "publishSidecar"
      /\ tier[r] \in [pc : {"publishSidecar", "publishReport"}, clean : BOOLEAN,
                      report : Critiques, sidecar : Sidecars]
  BY <1>1, Tier1Shapes DEF PublishSidecar
<1>3. /\ files' \in [report : Critiques \union {None}, sidecar : Sidecars \union {None}]
      /\ files'.report = files.report /\ files'.sidecar = tier[r].sidecar
  BY <1>1, <1>2 DEF PublishSidecar
<1>4. /\ tier'[r] \in [pc : {"publishSidecar", "publishReport"}, clean : BOOLEAN,
                       report : Critiques, sidecar : Sidecars]
      /\ tier'[r].pc = "publishReport" /\ tier'[r].clean = tier[r].clean
      /\ tier'[r].report = tier[r].report /\ tier'[r].sidecar = tier[r].sidecar
      /\ \A q \in Reviewers \ {r} : tier'[q] = tier[q]
  BY <1>1, <1>2 DEF PublishSidecar
<1>5. tier' \in [Reviewers -> Tier1Commands]
  <2>1. tier'[r] \in Tier1Commands
    BY <1>4 DEF Tier1Commands
  <2> QED
    BY <1>1, <2>1 DEF PublishSidecar
<1>6. TypeOK'
  BY <1>1, <1>3, <1>5 DEF ReviewInvariant, TypeOK
<1>7. \A q \in Reviewers : CleanTier1(q)'
  <2>1. CleanTier1(r)'
    BY <1>1, <1>2, <1>3, <1>4 DEF CleanTier1, Running
  <2>2. ASSUME NEW q \in Reviewers \ {r} PROVE CleanTier1(q)'
    BY <1>2, <1>4 DEF ReviewInvariant, CleanTier1, Running
  <2> QED
    BY <2>1, <2>2
<1>8. CleanFiles'
  BY <1>2, <1>3 DEF ReviewInvariant, CleanFiles, Running
<1>9. CleanReading'
  <2>1. files.report # None /\ files.report.clean => FALSE
    BY <1>2 DEF ReviewInvariant, CleanFiles, Running
  <2> QED
    BY <1>1, <1>3, <2>1 DEF ReviewInvariant, CleanReading
<1> QED
  BY <1>6, <1>7, <1>8, <1>9 DEF ReviewInvariant

\* The report is published, which ends the command.
LEMMA PublishReportKeeps ==
    ASSUME ReviewInvariant, NEW r \in Reviewers, PublishReport(r)
    PROVE  ReviewInvariant'
<1>1. /\ tier \in [Reviewers -> Tier1Commands] /\ CleanTier1(r)
      /\ files \in [report : Critiques \union {None}, sidecar : Sidecars \union {None}]
      /\ UNCHANGED <<tree, head, critiques, cmd, task>>
  BY DEF ReviewInvariant, TypeOK, PublishReport
<1>2. /\ tier[r].pc = "publishReport"
      /\ tier[r] \in [pc : {"publishSidecar", "publishReport"}, clean : BOOLEAN,
                      report : Critiques, sidecar : Sidecars]
  BY <1>1, Tier1Shapes DEF PublishReport
<1> DEFINE report == [tier[r].report EXCEPT !.clean = tier[r].clean]
<1>3. report \in Critiques /\ report.of = tier[r].report.of /\ (report.clean <=> tier[r].clean)
  BY <1>2 DEF Critiques
<1>4. files' = [files EXCEPT !.report = report]
  BY DEF PublishReport
<1> HIDE DEF report
<1>5. /\ files' \in [report : Critiques \union {None}, sidecar : Sidecars \union {None}]
      /\ files'.report = report /\ files'.sidecar = files.sidecar
  BY <1>1, <1>3, <1>4
<1>6. /\ tier' \in [Reviewers -> Tier1Commands]
      /\ tier'[r].pc = "done" /\ \A q \in Reviewers \ {r} : tier'[q] = tier[q]
  BY <1>1, NotRunningIsCommand DEF PublishReport
<1>7. TypeOK'
  BY <1>1, <1>5, <1>6 DEF ReviewInvariant, TypeOK
<1>8. \A q \in Reviewers : CleanTier1(q)'
  <2>1. ASSUME NEW q \in Reviewers \ {r} PROVE CleanTier1(q)'
    BY <1>2, <1>6 DEF ReviewInvariant, CleanTier1, Running
  <2> QED
    BY <1>6, <2>1 DEF CleanTier1, Running
<1>9. CleanFiles'
  <2> SUFFICES ASSUME report.clean
               PROVE  /\ \A q \in Reviewers : ~Running(q)'
                      /\ report.of = <<files'.sidecar.base, files'.sidecar.digest>>
    BY <1>5 DEF CleanFiles
  <2>1. /\ \A q \in Reviewers \ {r} : tier[q].pc = "done"
        /\ tier[r].report.of = <<tier[r].sidecar.base, tier[r].sidecar.digest>>
        /\ files.sidecar = tier[r].sidecar
    BY <1>1, <1>2, <1>3 DEF CleanTier1, Running
  <2>2. \A q \in Reviewers : ~Running(q)'
    BY <1>6, <2>1 DEF Running
  <2> QED
    BY <1>3, <1>5, <2>1, <2>2
<1>10. CleanReading'
  <2>1. files.report # None /\ files.report.clean => FALSE
    BY <1>2 DEF ReviewInvariant, CleanFiles, Running
  <2> QED
    BY <1>1, <2>1 DEF ReviewInvariant, CleanReading
<1> QED
  BY <1>7, <1>8, <1>9, <1>10 DEF ReviewInvariant

\* A command that fails may take its sidecar with it.
LEMMA Tier1EndsKeeps ==
    ASSUME ReviewInvariant, NEW r \in Reviewers, Tier1Ends(r)
    PROVE  ReviewInvariant'
<1>1. /\ tier \in [Reviewers -> Tier1Commands] /\ tier[r].pc # "done"
      /\ files \in [report : Critiques \union {None}, sidecar : Sidecars \union {None}]
      /\ UNCHANGED <<tree, head, critiques, cmd, task>>
  BY DEF ReviewInvariant, TypeOK, Tier1Ends
<1>2. /\ files' \in [report : Critiques \union {None}, sidecar : Sidecars \union {None}]
      /\ files'.report = files.report
  BY <1>1 DEF Tier1Ends
<1>3. /\ tier' \in [Reviewers -> Tier1Commands]
      /\ tier'[r].pc = "done" /\ \A q \in Reviewers \ {r} : tier'[q] = tier[q]
  BY <1>1, NotRunningIsCommand DEF Tier1Ends
<1>4. TypeOK'
  BY <1>1, <1>2, <1>3 DEF ReviewInvariant, TypeOK
<1>5. \A q \in Reviewers : CleanTier1(q)'
  <2>1. ASSUME NEW q \in Reviewers \ {r} PROVE CleanTier1(q)'
    BY <1>1, <1>3 DEF ReviewInvariant, CleanTier1, Running
  <2> QED
    BY <1>3, <2>1 DEF CleanTier1, Running
<1>6. CleanFiles'
  BY <1>1, <1>2 DEF ReviewInvariant, CleanFiles, Running
<1>7. CleanReading'
  <2>1. files.report # None /\ files.report.clean => FALSE
    BY <1>1 DEF ReviewInvariant, CleanFiles, Running
  <2> QED
    BY <1>1, <2>1 DEF ReviewInvariant, CleanReading
<1> QED
  BY <1>4, <1>5, <1>6, <1>7 DEF ReviewInvariant

-----------------------------------------------------------------------------
(* The steps of the review command, and of everybody else.                 *)

\* The review command, when it touches nothing but itself.
LEMMA CommandKeeps ==
    ASSUME ReviewInvariant, UNCHANGED <<tree, head, files, tier, critiques, task>>,
           cmd' \in ReviewCommands, CleanReading'
    PROVE  ReviewInvariant'
<1>1. TypeOK'
  BY DEF ReviewInvariant, TypeOK
<1>2. (\A r \in Reviewers : CleanTier1(r)') /\ CleanFiles'
  BY DEF ReviewInvariant, CleanTier1, CleanFiles, Running
<1> QED
  BY <1>1, <1>2 DEF ReviewInvariant

\* A command that has ended has read nothing.
LEMMA EndOfReview ==
    ASSUME cmd' = NotRunning
    PROVE  cmd' \in ReviewCommands /\ CleanReading'
BY NotRunningIsCommand DEF CleanReading

\* It begins, with the report that is there or without one.
LEMMA BeginKeeps ==
    ASSUME ReviewInvariant, NEW base \in Bases, NEW supplied \in BOOLEAN,
           BeginReview(base, supplied)
    PROVE  ReviewInvariant'
<1>1. /\ files \in [report : Critiques \union {None}, sidecar : Sidecars \union {None}]
      /\ UNCHANGED <<tree, head, files, tier, critiques, task>>
      /\ supplied => files.report # None
  BY DEF ReviewInvariant, TypeOK, BeginReview
<1>2. CASE supplied
  <2>1. cmd' = [pc |-> "sidecar", base |-> base, supplied |-> TRUE, report |-> files.report,
                provenance |-> None, clean |-> TRUE]
    BY <1>2 DEF BeginReview
  <2>2. cmd' \in ReviewCommands
    BY <1>1, <2>1 DEF ReviewCommands
  <2>3. CleanReading'
    BY <1>1, <1>2, <2>1 DEF CleanReading
  <2> QED
    BY <1>1, <2>2, <2>3, CommandKeeps
<1>3. CASE ~supplied
  <2>1. cmd' = [pc |-> "measure", base |-> base, supplied |-> FALSE, report |-> None,
                provenance |-> None, clean |-> TRUE]
    BY <1>3 DEF BeginReview
  <2>2. cmd' \in ReviewCommands
    BY <2>1 DEF ReviewCommands
  <2>3. CleanReading'
    BY <2>1 DEF CleanReading
  <2> QED
    BY <1>1, <2>2, <2>3, CommandKeeps
<1> QED
  BY <1>2, <1>3

\* The sidecar it reads is that of the report it has, if nothing got in between.
LEMMA ReadSidecarKeeps ==
    ASSUME ReviewInvariant, ReadSidecar
    PROVE  ReviewInvariant'
<1>1. /\ files \in [report : Critiques \union {None}, sidecar : Sidecars \union {None}]
      /\ cmd \in ReviewCommands /\ CleanReading /\ CleanFiles
      /\ UNCHANGED <<tree, head, files, tier, critiques, task>>
  BY DEF ReviewInvariant, TypeOK, ReadSidecar
<1>2. /\ cmd.pc = "sidecar" /\ cmd' = [cmd EXCEPT !.pc = "measure", !.provenance = files.sidecar]
      /\ cmd \in [pc : {"sidecar", "measure"}, base : Bases, supplied : BOOLEAN,
                  clean : BOOLEAN, report : Critiques \union {None},
                  provenance : Sidecars \union {None}]
  BY <1>1, ReviewShapes DEF ReadSidecar
<1>3. /\ cmd' \in [pc : {"sidecar", "measure"}, base : Bases, supplied : BOOLEAN,
                   clean : BOOLEAN, report : Critiques \union {None},
                   provenance : Sidecars \union {None}]
      /\ cmd'.pc = "measure" /\ cmd'.report = cmd.report /\ cmd'.provenance = files.sidecar
      /\ cmd'.supplied = cmd.supplied /\ cmd'.clean = cmd.clean
  BY <1>1, <1>2
<1>4. cmd' \in ReviewCommands
  BY <1>3 DEF ReviewCommands
<1>5. CleanReading'
  BY <1>1, <1>2, <1>3 DEF CleanReading, CleanFiles
<1> QED
  BY <1>1, <1>4, <1>5, CommandKeeps

\* What it measures is the content of that moment, or nothing.
LEMMA MeasureKeeps ==
    ASSUME ReviewInvariant, NEW answers \in BOOLEAN, MeasureReview(answers)
    PROVE  ReviewInvariant'
<1>1. /\ cmd \in ReviewCommands /\ tree \in Int /\ head \in Int /\ CleanReading
      /\ UNCHANGED <<tree, head, files, tier, critiques, task>>
  BY DEF ReviewInvariant, TypeOK, MeasureReview
<1>2. /\ cmd.pc = "measure"
      /\ cmd \in [pc : {"sidecar", "measure"}, base : Bases, supplied : BOOLEAN,
                  clean : BOOLEAN, report : Critiques \union {None},
                  provenance : Sidecars \union {None}]
  BY <1>1, ReviewShapes DEF MeasureReview
<1> DEFINE next == IF cmd.supplied THEN "decide" ELSE "critique"
           commit == IF answers THEN head ELSE None
           digest == IF answers THEN tree ELSE None
<1>3. /\ next \in {"critique", "decide"} /\ commit \in Int \union {None}
      /\ digest \in Int \union {None} /\ digest \in {None, tree}
      /\ next = "critique" => ~cmd.supplied
  BY <1>1
<1>4. cmd' = [pc |-> next, base |-> cmd.base, supplied |-> cmd.supplied, clean |-> cmd.clean,
              report |-> cmd.report, provenance |-> cmd.provenance, measured |-> answers,
              reviewed |-> tree, commit |-> commit, digest |-> digest]
  BY DEF MeasureReview
<1> HIDE DEF next, commit, digest
<1>5. /\ cmd' \in [pc : {"critique", "decide"}, base : Bases, supplied : BOOLEAN,
                   clean : BOOLEAN, report : Critiques \union {None},
                   provenance : Sidecars \union {None}, measured : BOOLEAN,
                   reviewed : Int, commit : Int \union {None}, digest : Int \union {None}]
      /\ cmd'.pc = next /\ cmd'.report = cmd.report /\ cmd'.provenance = cmd.provenance
      /\ cmd'.supplied = cmd.supplied /\ cmd'.clean = cmd.clean
      /\ cmd'.digest = digest /\ cmd'.reviewed = tree
  BY <1>1, <1>2, <1>3, <1>4
<1>6. cmd' \in ReviewCommands
  BY <1>5 DEF ReviewCommands
<1>7. CleanReading'
  BY <1>1, <1>2, <1>3, <1>5 DEF CleanReading
<1> QED
  BY <1>1, <1>6, <1>7, CommandKeeps

\* The critique inside is no supplied report.
LEMMA InsideKeeps ==
    ASSUME ReviewInvariant, CritiqueInside
    PROVE  ReviewInvariant'
<1>1. /\ cmd \in ReviewCommands /\ tree \in Int /\ CleanReading
      /\ UNCHANGED <<tree, head, files, tier, critiques, task>>
  BY DEF ReviewInvariant, TypeOK, CritiqueInside
<1>2. /\ cmd.pc = "critique"
      /\ cmd \in [pc : {"critique", "decide"}, base : Bases, supplied : BOOLEAN,
                  clean : BOOLEAN, report : Critiques \union {None},
                  provenance : Sidecars \union {None}, measured : BOOLEAN,
                  reviewed : Int, commit : Int \union {None}, digest : Int \union {None}]
  BY <1>1, ReviewShapes DEF CritiqueInside
<1>3. CritiqueAnswers(cmd.base) \subseteq Critiques
  <2>1. cmd.base \in Bases
    BY <1>2
  <2>2. Report(cmd.base, <<>>, "low", TRUE) \in Critiques
    BY <1>1, <2>1, ReportIsCritique
  <2>3. \A findings \in Reports : /\ Report(cmd.base, findings, "high", FALSE) \in Critiques
                                 /\ Report(cmd.base, findings, "low", FALSE) \in Critiques
    BY <1>1, <2>1, ReportIsCritique
  <2> QED
    BY <2>2, <2>3 DEF CritiqueAnswers
<1>4. PICK report \in Critiques \union {None} :
        cmd' = [cmd EXCEPT !.pc = "decide", !.report = report]
  BY <1>3 DEF CritiqueInside
<1>5. /\ cmd' \in [pc : {"critique", "decide"}, base : Bases, supplied : BOOLEAN,
                   clean : BOOLEAN, report : Critiques \union {None},
                   provenance : Sidecars \union {None}, measured : BOOLEAN,
                   reviewed : Int, commit : Int \union {None}, digest : Int \union {None}]
      /\ cmd'.pc = "decide" /\ cmd'.supplied = cmd.supplied
  BY <1>2, <1>4
<1>6. cmd' \in ReviewCommands
  BY <1>5 DEF ReviewCommands
<1>7. cmd'.digest = cmd.digest /\ cmd'.reviewed = cmd.reviewed
  BY <1>2, <1>4
<1>8. CleanReading'
  BY <1>1, <1>2, <1>5, <1>7 DEF CleanReading
<1> QED
  BY <1>1, <1>6, <1>8, CommandKeeps

\* The decision: a record, and the end of the command.
LEMMA SaveKeeps ==
    ASSUME ReviewInvariant, NEW text \in Texts \union {None}, NEW refutations \in RefutationLists,
           SaveReview(text, refutations)
    PROVE  /\ ReviewInvariant'
           /\ task'.record.verified <=> critiqueVerified
<1> DEFINE verdict == Verdict(text, refutations)
           next == IF verdict.status = "CHANGES_REQUESTED" THEN "IMPLEMENT" ELSE "COMMIT"
           record == [verdict |-> verdict.status, source |-> verdict.source,
                      verified |-> critiqueVerified]
<1>1. /\ cmd' = NotRunning /\ UNCHANGED <<tree, head, files, tier, critiques>>
      /\ task' = [stage |-> next, rounds |-> task.rounds + 1, record |-> record]
  BY DEF SaveReview
<1>2. next \in {"IMPLEMENT", "COMMIT"}
  OBVIOUS
<1>3. record.verified <=> critiqueVerified
  OBVIOUS
<1> HIDE DEF verdict, next, record
<1>4. task'.stage = next /\ task'.rounds = task.rounds + 1 /\ task'.record = record
  BY <1>1
<1>5. cmd' \in ReviewCommands /\ CleanReading'
  BY <1>1, EndOfReview
<1>6. TypeOK'
  BY <1>1, <1>2, <1>4, <1>5 DEF ReviewInvariant, TypeOK
<1>7. (\A r \in Reviewers : CleanTier1(r)') /\ CleanFiles'
  BY <1>1 DEF ReviewInvariant, CleanTier1, CleanFiles, Running
<1> QED
  BY <1>3, <1>4, <1>5, <1>6, <1>7 DEF ReviewInvariant

\* An edit before the digest is the one that the flag is about.
LEMMA EditKeeps ==
    ASSUME ReviewInvariant, Edit
    PROVE  ReviewInvariant'
<1>1. /\ tier \in [Reviewers -> Tier1Commands] /\ tree \in Int
      /\ UNCHANGED <<head, files, critiques, cmd, task>> /\ tree' = tree + 1
      /\ tier' = [r \in Reviewers |->
                    IF tier[r].pc = "digest" THEN [tier[r] EXCEPT !.clean = FALSE] ELSE tier[r]]
  BY DEF ReviewInvariant, TypeOK, Edit
<1>2. ASSUME NEW r \in Reviewers
      PROVE  /\ tier'[r] \in Tier1Commands /\ tier'[r].pc = tier[r].pc
             /\ tier[r].pc = "digest" => ~tier'[r].clean
             /\ tier[r].pc # "digest" => tier'[r] = tier[r]
  <2>1. CASE tier[r].pc = "digest"
    <3>1. tier[r] \in [pc : {"digest"}, base : Bases, clean : BOOLEAN, report : Critiques]
      BY <1>1, <2>1, Tier1Shapes
    <3>2. tier'[r] = [tier[r] EXCEPT !.clean = FALSE]
      BY <1>1, <2>1
    <3> QED
      BY <2>1, <3>1, <3>2 DEF Tier1Commands
  <2>2. CASE tier[r].pc # "digest"
    BY <1>1, <2>2
  <2> QED
    BY <2>1, <2>2
<1>3. tier' \in [Reviewers -> Tier1Commands]
  <2>1. DOMAIN tier' = Reviewers /\ tier' = [r \in Reviewers |-> tier'[r]]
    BY <1>1
  <2> QED
    BY <1>2, <2>1
<1>4. TypeOK'
  BY <1>1, <1>3 DEF ReviewInvariant, TypeOK
<1>5. \A r \in Reviewers : CleanTier1(r)'
  <2> SUFFICES ASSUME NEW r \in Reviewers, Running(r)', tier'[r].clean
               PROVE  CleanTier1(r)'
    BY DEF CleanTier1
  <2>1. tier'[r] = tier[r] /\ tier[r].pc # "digest"
    BY <1>2
  <2>2. CleanTier1(r) /\ \A q \in Reviewers : Running(q)' <=> Running(q)
    BY <1>2 DEF ReviewInvariant, Running
  <2> QED
    BY <1>1, <2>1, <2>2 DEF CleanTier1
<1>6. CleanFiles'
  BY <1>1, <1>2 DEF ReviewInvariant, CleanFiles, Running
<1>7. CleanReading'
  BY <1>1 DEF ReviewInvariant, CleanReading
<1> QED
  BY <1>4, <1>5, <1>6, <1>7 DEF ReviewInvariant

\* What only HEAD or the stage shows.
LEMMA OutsideKeeps ==
    ASSUME ReviewInvariant, CommitOutside \/ Rework
    PROVE  ReviewInvariant' /\ (Rework => task'.rounds = task.rounds)
<1>1. UNCHANGED <<tree, files, tier, critiques, cmd>> /\ head' \in Int
  BY DEF ReviewInvariant, TypeOK, CommitOutside, Rework
<1>2. /\ task'.stage \in {"REVIEW", "IMPLEMENT", "COMMIT"} /\ task'.rounds \in Nat
      /\ Rework => task'.rounds = task.rounds
  BY DEF ReviewInvariant, TypeOK, CommitOutside, Rework
<1>3. TypeOK'
  BY <1>1, <1>2 DEF ReviewInvariant, TypeOK
<1>4. (\A r \in Reviewers : CleanTier1(r)') /\ CleanFiles' /\ CleanReading'
  BY <1>1 DEF ReviewInvariant, CleanTier1, CleanFiles, CleanReading, Running
<1> QED
  BY <1>2, <1>3, <1>4 DEF ReviewInvariant

-----------------------------------------------------------------------------
(* The invariant, and what it says of the specification.                   *)

\* Every step keeps the invariant, and only a decision makes a record.
LEMMA StepKeeps ==
    ASSUME ReviewInvariant, [Next]_vars
    PROVE  /\ ReviewInvariant'
           /\ \/ task'.rounds = task.rounds
              \/ cmd.pc = "decide" /\ (task'.record.verified <=> critiqueVerified)
<1>1. CASE \E r \in Reviewers, base \in Bases : StartTier1(r, base)
  BY <1>1, StartKeeps DEF StartTier1
<1>2. CASE \E r \in Reviewers : (\E findings \in Reports : RunCritique(r, findings)) \/ MeasureTier1(r)
  BY <1>2, CritiqueKeeps DEF RunCritique, MeasureTier1
<1>3. CASE \E r \in Reviewers : PublishSidecar(r)
  BY <1>3, PublishSidecarKeeps DEF PublishSidecar
<1>4. CASE \E r \in Reviewers : PublishReport(r)
  BY <1>4, PublishReportKeeps DEF PublishReport
<1>5. CASE \E r \in Reviewers : Tier1Ends(r)
  BY <1>5, Tier1EndsKeeps DEF Tier1Ends
<1>6. CASE \E base \in Bases, supplied \in BOOLEAN : BeginReview(base, supplied)
  BY <1>6, BeginKeeps DEF BeginReview
<1>7. CASE ReadSidecar
  BY <1>7, ReadSidecarKeeps DEF ReadSidecar
<1>8. CASE \E answers \in BOOLEAN : MeasureReview(answers)
  BY <1>8, MeasureKeeps DEF MeasureReview
<1>9. CASE CritiqueInside
  BY <1>9, InsideKeeps DEF CritiqueInside
<1>10. CASE \E text \in Texts \union {None}, refutations \in RefutationLists :
              RefuseReview(text, refutations)
  BY <1>10, EndOfReview, CommandKeeps DEF RefuseReview
<1>11. CASE \E text \in Texts \union {None}, refutations \in RefutationLists :
              SaveReview(text, refutations)
  BY <1>11, SaveKeeps DEF SaveReview
<1>12. CASE Edit
  BY <1>12, EditKeeps DEF Edit
<1>13. CASE CommitOutside \/ Rework
  BY <1>13, OutsideKeeps DEF CommitOutside
<1>14. CASE UNCHANGED vars
  BY <1>14, CommandKeeps DEF vars, ReviewInvariant, TypeOK, CleanReading
<1> QED
  BY <1>1, <1>2, <1>3, <1>4, <1>5, <1>6, <1>7, <1>8, <1>9, <1>10, <1>11, <1>12, <1>13, <1>14
  DEF Next

\* The invariant holds from the start.
LEMMA ReviewInvariantHolds == Spec => []ReviewInvariant
<1>1. Init => ReviewInvariant
  <2> SUFFICES ASSUME Init PROVE ReviewInvariant
    OBVIOUS
  <2>1. TypeOK
    BY NotRunningIsCommand, ReviewAssumption DEF Init, TypeOK
  <2>2. (\A r \in Reviewers : CleanTier1(r)) /\ CleanFiles /\ CleanReading
    BY NotRunningIsCommand DEF Init, CleanTier1, CleanFiles, CleanReading, Running
  <2> QED
    BY <2>1, <2>2 DEF ReviewInvariant
<1>2. ReviewInvariant /\ [Next]_vars => ReviewInvariant'
  BY StepKeeps
<1> QED
  BY <1>1, <1>2, PTL DEF Spec

\* The type invariant, for every instance.
THEOREM ReviewTypeCorrect == Spec => []TypeOK
<1>1. ReviewInvariant => TypeOK
  BY DEF ReviewInvariant
<1> QED
  BY <1>1, ReviewInvariantHolds, PTL

\* A review recorded as verified by a supplied report is of the base and the content
\* the report is about, for any number of reviewers, edits and commits: what the
\* report is about is what its sidecar says, and the review compared the sidecar
\* with its own base and its own digest.
THEOREM VerifiedMeansThisTree == Spec => VerifiedReportIsOfThisTree
<1> DEFINE Decided ==
             task'.rounds # task.rounds /\ task'.record.verified
                 /\ cmd.supplied /\ cmd.clean /\ cmd.report.clean
             => cmd.report.of = <<cmd.base, cmd.reviewed>>
<1>1. ReviewInvariant /\ [Next]_vars => Decided
  <2> SUFFICES ASSUME ReviewInvariant, [Next]_vars,
                      task'.rounds # task.rounds, task'.record.verified,
                      cmd.supplied, cmd.clean, cmd.report.clean
               PROVE  cmd.report.of = <<cmd.base, cmd.reviewed>>
    OBVIOUS
  <2>1. cmd.pc = "decide" /\ critiqueVerified
    BY StepKeeps
  <2>2. ~critiqueProvenanceMismatch(cmd.provenance, cmd.base, cmd.commit, cmd.digest)
    BY <2>1 DEF critiqueVerified
  <2>3. /\ cmd.provenance # None /\ cmd.provenance.base = cmd.base
        /\ cmd.digest # None /\ cmd.provenance.digest = cmd.digest
    BY <2>2 DEF critiqueProvenanceMismatch
  <2> QED
    BY <2>1, <2>3 DEF ReviewInvariant, CleanReading
<1>2. ReviewInvariant /\ [Next]_vars => [Decided]_vars
  BY <1>1
<1> QED
  BY <1>2, ReviewInvariantHolds, PTL DEF Spec, VerifiedReportIsOfThisTree

-----------------------------------------------------------------------------
(* Refutations.                                                            *)

\* What the fold over the refutations works on.
Answering == [findings : Reports, consumed : SUBSET Nat, refused : BOOLEAN]

RefuteFold == INSTANCE FoldTheorems
    WITH Add <- Refute, Values <- Answering, Elements <- Refutations

\* The finding a refutation singles out among the open ones.
Singled(done, refutation) == CHOOSE i \in Open(done, refutation) : Open(done, refutation) = {i}

\* A refutation is refused, or takes one open finding that asks for a change.
LEMMA RefuteTakesOne ==
    ASSUME NEW done \in Answering, NEW refutation \in Refutations
    PROVE  LET next == Refute(done, refutation)
               i == Singled(done, refutation)
           IN  /\ next \in Answering /\ next.findings = done.findings
               /\ done.refused => next.refused
               /\ ~next.refused =>
                     /\ next.consumed = done.consumed \union {i}
                     /\ i \in blockingFindings(done.findings) \ done.consumed
                     /\ Targets(refutation, done.findings[i])
<1> DEFINE open == Open(done, refutation)
           next == Refute(done, refutation)
           i == Singled(done, refutation)
<1>1. DOMAIN done.findings \subseteq Nat
  BY ReviewAssumption DEF Answering
<1>2. open \subseteq DOMAIN done.findings \ done.consumed
  BY DEF Open
<1>3. ASSUME NEW j \in open, open = {j} PROVE i = j /\ open = {i}
  BY <1>3 DEF Singled
<1>4. CASE \E j \in open : open = {j}
  <2>1. i \in open /\ open = {i}
    BY <1>3, <1>4
  <2>2. next = [done EXCEPT !.consumed = @ \union open]
    BY <1>4 DEF Refute
  <2>3. Targets(refutation, done.findings[i]) /\ i \in DOMAIN done.findings \ done.consumed
    BY <2>1 DEF Open
  <2>4. i \in blockingFindings(done.findings)
    BY <2>3 DEF Targets, blockingFindings
  <2>5. done.consumed \union open \in SUBSET Nat
    BY <1>1, <1>2 DEF Answering
  <2> HIDE DEF open, i
  <2>6. /\ next \in Answering /\ next.findings = done.findings /\ next.refused = done.refused
        /\ next.consumed = done.consumed \union open
    BY <2>2, <2>5 DEF Answering
  <2> HIDE DEF next
  <2> QED BY <2>1, <2>3, <2>4, <2>6 DEF next, i
<1>5. CASE ~ \E j \in open : open = {j}
  <2>1. next = [done EXCEPT !.refused = TRUE]
    BY <1>5 DEF Refute
  <2> QED BY <2>1 DEF Answering
<1> QED BY <1>4, <1>5

\* Refutations that were not refused each took a finding of their own, and what
\* is consumed are these.
LEMMA RefutationsAnswer ==
    ASSUME NEW findings \in Reports, NEW refutations \in RefutationLists,
           ~resolveFindingRefutations(findings, refutations).refused
    PROVE  \E answer \in [DOMAIN refutations -> blockingFindings(findings)] :
              /\ \A i \in DOMAIN refutations : Targets(refutations[i], findings[answer[i]])
              /\ \A i, j \in DOMAIN refutations : answer[i] = answer[j] => i = j
              /\ resolveFindingRefutations(findings, refutations).consumed
                    = {answer[i] : i \in DOMAIN refutations}
<1> DEFINE start == NoRefutation(findings)
           n == Len(refutations)
<1>1. /\ refutations \in Seq(Refutations) /\ n \in Nat /\ DOMAIN refutations = 1..n
      /\ \A k \in 1..n : refutations[k] \in Refutations
  BY ReviewAssumption
<1>2. start \in Answering /\ start.findings = findings /\ start.consumed = {} /\ ~start.refused
  BY DEF NoRefutation, Answering
<1>3. \A s \in Answering, e \in Refutations : Refute(s, e) \in Answering
  BY RefuteTakesOne
<1>4. resolveFindingRefutations(findings, refutations) = RefuteFold!Fold(start, refutations)
  BY DEF resolveFindingRefutations, FoldLeft, MapThenFoldSet, Max, RefuteFold!Fold,
         RefuteFold!FoldLeft, RefuteFold!MapThenFoldSet, RefuteFold!Max
<1> HIDE DEF start, n
<1>5. PICK p \in [0..n -> Answering] :
          /\ p[0] = start
          /\ \A k \in 1..n : p[k] = Refute(p[k - 1], refutations[k])
          /\ RefuteFold!Fold(start, refutations) = p[n]
  BY <1>1, <1>2, <1>3, RefuteFold!FoldRuns DEF n
<1> DEFINE a(k) == Singled(p[k - 1], refutations[k])
           Step(k) ==
               /\ p[k].findings = p[k - 1].findings
               /\ p[k - 1].refused => p[k].refused
               /\ ~p[k].refused =>
                     /\ p[k].consumed = p[k - 1].consumed \union {a(k)}
                     /\ a(k) \in blockingFindings(p[k - 1].findings) \ p[k - 1].consumed
                     /\ Targets(refutations[k], p[k - 1].findings[a(k)])
<1>6. \A k \in 1..n : Step(k)
  <2> TAKE k \in 1..n
  <2>1. k - 1 \in 0..n /\ p[k - 1] \in Answering /\ refutations[k] \in Refutations
    BY <1>1, <1>5
  <2>2. p[k] = Refute(p[k - 1], refutations[k])
    BY <1>5
  <2> QED BY <2>1, <2>2, RefuteTakesOne
<1> HIDE DEF a
<1> DEFINE Sound(k) ==
               /\ p[k].findings = findings
               /\ ~p[k].refused =>
                     /\ p[k].consumed = {a(i) : i \in 1..k}
                     /\ \A i \in 1..k : /\ a(i) \in blockingFindings(findings)
                                       /\ Targets(refutations[i], findings[a(i)])
                     /\ \A i, j \in 1..k : a(i) = a(j) => i = j
           T == {k \in 0..n : Sound(k)}
<1>7. 0 \in T
  BY <1>1, <1>2, <1>5
<1>8. \A k \in 0..(n - 1) : k \in T => k + 1 \in T
  <2> SUFFICES ASSUME NEW k \in 0..(n - 1), Sound(k) PROVE k + 1 \in T
    OBVIOUS
  <2>1. k + 1 \in 1..n /\ k + 1 \in 0..n /\ (k + 1) - 1 = k
    BY <1>1
  <2>2. Step(k + 1)
    BY <1>6, <2>1
  <2>3. p[k + 1].findings = findings /\ (p[k].refused => p[k + 1].refused)
    BY <2>1, <2>2
  <2>4. ASSUME ~p[k + 1].refused
        PROVE  /\ p[k + 1].consumed = {a(i) : i \in 1..(k + 1)}
               /\ \A i \in 1..(k + 1) : /\ a(i) \in blockingFindings(findings)
                                       /\ Targets(refutations[i], findings[a(i)])
               /\ \A i, j \in 1..(k + 1) : a(i) = a(j) => i = j
    <3>1. /\ p[k + 1].consumed = p[k].consumed \union {a(k + 1)}
          /\ a(k + 1) \in blockingFindings(findings) \ p[k].consumed
          /\ Targets(refutations[k + 1], findings[a(k + 1)])
      BY <2>1, <2>2, <2>4
    <3>2. /\ p[k].consumed = {a(i) : i \in 1..k}
          /\ \A i \in 1..k : /\ a(i) \in blockingFindings(findings)
                            /\ Targets(refutations[i], findings[a(i)])
          /\ \A i, j \in 1..k : a(i) = a(j) => i = j
      BY <2>2, <2>1, <2>4
    <3>3. \A i \in 1..(k + 1) : i \in 1..k \/ i = k + 1
      BY <2>1
    <3>4. \A i \in 1..k : i \in 1..(k + 1) /\ a(i) # a(k + 1)
      BY <2>1, <3>1, <3>2
    <3>5. k + 1 \in 1..(k + 1)
      BY <2>1
    <3> QED BY <3>1, <3>2, <3>3, <3>4, <3>5
  <2> QED BY <2>1, <2>3, <2>4
<1>9. T = 0..n
  <2>1. T \in SUBSET (0..n)
    OBVIOUS
  <2> HIDE DEF T
  <2> QED BY <1>1, <1>7, <1>8, <2>1, RefuteFold!UpTo
<1>10. Sound(n) /\ ~p[n].refused /\ p[n] = resolveFindingRefutations(findings, refutations)
  BY <1>1, <1>4, <1>5, <1>9
<1> DEFINE answer == [i \in DOMAIN refutations |-> a(i)]
<1>11. answer \in [DOMAIN refutations -> blockingFindings(findings)]
  BY <1>1, <1>10
<1>12. \A i \in DOMAIN refutations : answer[i] = a(i)
  OBVIOUS
<1> HIDE DEF answer
<1> QED BY <1>1, <1>10, <1>11, <1>12

-----------------------------------------------------------------------------
(* What an approval leaves open.                                           *)

\* A verdict that the second look leaves an approval was one, with nothing to object.
LEMMA ApprovalsPass ==
    ASSUME NEW status, NEW unfulfilled, NEW source, NEW remaining, NEW unverifiable \in BOOLEAN,
           applyTwoTierInvariant([status |-> status, unfulfilled |-> unfulfilled, source |-> source],
                                 remaining, unverifiable).status = "APPROVED"
    PROVE  status = "APPROVED" /\ remaining = {} /\ ~unverifiable /\ ~unfulfilled
BY DEF applyTwoTierInvariant

\* An approval that is saved is one of nothing that is open: each refutation has
\* answered a finding of its own, none that asks for a change is left, and the
\* text approves, contradicts itself nowhere and cites nothing no commit takes
\* (run-review.ts, finding-refutation.ts, ac-evidence.ts).
LEMMA SavedApproval ==
    ASSUME ReviewInvariant, NEW text \in Texts \union {None}, NEW refutations \in RefutationLists,
           SaveReview(text, refutations), task'.record.verdict = "APPROVED"
    PROVE  /\ IF Usable(cmd.report) THEN AnswersEverything(cmd.report.findings, refutations)
              ELSE refutations = <<>>
           /\ text # None => ~ContradictsApproval[text]
<1> DEFINE findings == cmd.report.findings
           done == resolution(refutations)
           first == FirstVerdict(text, cmd.report)
           remaining == IF Usable(cmd.report) THEN blockingFindings(findings) \ done.consumed ELSE {}
           entries == evidence(text).entries
           unverifiable == \E i \in DOMAIN entries :
                               classifyAcEvidence(entries[i], cmd.measured) = "unverifiable"
<1>1. cmd.pc = "decide" /\ ~Refused(text, refutations)
  BY DEF SaveReview
<1>2. applyTwoTierInvariant(first, remaining, unverifiable).status = "APPROVED"
  BY DEF SaveReview, Verdict
<1>3. PICK status, unfulfilled, source :
          /\ first = [status |-> status, unfulfilled |-> unfulfilled, source |-> source]
          /\ text # None => unfulfilled = Unfulfilled[text]
  BY DEF FirstVerdict
<1>4. unverifiable \in BOOLEAN
  OBVIOUS
<1> HIDE DEF remaining, unverifiable, first
<1>5. remaining = {} /\ ~unverifiable /\ (text # None => ~Unfulfilled[text])
  BY <1>2, <1>3, <1>4, ApprovalsPass
<1>6. ASSUME Usable(cmd.report) PROVE AnswersEverything(cmd.report.findings, refutations)
  <2>1. cmd.report \in Critiques /\ ~cmd.report.bypassed
    BY <1>1, <1>6, ReviewShapes DEF ReviewInvariant, TypeOK, Usable
  <2>2. findings \in Reports
    BY <2>1 DEF Critiques
  <2>3. done = resolveFindingRefutations(findings, refutations) /\ ~done.refused
    BY <1>1, <1>6 DEF resolution, Refused
  <2>4. blockingFindings(findings) \subseteq done.consumed
    BY <1>5, <1>6 DEF remaining
  <2> HIDE DEF findings, done
  <2>5. PICK answer \in [DOMAIN refutations -> blockingFindings(findings)] :
          /\ \A i \in DOMAIN refutations : Targets(refutations[i], findings[answer[i]])
          /\ \A i, j \in DOMAIN refutations : answer[i] = answer[j] => i = j
          /\ done.consumed = {answer[i] : i \in DOMAIN refutations}
    BY <2>2, <2>3, RefutationsAnswer
  <2>6. \A f \in blockingFindings(findings) : \E i \in DOMAIN refutations : answer[i] = f
    BY <2>4, <2>5
  <2>7. AnswersEverything(findings, refutations)
    BY <2>2, <2>5, <2>6 DEF AnswersEverything
  <2> QED BY <2>7 DEF findings
<1>7. ASSUME ~Usable(cmd.report) PROVE refutations = <<>>
  BY <1>1, <1>7 DEF Refused
<1>8. ASSUME text # None PROVE ~ContradictsApproval[text]
  <2>1. text \in Texts /\ entries = parseAcEvidence[text].entries
    BY <1>8 DEF evidence
  <2>2. ASSUME NEW i \in DOMAIN entries
        PROVE  ~ \/ entries[i].status = "unverifiable"
                 \/ entries[i].status = "met" /\ {"excluded", "outside"} \intersect entries[i].paths # {}
    <3>1. classifyAcEvidence(entries[i], cmd.measured) # "unverifiable"
      BY <1>5, <2>2 DEF unverifiable
    <3>2. entries[i].status # "met" => entries[i].status # "unverifiable"
      BY <3>1 DEF classifyAcEvidence
    <3>3. entries[i].status = "met" /\ entries[i].paths # {} =>
             ~ \E place \in entries[i].paths : UnverifiablePath(place, cmd.measured)
      BY <3>1 DEF classifyAcEvidence
    <3> QED BY <3>2, <3>3 DEF UnverifiablePath
  <2>3. ~Unfulfilled[text]
    BY <1>5, <1>8
  <2> HIDE DEF entries
  <2> QED BY <2>1, <2>2, <2>3 DEF ContradictsApproval
<1> QED BY <1>6, <1>7, <1>8

\* An approval that is recorded leaves no finding that asks for a change without a
\* refutation of its own, uses up every refutation, lists no unfulfilled
\* criterion and cites nothing that cannot be verified, for reports, refutations
\* and verdict texts of any length (run-review.ts).
THEOREM ApprovalsLeaveNothingOpen == Spec => ApprovedLeavesNothingOpen
<1>1. ReviewInvariant /\ [Next]_vars
        => [\A text \in Texts \union {None}, refutations \in RefutationLists :
               cmd.pc = "decide" /\ task'.rounds > task.rounds /\ task'.record.verdict = "APPROVED"
               /\ SaveReview(text, refutations)
               => /\ IF Usable(cmd.report) THEN AnswersEverything(cmd.report.findings, refutations)
                     ELSE refutations = <<>>
                  /\ text # None => ~ContradictsApproval[text]]_vars
  BY SavedApproval
<1> QED
  BY <1>1, ReviewInvariantHolds, PTL DEF Spec, ApprovedLeavesNothingOpen
=============================================================================
