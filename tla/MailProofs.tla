----------------------------- MODULE MailProofs -----------------------------
(***************************************************************************)
(* Theorems about Mail, for every set of writing and reading runs and any  *)
(* number of faults.                                                       *)
(***************************************************************************)
EXTENDS Mail, TLAPS

\* A run that is given a record of its type leaves the others alone.
LEMMA RunType ==
  ASSUME TypeOK, NEW p \in Procs, NEW r \in RunRecords,
         proc' = [proc EXCEPT ![p] = r]
  PROVE  /\ proc' \in [Procs -> RunRecords]
         /\ proc'[p] = r
         /\ \A q \in Procs \ {p} : proc'[q] = proc[q]
BY DEF TypeOK

\* The records of a run that has not named, listed or shown anything yet.
Fresh(r) ==
  /\ r.names = <<>> /\ r.sent = 0
  /\ r.looked = 0 /\ r.list = <<>> /\ r.shown = <<>>

\* Without a mail there is nothing on the page.
LEMMA EmptyPage == Least(PageSize, 0) = 0
BY PageAssumption DEF Least

LEMMA NewRunType == NewRun \in RunRecords /\ Fresh(NewRun)
BY DEF NewRun, RunRecords, Fresh, Messagers, UserSet, KeySet

LEMMA DeadType ==
  Dead \in RunRecords /\ Fresh(Dead) /\ Dead.pc = "dead" /\ Dead.messager = "traditional"
BY NewRunType DEF Dead, NewRun, RunRecords, Fresh

\* The invariant but for the keys survives a step that leaves the service as
\* it is and a run before its first message, or dead.
LEMMA FreshStep ==
  ASSUME IInv, NEW p \in Procs, NEW r \in RunRecords,
         proc' = [proc EXCEPT ![p] = r], Fresh(r),
         r.pc \notin {"idle", "metadata", "print", "fetch", "done"},
         r.pc = "content" => p \in Writers, r.pc = "list" => p \in Readers,
         UNCHANGED <<contents, stream>>, raced => raced', raced' \in BOOLEAN
  PROVE  /\ proc' \in [Procs -> RunRecords]
         /\ \A q \in Procs :
              Len(proc'[q].names) <= 2 /\ proc'[q].sent <= Len(proc'[q].names)
         /\ RunsInv' /\ NamesInv' /\ AnnouncedInv' /\ NoDanglingMail' /\ MailsInOrder'
         /\ ListsInv' /\ MailsReadable'
<1> USE DEF IInv, Fresh
<1>1. /\ proc' \in [Procs -> RunRecords]
      /\ proc'[p] = r
      /\ \A q \in Procs \ {p} : proc'[q] = proc[q]
  BY RunType
<1>2. \A q \in Procs :
        Len(proc'[q].names) <= 2 /\ proc'[q].sent <= Len(proc'[q].names)
  BY <1>1 DEF TypeOK
<1>3. RunsInv'
  BY <1>1, EmptyPage DEF RunsInv, RunOK
<1>4. NamesInv'
  BY <1>1 DEF NamesInv, Content
<1>5. AnnouncedInv'
  BY <1>1 DEF AnnouncedInv, EmailMetaMessage
<1>6. NoDanglingMail' /\ MailsInOrder'
  BY DEF NoDanglingMail, MailsInOrder
<1>7. ListsInv'
  <2>1. r.messager \in Messagers
    BY DEF RunRecords
  <2>2. Len(stream[r.messager]) >= 0
    BY <2>1 DEF TypeOK
  <2> QED BY <1>1, <2>2 DEF ListsInv, ListOK
<1>8. MailsReadable'
  BY <1>1 DEF MailsReadable, Procs
<1> QED BY <1>1, <1>2, <1>3, <1>4, <1>5, <1>6, <1>7, <1>8

LEMMA UsersFacts ==
  ASSUME TypeOK, NEW p \in Procs
  PROVE  /\ proc[p].user \in {1, 2} /\ Users[proc[p].user] \in UserSet
         /\ Users[1] = "alice" /\ Users[2] = "bob" /\ Len(Users) = 2
         /\ proc[p].user = 2 <=> Users[proc[p].user] = "bob"
<1>1. proc[p].user \in {1, 2}
  BY DEF TypeOK, RunRecords
<1> QED BY <1>1 DEF Users, UserSet

LEMMA GetMessagerStep ==
  ASSUME IInv, NEW p \in Procs, NEW m \in Messagers, GetMessager(p, m)
  PROVE  IInv'
<1> DEFINE r == [proc[p] EXCEPT !.messager = m,
                   !.pc = IF m = "pgp_e2ee" THEN "load" ELSE "session"]
<1>1. /\ proc[p] \in RunRecords /\ Fresh(proc[p])
      /\ proc[p].pc = "idle" /\ proc[p].user = 1
      /\ proc' = [proc EXCEPT ![p] = r]
  BY DEF GetMessager, IInv, TypeOK, RunsInv, RunOK, Fresh
<1>2. /\ r \in RunRecords /\ Fresh(r) /\ r.pc \in {"load", "session"}
      /\ r.messager = m /\ (m = "pgp_e2ee" <=> r.pc = "load")
      /\ r.user = proc[p].user /\ r.keys = proc[p].keys
  BY <1>1 DEF RunRecords, Fresh, Messagers
<1> HIDE DEF r
<1>3. /\ raced' \in BOOLEAN /\ (raced => raced')
      /\ ~raced' /\ m = "pgp_e2ee" => \A q \in Procs \ {p} : ~InInit(q)
      /\ UNCHANGED <<validating, file, token, contents, stream, faults>>
  BY DEF GetMessager, IInv, TypeOK
<1>4. /\ proc' \in [Procs -> RunRecords]
      /\ \A q \in Procs :
           Len(proc'[q].names) <= 2 /\ proc'[q].sent <= Len(proc'[q].names)
      /\ RunsInv' /\ NamesInv' /\ AnnouncedInv' /\ NoDanglingMail' /\ MailsInOrder'
      /\ ListsInv' /\ MailsReadable'
  BY <1>1, <1>2, <1>3, FreshStep
<1>5. TypeOK'
  BY <1>3, <1>4 DEF IInv, TypeOK
<1>6. KeysInv'
  <2>1. proc'[p] = r /\ \A q \in Procs \ {p} : proc'[q] = proc[q]
    BY <1>1, <1>2, RunType DEF IInv
  <2> SUFFICES ASSUME ~raced'
               PROVE  OneMaker' /\ MakersInv' /\ HoldersInv' /\ SealedInv'
    BY DEF KeysInv
  <2>2. OneMaker /\ MakersInv /\ HoldersInv /\ SealedInv
    BY <1>3 DEF IInv, KeysInv
  <2>3. OneMaker'
    BY <1>2, <1>3, <2>1, <2>2 DEF OneMaker, InInit
  <2>4. MakersInv'
    <3>1. InInit(p)' => MakerOK(p, r, file)
      BY <1>1, <1>2, <2>1 DEF MakerOK, InInit
    <3> QED BY <1>3, <2>1, <2>2, <3>1 DEF MakersInv, InInit
  <2>5. HoldersInv' /\ SealedInv'
    <3>1. HolderOK(r, file)
      BY <1>2 DEF HolderOK
    <3> QED BY <1>3, <2>1, <2>2, <3>1 DEF HoldersInv, SealedInv
  <2> QED BY <2>3, <2>4, <2>5
<1> QED BY <1>4, <1>5, <1>6 DEF IInv

LEMMA NextUserType ==
  ASSUME NEW run \in RunRecords, Fresh(run)
  PROVE  /\ NextUser(run) \in RunRecords /\ Fresh(NextUser(run))
         /\ NextUser(run).keys = run.keys /\ NextUser(run).messager = run.messager
         /\ run.user = 1 => NextUser(run).pc = "load" /\ NextUser(run).user = 2
         /\ run.user = 2 => NextUser(run).pc = "session" /\ NextUser(run).user = 2
<1>1. Len(Users) = 2 /\ run.user \in {1, 2}
  BY DEF Users, RunRecords
<1>2. CASE run.user = 1
  <2> DEFINE a == [run EXCEPT !.pc = "load", !.user = 2]
  <2>1. NextUser(run) = a
    BY <1>1, <1>2 DEF NextUser
  <2>2. a \in RunRecords /\ Fresh(a)
    BY DEF RunRecords, Fresh
  <2>3. a.keys = run.keys /\ a.messager = run.messager /\ a.pc = "load" /\ a.user = 2
    BY DEF RunRecords
  <2> QED BY <1>2, <2>1, <2>2, <2>3
<1>3. CASE run.user = 2
  <2> DEFINE a == [run EXCEPT !.pc = "session"]
  <2>1. NextUser(run) = a
    BY <1>1, <1>3 DEF NextUser
  <2>2. a \in RunRecords /\ Fresh(a)
    BY DEF RunRecords, Fresh
  <2>3. a.keys = run.keys /\ a.messager = run.messager /\ a.pc = "session" /\ a.user = 2
    BY <1>3 DEF RunRecords
  <2> QED BY <1>3, <2>1, <2>2, <2>3
<1> QED BY <1>1, <1>2, <1>3

LEMMA LoadKeyStep ==
  ASSUME IInv, NEW p \in Procs, LoadKey(p)
  PROVE  IInv'
<1> DEFINE u == Users[proc[p].user]
           made == [proc[p] EXCEPT !.keys[u] = p, !.pc = "truncate"]
           kept == [proc[p] EXCEPT !.keys[u] = file[u]]
           r == IF file[u] \in {None, Torn} THEN made ELSE NextUser(kept)
<1>1. /\ proc[p] \in RunRecords /\ Fresh(proc[p]) /\ proc[p].pc = "load"
      /\ u \in UserSet /\ file[u] \in KeySet \cup {Torn}
  BY UsersFacts DEF LoadKey, IInv, TypeOK, RunsInv, RunOK, Fresh
<1>2. /\ made \in RunRecords /\ Fresh(made) /\ made.pc = "truncate"
      /\ made.user = proc[p].user /\ made.keys = [proc[p].keys EXCEPT ![u] = p]
  BY <1>1 DEF RunRecords, Fresh, KeySet
<1>3. file[u] \notin {None, Torn} =>
        /\ kept \in RunRecords /\ Fresh(kept)
        /\ kept.user = proc[p].user /\ kept.keys = [proc[p].keys EXCEPT ![u] = file[u]]
  BY <1>1 DEF RunRecords, Fresh, KeySet
<1>4. /\ proc' = [proc EXCEPT ![p] = r]
      /\ UNCHANGED <<validating, file, token, contents, stream, raced, faults>>
  BY DEF LoadKey
<1> HIDE DEF made, kept
<1>5. /\ r \in RunRecords /\ Fresh(r) /\ r.pc \in {"load", "truncate", "session"}
  BY <1>2, <1>3, NextUserType DEF RunRecords
<1> HIDE DEF r
<1>6. /\ proc' \in [Procs -> RunRecords]
      /\ \A q \in Procs :
           Len(proc'[q].names) <= 2 /\ proc'[q].sent <= Len(proc'[q].names)
      /\ RunsInv' /\ NamesInv' /\ AnnouncedInv' /\ NoDanglingMail' /\ MailsInOrder'
      /\ ListsInv' /\ MailsReadable'
  BY <1>4, <1>5, FreshStep DEF IInv, TypeOK
<1>7. TypeOK'
  BY <1>4, <1>6 DEF IInv, TypeOK
<1>8. KeysInv'
  <2>1. proc'[p] = r /\ \A q \in Procs \ {p} : proc'[q] = proc[q]
    BY <1>4, <1>5, RunType DEF IInv
  <2> SUFFICES ASSUME ~raced
               PROVE  OneMaker' /\ MakersInv' /\ HoldersInv' /\ SealedInv'
    BY <1>4 DEF KeysInv
  <2>2. OneMaker /\ MakersInv /\ HoldersInv /\ SealedInv
    BY DEF IInv, KeysInv
  <2>3. OneMaker'
    BY <1>1, <1>5, <2>1, <2>2 DEF OneMaker, InInit
  <2>4. u = "bob" <=> proc[p].user = 2
    BY UsersFacts DEF IInv
  <2>5. proc[p].keys \in [UserSet -> KeySet] /\ file \in [UserSet -> KeySet \cup {Torn}]
        /\ proc[p].user \in {1, 2}
    BY <1>1 DEF IInv, TypeOK, RunRecords
  <2>6. proc[p].user = 2 =>
          file["alice"] \in Procs /\ proc[p].keys["alice"] = file["alice"]
    BY <1>1, <2>2 DEF MakersInv, MakerOK, InInit
  <2>7. MakersInv' /\ HoldersInv'
    <3>1. CASE file[u] \in {None, Torn}
      <4>1. r.pc = "truncate" /\ r.user = proc[p].user
            /\ r.keys = [proc[p].keys EXCEPT ![u] = p]
        BY <1>2, <3>1 DEF r
      <4>2. file[u] \notin Procs
        BY <3>1, ProcsAssumption, TornAssumption
      <4>3. r.user = 2 => r.keys["alice"] = file["alice"]
        BY <2>4, <2>5, <2>6, <4>1 DEF UserSet
      <4>4. r.keys[u] = p
        BY <1>1, <2>5, <4>1
      <4>5. MakerOK(p, r, file)
        BY <2>6, <4>1, <4>2, <4>3, <4>4 DEF MakerOK
      <4>6. HolderOK(r, file)
        BY <4>1 DEF HolderOK
      <4> QED BY <1>4, <2>1, <2>2, <4>5, <4>6 DEF MakersInv, HoldersInv, InInit
    <3>2. CASE file[u] \notin {None, Torn}
      <4>1. /\ r.keys = [proc[p].keys EXCEPT ![u] = file[u]] /\ r.user = 2
            /\ r.pc = (IF proc[p].user = 1 THEN "load" ELSE "session")
        BY <1>3, <2>5, <3>2, NextUserType DEF r
      <4>2. file[u] \in Procs
        BY <1>1, <3>2 DEF KeySet
      <4>3. file["alice"] \in Procs /\ r.keys["alice"] = file["alice"]
        BY <1>1, <2>4, <2>5, <2>6, <4>1, <4>2 DEF UserSet
      <4>4. proc[p].user = 2 => r.keys = file /\ KeysOnFile(file)
        <5> SUFFICES ASSUME proc[p].user = 2 PROVE r.keys = file /\ KeysOnFile(file)
          OBVIOUS
        <5>1. \A v \in UserSet : r.keys[v] = file[v] /\ file[v] \in Procs
          BY <2>4, <2>5, <4>1, <4>2, <4>3 DEF UserSet
        <5> QED BY <2>5, <4>1, <5>1 DEF KeysOnFile
      <4>5. InInit(p)' => MakerOK(p, r, file)
        BY <2>1, <4>1, <4>3 DEF MakerOK, InInit
      <4>6. HolderOK(r, file)
        BY <2>5, <4>1, <4>4 DEF HolderOK
      <4> QED BY <1>4, <2>1, <2>2, <4>5, <4>6 DEF MakersInv, HoldersInv, InInit
    <3> QED BY <3>1, <3>2
  <2>8. SealedInv'
    BY <1>4, <2>2 DEF SealedInv
  <2> QED BY <2>3, <2>7, <2>8
<1> QED BY <1>6, <1>7, <1>8 DEF IInv

\* While a user has no key on file nobody is past making keys, and there are no
\* encrypted mails.
LEMMA NoKeyYet ==
  ASSUME HoldersInv, SealedInv, NEW u \in UserSet, file[u] \notin Procs
  PROVE  /\ \A q \in Procs : \A f : HolderOK(proc[q], f)
         /\ stream' = stream => SealedInv'
BY DEF HoldersInv, HolderOK, SealedInv, SealedOK, KeysOnFile

LEMMA TruncateStep ==
  ASSUME IInv, NEW p \in Procs, Truncate(p)
  PROVE  IInv'
<1> DEFINE u == Users[proc[p].user]
           r == [proc[p] EXCEPT !.pc = "save"]
<1>1. /\ proc[p] \in RunRecords /\ Fresh(proc[p]) /\ proc[p].pc = "truncate"
      /\ u \in UserSet /\ proc' = [proc EXCEPT ![p] = r]
      /\ file' = [file EXCEPT ![u] = Torn]
      /\ UNCHANGED <<validating, token, contents, stream, raced, faults>>
  BY UsersFacts DEF Truncate, IInv, TypeOK, RunsInv, RunOK, Fresh
<1>2. /\ r \in RunRecords /\ Fresh(r) /\ r.pc = "save"
      /\ r.user = proc[p].user /\ r.keys = proc[p].keys
  BY <1>1 DEF RunRecords, Fresh
<1> HIDE DEF r
<1>3. /\ proc' \in [Procs -> RunRecords]
      /\ \A q \in Procs :
           Len(proc'[q].names) <= 2 /\ proc'[q].sent <= Len(proc'[q].names)
      /\ RunsInv' /\ NamesInv' /\ AnnouncedInv' /\ NoDanglingMail' /\ MailsInOrder'
      /\ ListsInv' /\ MailsReadable'
  BY <1>1, <1>2, FreshStep DEF IInv, TypeOK
<1>4. TypeOK'
  BY <1>1, <1>3 DEF IInv, TypeOK
<1>5. KeysInv'
  <2>1. proc'[p] = r /\ \A q \in Procs \ {p} : proc'[q] = proc[q]
    BY <1>1, <1>2, RunType DEF IInv
  <2> SUFFICES ASSUME ~raced
               PROVE  OneMaker' /\ MakersInv' /\ HoldersInv' /\ SealedInv'
    BY <1>1 DEF KeysInv
  <2>2. OneMaker /\ MakersInv /\ HoldersInv /\ SealedInv
    BY DEF IInv, KeysInv
  <2>3. OneMaker'
    BY <1>1, <1>2, <2>1, <2>2 DEF OneMaker, InInit
  <2>4. MakerOK(p, proc[p], file)
    BY <1>1, <2>2 DEF MakersInv, InInit
  <2>5. file[u] \notin Procs /\ proc[p].keys[u] = p
    BY <1>1, <2>4 DEF MakerOK
  <2>6. HoldersInv' /\ SealedInv'
    <3>1. HolderOK(r, file')
      BY <1>2 DEF HolderOK
    <3> QED BY <1>1, <2>1, <2>2, <2>5, <3>1, NoKeyYet DEF HoldersInv
  <2>7. MakersInv'
    <3>1. MakerOK(p, r, file')
      <4>1. file'[u] = Torn /\ \A v \in UserSet \ {u} : file'[v] = file[v]
        BY <1>1 DEF IInv, TypeOK
      <4>2. r.user = 2 => u = "bob" /\ file'["alice"] = file["alice"]
        BY <1>2, <4>1, UsersFacts DEF IInv, UserSet
      <4> QED BY <1>1, <1>2, <2>4, <2>5, <4>1, <4>2, TornAssumption DEF MakerOK
    <3>2. \A q \in Procs : InInit(q)' => q = p
      BY <1>1, <2>1, <2>2 DEF OneMaker, InInit
    <3> QED BY <2>1, <3>1, <3>2 DEF MakersInv, InInit
  <2> QED BY <2>3, <2>6, <2>7
<1> QED BY <1>3, <1>4, <1>5 DEF IInv

LEMMA SaveKeyStep ==
  ASSUME IInv, NEW p \in Procs, SaveKey(p)
  PROVE  IInv'
<1> DEFINE u == Users[proc[p].user]
           r == NextUser(proc[p])
<1>1. PICK k \in {proc[p].keys[u]} \cup (IF file[u] = Torn THEN {} ELSE {Torn}) :
        file' = [file EXCEPT ![u] = k]
  BY DEF SaveKey
<1>2. /\ proc[p] \in RunRecords /\ Fresh(proc[p]) /\ proc[p].pc = "save"
      /\ u \in UserSet /\ proc' = [proc EXCEPT ![p] = r]
      /\ UNCHANGED <<validating, token, contents, stream, raced, faults>>
  BY UsersFacts DEF SaveKey, IInv, TypeOK, RunsInv, RunOK, Fresh
<1>3. /\ r \in RunRecords /\ Fresh(r) /\ r.keys = proc[p].keys
      /\ proc[p].user = 1 => r.pc = "load" /\ r.user = 2
      /\ proc[p].user = 2 => r.pc = "session" /\ r.user = 2
      /\ proc[p].user \in {1, 2} /\ proc[p].keys \in [UserSet -> KeySet]
  BY <1>2, NextUserType DEF RunRecords
<1> HIDE DEF r
<1>4. /\ proc' \in [Procs -> RunRecords]
      /\ \A q \in Procs :
           Len(proc'[q].names) <= 2 /\ proc'[q].sent <= Len(proc'[q].names)
      /\ RunsInv' /\ NamesInv' /\ AnnouncedInv' /\ NoDanglingMail' /\ MailsInOrder'
      /\ ListsInv' /\ MailsReadable'
  BY <1>2, <1>3, FreshStep DEF IInv, TypeOK
<1>5. TypeOK'
  <2>1. k \in KeySet \cup {Torn}
    BY <1>1, <1>2, <1>3
  <2> QED BY <1>1, <1>2, <1>4, <2>1 DEF IInv, TypeOK
<1>6. KeysInv'
  <2>1. proc'[p] = r /\ \A q \in Procs \ {p} : proc'[q] = proc[q]
    BY <1>2, <1>3, RunType DEF IInv
  <2> SUFFICES ASSUME ~raced
               PROVE  OneMaker' /\ MakersInv' /\ HoldersInv' /\ SealedInv'
    BY <1>2 DEF KeysInv
  <2>2. OneMaker /\ MakersInv /\ HoldersInv /\ SealedInv
    BY DEF IInv, KeysInv
  <2>3. OneMaker'
    BY <1>2, <2>1, <2>2 DEF OneMaker, InInit
  <2>4. MakerOK(p, proc[p], file)
    BY <1>2, <2>2 DEF MakersInv, InInit
  <2>5. /\ file[u] \notin Procs /\ proc[p].keys[u] = p /\ file[u] = Torn
        /\ proc[p].user = 2 =>
             file["alice"] \in Procs /\ proc[p].keys["alice"] = file["alice"]
    BY <1>2, <2>4 DEF MakerOK
  <2>6. /\ file \in [UserSet -> KeySet \cup {Torn}]
        /\ file'[u] = p /\ \A v \in UserSet \ {u} : file'[v] = file[v]
    BY <1>1, <1>2, <2>5 DEF IInv, TypeOK
  <2>7. proc[p].user = 2 <=> u = "bob"
    BY UsersFacts DEF IInv
  <2>8. file'["alice"] \in Procs /\ r.keys["alice"] = file'["alice"]
    BY <1>2, <1>3, <2>5, <2>6, <2>7 DEF UserSet
  <2>9. HoldersInv' /\ SealedInv'
    <3>1. proc[p].user = 2 => r.keys = file' /\ KeysOnFile(file')
      <4> SUFFICES ASSUME proc[p].user = 2 PROVE r.keys = file' /\ KeysOnFile(file')
        OBVIOUS
      <4>1. \A v \in UserSet : r.keys[v] = file'[v] /\ file'[v] \in Procs
        BY <1>3, <2>5, <2>6, <2>7, <2>8 DEF UserSet
      <4> QED BY <1>1, <1>3, <2>6, <4>1 DEF KeysOnFile
    <3>2. HolderOK(r, file')
      BY <1>3, <3>1 DEF HolderOK
    <3> QED BY <1>2, <2>1, <2>2, <2>5, <3>2, NoKeyYet DEF HoldersInv
  <2>10. MakersInv'
    <3>1. InInit(p)' => MakerOK(p, r, file')
      BY <1>3, <2>1, <2>8 DEF MakerOK, InInit
    <3>2. \A q \in Procs : InInit(q)' => q = p
      BY <1>2, <2>1, <2>2 DEF OneMaker, InInit
    <3> QED BY <2>1, <3>1, <3>2 DEF MakersInv, InInit
  <2> QED BY <2>3, <2>9, <2>10
<1> QED BY <1>4, <1>5, <1>6 DEF IInv

\* The account of the keys survives a step after which a run makes none, holds
\* those on file if it holds any, and the mails are sealed with them.
LEMMA KeysKept ==
  ASSUME IInv, NEW p \in Procs, NEW r \in RunRecords, proc' = [proc EXCEPT ![p] = r],
         file' = file, raced => raced', r.pc \notin {"load", "truncate", "save"},
         ~raced' => HolderOK(r, file) /\ SealedInv'
  PROVE  KeysInv'
<1>1. proc'[p] = r /\ \A q \in Procs \ {p} : proc'[q] = proc[q]
  BY RunType DEF IInv
<1> SUFFICES ASSUME ~raced'
             PROVE  OneMaker' /\ MakersInv' /\ HoldersInv'
  BY DEF KeysInv
<1>2. OneMaker /\ MakersInv /\ HoldersInv
  BY DEF IInv, KeysInv
<1> QED BY <1>1, <1>2 DEF OneMaker, MakersInv, HoldersInv, InInit

LEMMA SessionTokenStep ==
  ASSUME IInv, NEW p \in Procs, SessionToken(p)
  PROVE  IInv'
<1> DEFINE r == [proc[p] EXCEPT !.pc = IF p \in Writers THEN "content" ELSE "list"]
<1>1. /\ proc[p] \in RunRecords /\ Fresh(proc[p]) /\ proc[p].pc = "session"
      /\ proc' = [proc EXCEPT ![p] = r]
      /\ UNCHANGED <<validating, file, token, contents, stream, raced, faults>>
  BY DEF SessionToken, IInv, TypeOK, RunsInv, RunOK, Fresh
<1>2. /\ r \in RunRecords /\ Fresh(r) /\ r.pc = IF p \in Writers THEN "content" ELSE "list"
      /\ r.messager = proc[p].messager /\ r.keys = proc[p].keys
  BY <1>1 DEF RunRecords, Fresh
<1> HIDE DEF r
<1>3. /\ proc' \in [Procs -> RunRecords]
      /\ \A q \in Procs :
           Len(proc'[q].names) <= 2 /\ proc'[q].sent <= Len(proc'[q].names)
      /\ RunsInv' /\ NamesInv' /\ AnnouncedInv' /\ NoDanglingMail' /\ MailsInOrder'
      /\ ListsInv' /\ MailsReadable'
  BY <1>1, <1>2, FreshStep DEF IInv, TypeOK, Procs
<1>4. TypeOK'
  BY <1>1, <1>3 DEF IInv, TypeOK
<1>5. KeysInv'
  <2>1. ~raced => HolderOK(r, file)
    BY <1>1, <1>2 DEF IInv, KeysInv, HoldersInv, HolderOK
  <2>2. ~raced => SealedInv'
    BY <1>1 DEF IInv, KeysInv, SealedInv
  <2> QED BY <1>1, <1>2, <2>1, <2>2, KeysKept
<1> QED BY <1>3, <1>4, <1>5 DEF IInv

\* A run that dies takes nothing along but what only it had.
LEMMA DeathStep ==
  ASSUME IInv, NEW p \in Procs, proc' = [proc EXCEPT ![p] = Dead],
         raced' \in BOOLEAN, raced => raced', faults' \in 0 .. MaxFaults,
         UNCHANGED <<validating, file, token, stream>>,
         contents \subseteq contents', contents' \subseteq ContentSet
  PROVE  IInv'
<1>1. /\ proc' \in [Procs -> RunRecords]
      /\ proc'[p] = Dead
      /\ \A q \in Procs \ {p} : proc'[q] = proc[q]
  BY DeadType, RunType DEF IInv
<1>2. Dead.names = <<>> /\ Dead.sent = 0 /\ Dead.list = <<>> /\ Dead.shown = <<>>
      /\ Dead.looked = 0 /\ Dead.pc = "dead" /\ Dead.messager = "traditional"
  BY DeadType DEF Fresh
<1>3. TypeOK'
  BY <1>1, <1>2 DEF IInv, TypeOK
<1>4. RunsInv'
  BY <1>1, <1>2, EmptyPage DEF IInv, RunsInv, RunOK
<1>5. NamesInv'
  BY <1>1, <1>2 DEF IInv, NamesInv, Content
<1>6. AnnouncedInv'
  BY <1>1, <1>2 DEF IInv, AnnouncedInv, EmailMetaMessage
<1>7. NoDanglingMail' /\ MailsInOrder'
  BY DEF IInv, NoDanglingMail, MailsInOrder
<1>8. ListsInv'
  <2>1. Len(stream["traditional"]) >= 0
    BY DEF IInv, TypeOK, Messagers
  <2> QED BY <1>1, <1>2, <2>1 DEF IInv, ListsInv, ListOK
<1>9. MailsReadable'
  BY <1>1, <1>2 DEF IInv, MailsReadable, Procs
<1>10. KeysInv'
  <2>1. HolderOK(Dead, file)
    BY <1>2 DEF HolderOK
  <2>2. ~raced => SealedInv'
    BY DEF IInv, KeysInv, SealedInv
  <2> QED BY <1>2, <2>1, <2>2, KeysKept, DeadType
<1> QED BY <1>3, <1>4, <1>5, <1>6, <1>7, <1>8, <1>9, <1>10 DEF IInv

LEMMA GetAuthTokenStep ==
  ASSUME IInv, NEW p \in Readers, GetAuthToken(p)
  PROVE  IInv'
<1> DEFINE r == [proc[p] EXCEPT !.subject = token]
<1>1. /\ p \in Procs /\ proc[p] \in RunRecords /\ Fresh(proc[p])
      /\ proc[p].pc = "session" /\ token \in UserSet \cup {None}
      /\ UNCHANGED <<validating, file, token, contents, stream, raced, faults>>
  BY DEF GetAuthToken, IInv, TypeOK, RunsInv, RunOK, Fresh, Procs
<1>2. CASE proc' = [proc EXCEPT ![p] = Dead]
  BY <1>1, <1>2, DeathStep DEF IInv, TypeOK
<1>3. CASE proc' = [proc EXCEPT ![p] = r]
  <2>1. /\ r \in RunRecords /\ Fresh(r) /\ r.pc = "session"
        /\ r.messager = proc[p].messager /\ r.keys = proc[p].keys
    BY <1>1 DEF RunRecords, Fresh
  <2> HIDE DEF r
  <2>2. /\ proc' \in [Procs -> RunRecords]
        /\ \A q \in Procs :
             Len(proc'[q].names) <= 2 /\ proc'[q].sent <= Len(proc'[q].names)
        /\ RunsInv' /\ NamesInv' /\ AnnouncedInv' /\ NoDanglingMail' /\ MailsInOrder'
        /\ ListsInv' /\ MailsReadable'
    BY <1>1, <1>3, <2>1, FreshStep DEF IInv, TypeOK
  <2>3. TypeOK'
    BY <1>1, <2>2 DEF IInv, TypeOK
  <2>4. KeysInv'
    <3>1. ~raced => HolderOK(r, file)
      BY <1>1, <2>1 DEF IInv, KeysInv, HoldersInv, HolderOK
    <3>2. ~raced => SealedInv'
      BY <1>1 DEF IInv, KeysInv, SealedInv
    <3> QED BY <1>1, <1>3, <2>1, <3>1, <3>2, KeysKept
  <2> QED BY <2>2, <2>3, <2>4 DEF IInv
<1> QED BY <1>2, <1>3 DEF GetAuthToken

LEMMA DieStep ==
  ASSUME IInv, NEW p \in Procs, Die(p)
  PROVE  IInv'
<1>1. raced' \in BOOLEAN /\ (raced => raced') /\ faults' \in 0 .. MaxFaults
  BY FaultsAssumption DEF Die, Fault, InInit, IInv, TypeOK
<1> QED BY <1>1, DeathStep DEF Die, IInv, TypeOK

LEMMA ContentType ==
  ASSUME TypeOK, NEW p \in Writers, NEW n \in {1, 2}
  PROVE  Content(p, proc[p], n) \in ContentSet
<1>1. proc[p].keys \in [UserSet -> KeySet]
  BY DEF TypeOK, RunRecords, Procs
<1>2. proc[p].keys["bob"] \in KeySet /\ proc[p].keys["alice"] \in KeySet
  BY <1>1 DEF UserSet
<1> QED BY <1>2 DEF Content, ContentSet, KeySet

LEMMA SendContentStep ==
  ASSUME IInv, NEW p \in Writers, SendContent(p)
  PROVE  IInv'
<1> DEFINE n == Len(proc[p].names) + 1
           new == Content(p, proc[p], n)
           r == [proc[p] EXCEPT !.names = Append(@, new),
                                !.pc = IF n = 2 THEN "metadata" ELSE "content"]
<1>1. /\ p \in Procs /\ proc[p] \in RunRecords /\ proc[p].pc = "content"
      /\ proc[p].names \in Seq(ContentSet) /\ Len(proc[p].names) < 2
      /\ proc[p].sent = 0 /\ proc[p].list = <<>> /\ proc[p].shown = <<>>
      /\ proc[p].looked = 0
      /\ UNCHANGED <<validating, file, token, stream, raced>>
  BY DEF SendContent, IInv, TypeOK, RunsInv, RunOK, RunRecords, Procs
<1>2. n \in {1, 2} /\ new \in ContentSet
  BY <1>1, ContentType DEF IInv
<1>3. CASE /\ contents' = contents \cup {new}
           /\ proc' = [proc EXCEPT ![p].names = Append(@, new),
                                   ![p].pc = IF n = 2 THEN "metadata" ELSE "content"]
           /\ UNCHANGED faults
  <2>1. proc' = [proc EXCEPT ![p] = r]
    BY <1>1, <1>3 DEF IInv, TypeOK
  <2>2. Append(proc[p].names, new) \in Seq(ContentSet)
    BY <1>1, <1>2
  <2>3. r \in RunRecords
    BY <1>1, <2>2 DEF RunRecords
  <2>4. /\ r.names = Append(proc[p].names, new) /\ r.sent = 0 /\ r.list = <<>> /\ r.shown = <<>>
        /\ r.pc = (IF n = 2 THEN "metadata" ELSE "content")
        /\ r.messager = proc[p].messager /\ r.keys = proc[p].keys /\ r.looked = 0
    BY <1>1 DEF RunRecords
  <2> HIDE DEF r
  <2>5. /\ proc' \in [Procs -> RunRecords]
        /\ proc'[p] = r
        /\ \A q \in Procs \ {p} : proc'[q] = proc[q]
    BY <1>1, <2>1, <2>3, RunType DEF IInv
  <2>6. Len(r.names) = n
    BY <1>1, <1>2, <2>4
  <2>7. TypeOK'
    BY <1>1, <1>2, <1>3, <2>4, <2>5, <2>6 DEF IInv, TypeOK
  <2>8. RunsInv'
    <3>1. RunOK(p, r)
      BY <1>1, <1>2, <2>4, <2>6, EmptyPage DEF RunOK
    <3> QED BY <2>5, <3>1 DEF IInv, RunsInv
  <2>9. NamesInv'
    <3>1. \A i \in DOMAIN r.names : IF i = n THEN r.names[i] = new
                                   ELSE i \in DOMAIN proc[p].names /\ r.names[i] = proc[p].names[i]
      BY <1>1, <1>2, <2>4
    <3>2. \A i : Content(p, r, i) = Content(p, proc[p], i)
      BY <2>4 DEF Content
    <3> QED BY <1>3, <2>5, <3>1, <3>2 DEF IInv, NamesInv
  <2>10. AnnouncedInv'
    BY <1>1, <2>4, <2>5, SMTT(30) DEF IInv, AnnouncedInv, EmailMetaMessage
  <2>11. NoDanglingMail' /\ MailsInOrder'
    BY <1>1, <1>3 DEF IInv, NoDanglingMail, MailsInOrder
  <2>12. ListsInv'
    <3>1. Len(stream[r.messager]) >= 0
      BY <2>3 DEF IInv, TypeOK, RunRecords
    <3> QED BY <1>1, <2>4, <2>5, <3>1, SMTT(30) DEF IInv, ListsInv, ListOK
  <2>13. MailsReadable'
    BY <1>1, <2>4, <2>5 DEF IInv, MailsReadable, Procs
  <2>14. KeysInv'
    <3>1. ~raced => HolderOK(r, file)
      BY <1>1, <2>4 DEF IInv, KeysInv, HoldersInv, HolderOK
    <3>2. ~raced => SealedInv'
      BY <1>1 DEF IInv, KeysInv, SealedInv
    <3> QED BY <1>1, <2>1, <2>3, <2>4, <3>1, <3>2, KeysKept
  <2> QED BY <2>7, <2>8, <2>9, <2>10, <2>11, <2>12, <2>13, <2>14 DEF IInv
<1>4. CASE /\ contents' \subseteq contents \cup {new} /\ contents \subseteq contents'
           /\ proc' = [proc EXCEPT ![p] = Dead] /\ faults' \in 0 .. MaxFaults
  <2>1. contents' \subseteq ContentSet
    BY <1>2, <1>4 DEF IInv, TypeOK
  <2> QED BY <1>1, <1>4, <2>1, DeathStep DEF IInv, TypeOK
<1> QED BY <1>3, <1>4, FaultsAssumption, SMTT(30) DEF SendContent, Fault, IInv, TypeOK

\* Two messages of one write differ in their number only.
LEMMA FirstOfSecond ==
  ASSUME NEW p, NEW run, run.names[1] = Content(p, run, 1),
         run.names[2] = Content(p, run, 2)
  PROVE  FirstOf(EmailMetaMessage(p, run, 2)) = EmailMetaMessage(p, run, 1)
<1>1. FirstOf(EmailMetaMessage(p, run, 2)) =
        [writer |-> p, n |-> 1, content |-> [run.names[2] EXCEPT !.n = 1]]
  BY DEF FirstOf, EmailMetaMessage
<1>2. [Content(p, run, 2) EXCEPT !.n = 1] = Content(p, run, 1)
  BY DEF Content
<1> QED BY <1>1, <1>2 DEF EmailMetaMessage

\* Every stream begins with what was in it before.
Grown ==
  \A m \in Messagers :
    /\ Len(stream[m]) <= Len(stream'[m])
    /\ \A i \in DOMAIN stream[m] : i \in DOMAIN stream'[m] /\ stream'[m][i] = stream[m][i]

\* An announcement, in its order, of a content that is stored.
LEMMA AnnounceStep ==
  ASSUME IInv, NEW p \in Writers, proc[p].pc = "metadata",
         UNCHANGED <<contents, file>>,
         stream' = [stream EXCEPT ![proc[p].messager] =
                      Append(@, EmailMetaMessage(p, proc[p], proc[p].sent + 1))]
  PROVE  /\ stream' \in [Messagers -> Seq(EntrySet)] /\ Grown
         /\ NoDanglingMail' /\ MailsInOrder' /\ (~raced => SealedInv')
         /\ \E i \in DOMAIN stream'[proc[p].messager] :
              stream'[proc[p].messager][i] = EmailMetaMessage(p, proc[p], proc[p].sent + 1)
<1> DEFINE run == proc[p]
           n == run.sent + 1
           m == run.messager
           e == EmailMetaMessage(p, run, n)
           old == stream[m]
           new == Append(old, e)
<1>1. /\ p \in Procs /\ run \in RunRecords /\ m \in Messagers /\ run.names \in Seq(ContentSet)
      /\ Len(run.names) = 2 /\ run.sent \in {0, 1} /\ n \in {1, 2}
      /\ stream \in [Messagers -> Seq(EntrySet)] /\ old \in Seq(EntrySet)
  BY SMTT(30) DEF IInv, TypeOK, RunsInv, RunOK, RunRecords, Procs
<1>2. \A k \in {1, 2} : /\ run.names[k] = Content(p, run, k)
                        /\ run.names[k] \in contents /\ run.names[k] \in ContentSet
  BY <1>1 DEF IInv, NamesInv
<1>3. /\ e \in EntrySet /\ e.n = n /\ e.content \in contents
      /\ e.content = Content(p, run, n)
  BY <1>1, <1>2 DEF EmailMetaMessage, EntrySet
<1>4. n = 2 => \E j \in DOMAIN old : old[j] = FirstOf(e)
  <2>1. n = 2 => FirstOf(e) = EmailMetaMessage(p, run, 1)
    BY <1>2, FirstOfSecond
  <2> QED BY <1>1, <2>1 DEF IInv, AnnouncedInv
<1> HIDE DEF e
<1>5. /\ new \in Seq(EntrySet) /\ Len(new) = Len(old) + 1 /\ new[Len(new)] = e
      /\ \A i \in DOMAIN old : i \in DOMAIN new /\ new[i] = old[i]
      /\ \A i \in DOMAIN new : i = Len(new) \/ i \in DOMAIN old
      /\ Len(new) \in DOMAIN new /\ Len(old) \in Nat
      /\ DOMAIN old = 1 .. Len(old)
  BY <1>1, <1>3
<1>6. stream'[m] = new /\ \A k \in Messagers \ {m} : stream'[k] = stream[k]
  BY <1>1 DEF e
<1>7. stream' \in [Messagers -> Seq(EntrySet)]
  BY <1>1, <1>5 DEF e
<1> HIDE DEF new, old
<1>8. Grown
  <2> SUFFICES ASSUME NEW k \in Messagers
               PROVE  Grown!(k)
    BY DEF Grown
  <2>1. CASE k = m
    BY <1>5, <1>6, <2>1, SMTT(30) DEF old
  <2>2. CASE k # m
    BY <1>1, <1>6, <2>2
  <2> QED BY <2>1, <2>2
<1>9. NoDanglingMail'
  BY <1>3, <1>5, <1>6 DEF IInv, NoDanglingMail, old
<1>10. MailsInOrder'
  <2> SUFFICES ASSUME NEW k \in Messagers, NEW i \in DOMAIN stream'[k], stream'[k][i].n = 2
               PROVE  \E j \in 1 .. i - 1 : stream'[k][j] = FirstOf(stream'[k][i])
    BY DEF MailsInOrder
  <2>1. CASE k # m
    BY <1>6, <2>1 DEF IInv, MailsInOrder
  <2>2. CASE k = m /\ i = Len(new)
    BY <1>3, <1>4, <1>5, <1>6, <2>2, SMTT(30)
  <2>3. CASE k = m /\ i \in DOMAIN old
    <3>1. new[i] = old[i] /\ old[i].n = 2
      BY <1>5, <1>6, <2>3, SMTT(30)
    <3>2. PICK j \in 1 .. i - 1 : old[j] = FirstOf(old[i])
      BY <1>1, <2>3, <3>1 DEF IInv, MailsInOrder, old
    <3>3. j \in DOMAIN old
      BY <1>5, <2>3
    <3> QED BY <1>5, <1>6, <2>3, <3>1, <3>2, <3>3, SMTT(30)
  <2> QED BY <1>5, <1>6, <2>1, <2>2, <2>3
<1>11. ~raced => SealedInv'
  <2> SUFFICES ASSUME ~raced PROVE SealedInv'
    OBVIOUS
  <2>1. SealedInv /\ HolderOK(run, file)
    BY <1>1 DEF IInv, KeysInv, HoldersInv
  <2>2. m = "pgp_e2ee" => SealedOK(e, file)
    BY <1>3, <2>1 DEF HolderOK, SealedOK, Content
  <2> QED BY <1>5, <1>6, <2>1, <2>2 DEF SealedInv, Messagers, old
<1> QED BY <1>5, <1>6, <1>7, <1>8, <1>9, <1>10, <1>11 DEF e

\* A step that makes no more of a run's announcements than it announced.
LEMMA MetadataRun ==
  ASSUME IInv, NEW p \in Writers, proc[p].pc = "metadata", NEW r \in RunRecords,
         proc' = [proc EXCEPT ![p] = r],
         r.names = proc[p].names, r.list = proc[p].list, r.shown = proc[p].shown,
         r.messager = proc[p].messager, r.keys = proc[p].keys, r.looked = proc[p].looked,
         r.pc \in {"print", "metadata"}, r.sent <= 2, r.pc = "metadata" => r.sent < 2,
         r.pc = "metadata" => \E i \in DOMAIN stream'[r.messager] :
           stream'[r.messager][i] = EmailMetaMessage(p, proc[p], 1),
         stream' \in [Messagers -> Seq(EntrySet)], Grown, NoDanglingMail', MailsInOrder',
         ~raced => SealedInv',
         UNCHANGED <<validating, file, token, contents, raced>>, faults' \in 0 .. MaxFaults
  PROVE  IInv'
<1>1. /\ p \in Procs /\ Len(proc[p].names) = 2
      /\ proc[p].list = <<>> /\ proc[p].shown = <<>> /\ proc[p].looked = 0
  BY DEF IInv, RunsInv, RunOK, Procs
<1>2. /\ proc' \in [Procs -> RunRecords]
      /\ proc'[p] = r
      /\ \A q \in Procs \ {p} : proc'[q] = proc[q]
  BY <1>1, RunType DEF IInv
<1>3. TypeOK'
  BY <1>1, <1>2 DEF IInv, TypeOK
<1>4. RunsInv'
  <2>1. RunOK(p, r)
    BY <1>1, EmptyPage DEF RunOK
  <2> QED BY <1>2, <2>1 DEF IInv, RunsInv
<1>5. NamesInv'
  <2>1. \A i : Content(p, r, i) = Content(p, proc[p], i)
    BY DEF Content
  <2> QED BY <1>1, <1>2, <2>1 DEF IInv, NamesInv
<1>6. \A q \in Procs : proc[q].messager \in Messagers /\ proc[q].list \in Seq(EntrySet)
  BY DEF IInv, TypeOK, RunRecords
<1>7. AnnouncedInv'
  <2>1. EmailMetaMessage(p, r, 1) = EmailMetaMessage(p, proc[p], 1)
    BY DEF EmailMetaMessage
  <2>2. \A q \in Procs \ {p} : AnnouncedInv!(q)'
    BY <1>2, <1>6, SMTT(30) DEF IInv, AnnouncedInv, Grown
  <2> QED BY <1>2, <2>1, <2>2, ZenonT(30) DEF AnnouncedInv
<1>8. ListsInv'
  <2>1. \A q \in Procs : ListOK(proc[q], stream'[proc[q].messager])
    <3> SUFFICES ASSUME NEW q \in Procs
                 PROVE  ListOK(proc[q], stream'[proc[q].messager])
      OBVIOUS
    <3> DEFINE before == stream[proc[q].messager]
               after == stream'[proc[q].messager]
    <3>1. ListOK(proc[q], before)
      BY DEF IInv, ListsInv
    <3>2. /\ Len(before) <= Len(after) /\ Len(before) \in Nat /\ Len(after) \in Nat
          /\ \A i \in DOMAIN before : after[i] = before[i]
          /\ DOMAIN before = 1 .. Len(before)
      BY <1>6 DEF Grown, IInv, TypeOK
    <3>3. Len(proc[q].list) \in Nat /\ DOMAIN proc[q].list = 1 .. Len(proc[q].list)
      BY <1>6
    <3> HIDE DEF before, after
    <3>4. ListOK(proc[q], after)
      BY <3>1, <3>2, <3>3 DEF ListOK
    <3> QED BY <3>4 DEF after
  <2>2. ListOK(r, stream'[r.messager])
    BY <1>1, <2>1 DEF ListOK
  <2> QED BY <1>2, <2>1, <2>2 DEF ListsInv
<1>9. MailsReadable'
  BY <1>1, <1>2 DEF IInv, MailsReadable, Procs
<1>10. KeysInv'
  <2>1. ~raced => HolderOK(r, file)
    BY <1>1 DEF IInv, KeysInv, HoldersInv, HolderOK
  <2> QED BY <1>1, <2>1, KeysKept
<1> QED BY <1>3, <1>4, <1>5, <1>7, <1>8, <1>9, <1>10 DEF IInv

LEMMA SendMetadataStep ==
  ASSUME IInv, NEW p \in Writers, SendMetadata(p)
  PROVE  IInv'
<1> DEFINE n == proc[p].sent + 1
           m == proc[p].messager
           added == [stream EXCEPT ![m] = Append(@, EmailMetaMessage(p, proc[p], n))]
           next == IF n = 2 THEN "print" ELSE "metadata"
           sent == [proc[p] EXCEPT !.sent = n, !.pc = next]
           failed == [proc[p] EXCEPT !.pc = "print"]
<1>1. /\ p \in Procs /\ proc \in [Procs -> RunRecords] /\ proc[p] \in RunRecords
      /\ proc[p].pc = "metadata" /\ proc[p].sent \in {0, 1}
      /\ UNCHANGED <<validating, file, token, contents, raced>>
      /\ stream' \in {stream, added} /\ faults' \in 0 .. MaxFaults
      /\ stream \in [Messagers -> Seq(EntrySet)]
  <2>1. p \in Procs /\ proc \in [Procs -> RunRecords] /\ proc[p] \in RunRecords
        /\ stream \in [Messagers -> Seq(EntrySet)] /\ proc[p].pc = "metadata"
    BY DEF SendMetadata, IInv, TypeOK, Procs
  <2>2. proc[p].sent \in {0, 1}
    BY <2>1, SMTT(30) DEF IInv, RunsInv, RunOK, RunRecords
  <2>3. UNCHANGED <<validating, file, token, contents, raced>>
        /\ stream' \in {stream, added} /\ faults' \in 0 .. MaxFaults
    BY FaultsAssumption, SMTT(30) DEF SendMetadata, Fault, IInv, TypeOK
  <2> QED BY <2>1, <2>2, <2>3
<1>2. \/ proc' = [proc EXCEPT ![p].sent = n,
                             ![p].pc = IF n = 2 THEN "print" ELSE "metadata"]
         /\ stream' = added
      \/ proc' = [proc EXCEPT ![p] = failed]
  BY <1>1 DEF SendMetadata
<1> HIDE DEF added
<1>3. \/ proc' = [proc EXCEPT ![p] = sent] /\ stream' = added
      \/ proc' = [proc EXCEPT ![p] = failed]
  BY <1>1, <1>2
<1>4. /\ sent \in RunRecords /\ sent.names = proc[p].names /\ sent.list = proc[p].list
      /\ sent.shown = proc[p].shown /\ sent.messager = m /\ sent.keys = proc[p].keys
      /\ sent.looked = proc[p].looked
      /\ sent.sent = n /\ sent.pc = (IF n = 2 THEN "print" ELSE "metadata")
  <2>1. n \in Nat /\ next \in {"print", "metadata"}
    BY <1>1
  <2> HIDE DEF n, next
  <2>2. sent \in RunRecords
    BY <1>1, <2>1 DEF RunRecords
  <2>3. /\ sent.names = proc[p].names /\ sent.list = proc[p].list
        /\ sent.shown = proc[p].shown /\ sent.messager = m /\ sent.keys = proc[p].keys
        /\ sent.looked = proc[p].looked /\ sent.sent = n /\ sent.pc = next
    BY <1>1 DEF RunRecords
  <2> QED BY <2>2, <2>3 DEF next
<1>5. /\ failed \in RunRecords /\ failed.names = proc[p].names
      /\ failed.list = proc[p].list /\ failed.shown = proc[p].shown
      /\ failed.messager = m /\ failed.keys = proc[p].keys
      /\ failed.looked = proc[p].looked
      /\ failed.sent = proc[p].sent /\ failed.pc = "print"
  BY <1>1 DEF RunRecords
<1>6. /\ stream' \in [Messagers -> Seq(EntrySet)] /\ Grown
      /\ NoDanglingMail' /\ MailsInOrder' /\ (~raced => SealedInv')
  <2>1. CASE stream' = stream
    BY <1>1, <2>1
    DEF IInv, TypeOK, NoDanglingMail, MailsInOrder, KeysInv, SealedInv, Grown
  <2>2. CASE stream' = added
    BY <1>1, <2>2, AnnounceStep DEF added
  <2> QED BY <1>1, <2>1, <2>2
<1>7. CASE proc' = [proc EXCEPT ![p] = sent] /\ stream' = added
  <2> HIDE DEF sent
  <2>1. \E i \in DOMAIN stream'[m] : stream'[m][i] = EmailMetaMessage(p, proc[p], n)
    BY <1>1, <1>7, AnnounceStep DEF added
  <2>2. sent.pc = "metadata" => n = 1
    BY <1>1, <1>4
  <2>3. sent.pc \in {"print", "metadata"} /\ sent.sent <= 2
        /\ (sent.pc = "metadata" => sent.sent < 2)
    BY <1>1, <1>4
  <2>4. sent.pc = "metadata" => \E i \in DOMAIN stream'[sent.messager] :
          stream'[sent.messager][i] = EmailMetaMessage(p, proc[p], 1)
    BY <1>4, <2>1, <2>2
  <2> QED BY <1>1, <1>4, <1>6, <1>7, <2>3, <2>4, MetadataRun
<1>8. CASE proc' = [proc EXCEPT ![p] = failed]
  <2> HIDE DEF failed
  <2>1. failed.sent <= 2 /\ failed.pc # "metadata" /\ failed.pc \in {"print", "metadata"}
    BY <1>1, <1>5
  <2> QED BY <1>1, <1>5, <1>6, <1>8, <2>1, MetadataRun
<1> QED BY <1>3, <1>7, <1>8

\* A run past its session goes on, and nothing but that changes.
LEMMA RunStep ==
  ASSUME IInv, NEW p \in Procs, NEW r \in RunRecords, proc' = [proc EXCEPT ![p] = r],
         UNCHANGED <<validating, file, token, contents, stream, raced>>,
         faults' \in 0 .. MaxFaults,
         proc[p].pc \in {"print", "list", "fetch"}, r.pc \in {"fetch", "done"},
         r.names = proc[p].names, r.sent = proc[p].sent,
         r.messager = proc[p].messager, r.keys = proc[p].keys,
         RunOK(p, r), ListOK(r, stream[r.messager]),
         ~raced /\ p \in Readers =>
           \A i \in DOMAIN r.shown : r.shown[i].outcome \in {"ok", "missing"}
  PROVE  IInv'
<1>1. /\ proc' \in [Procs -> RunRecords]
      /\ proc'[p] = r
      /\ \A q \in Procs \ {p} : proc'[q] = proc[q]
  BY RunType DEF IInv
<1>2. TypeOK'
  BY <1>1 DEF IInv, TypeOK
<1>3. RunsInv' /\ ListsInv'
  BY <1>1 DEF IInv, RunsInv, ListsInv
<1>4. NamesInv'
  <2>1. \A i : Content(p, r, i) = Content(p, proc[p], i)
    BY DEF Content
  <2> QED BY <1>1, <2>1 DEF IInv, NamesInv
<1>5. AnnouncedInv'
  BY <1>1 DEF IInv, AnnouncedInv
<1>6. NoDanglingMail' /\ MailsInOrder'
  BY DEF IInv, NoDanglingMail, MailsInOrder
<1>7. MailsReadable'
  BY <1>1 DEF IInv, MailsReadable, Procs
<1>8. KeysInv'
  <2>1. ~raced => HolderOK(r, file)
    BY DEF IInv, KeysInv, HoldersInv, HolderOK
  <2>2. ~raced => SealedInv'
    BY DEF IInv, KeysInv, SealedInv
  <2> QED BY <2>1, <2>2, KeysKept
<1> QED BY <1>2, <1>3, <1>4, <1>5, <1>6, <1>7, <1>8 DEF IInv

LEMMA PrintSuccessStep ==
  ASSUME IInv, NEW p \in Writers, PrintSuccess(p)
  PROVE  IInv'
<1> DEFINE r == [proc[p] EXCEPT !.pc = "done"]
<1>1. /\ p \in Procs /\ p \notin Readers /\ proc[p] \in RunRecords
      /\ proc[p].pc = "print" /\ proc[p].list = <<>> /\ proc[p].shown = <<>>
      /\ proc[p].looked = 0
      /\ proc' = [proc EXCEPT ![p] = r]
      /\ UNCHANGED <<validating, file, token, contents, stream, raced, faults>>
  BY ProcsAssumption DEF PrintSuccess, IInv, TypeOK, RunsInv, RunOK, Procs
<1>2. /\ r \in RunRecords /\ r.names = proc[p].names /\ r.sent = proc[p].sent
      /\ r.list = <<>> /\ r.shown = <<>> /\ r.messager = proc[p].messager
      /\ r.keys = proc[p].keys /\ r.looked = 0 /\ r.pc = "done"
  BY <1>1 DEF RunRecords
<1> HIDE DEF r
<1>3. RunOK(p, r) /\ ListOK(r, stream[r.messager])
  <2>1. Len(stream[r.messager]) \in Nat
    BY <1>2 DEF IInv, TypeOK, RunRecords
  <2> QED BY <1>2, <2>1, EmptyPage DEF RunOK, ListOK
<1> QED BY <1>1, <1>2, <1>3, RunStep DEF IInv, TypeOK

LEMMA LoginStep ==
  ASSUME IInv, NEW u \in UserSet, Login(u)
  PROVE  IInv'
<1>1. TypeOK'
  BY DEF IInv, TypeOK, Login
<1>2. RunsInv' /\ NamesInv' /\ AnnouncedInv' /\ ListsInv'
  BY DEF IInv, Login, RunsInv, NamesInv, AnnouncedInv, ListsInv
<1>3. NoDanglingMail' /\ MailsInOrder' /\ MailsReadable'
  BY DEF IInv, Login, NoDanglingMail, MailsInOrder, MailsReadable
<1>4. KeysInv'
  BY DEF IInv, Login, KeysInv, OneMaker, MakersInv, HoldersInv, SealedInv, InInit
<1> QED BY <1>1, <1>2, <1>3, <1>4 DEF IInv

LEMMA ListMessagesStep ==
  ASSUME IInv, NEW p \in Readers, ListMessages(p)
  PROVE  IInv'
<1> DEFINE all == stream[proc[p].messager]
           inbox == Inbox(proc[p])
           n == Least(PageSize, Len(inbox))
           seen == SubSeq(inbox, 1, n)
           r == [proc[p] EXCEPT !.looked = Len(inbox), !.list = seen, !.pc = "fetch"]
<1>1. /\ p \in Procs /\ proc \in [Procs -> RunRecords] /\ proc[p] \in RunRecords
      /\ proc[p].pc = "list" /\ proc[p].names = <<>> /\ proc[p].sent = 0
      /\ proc[p].shown = <<>> /\ all \in Seq(EntrySet)
      /\ UNCHANGED <<validating, file, token, contents, stream, raced, faults>>
  BY DEF ListMessages, IInv, TypeOK, RunsInv, RunOK, RunRecords, Procs
<1>2. CASE proc' = [proc EXCEPT ![p].looked = Len(inbox), ![p].list = seen,
                                ![p].pc = "fetch"]
  <2>1. /\ inbox \in Seq(EntrySet) /\ Len(inbox) \in Nat /\ Len(inbox) <= Len(all)
        /\ \A i \in 1 .. Len(inbox) : inbox[i] = all[i]
        /\ proc[p].subject # "bob" => Len(inbox) = 0
    BY <1>1 DEF Inbox
  <2> HIDE DEF inbox
  <2>2. n \in Nat /\ n <= Len(inbox)
    BY <2>1, PageAssumption DEF Least
  <2>3. /\ seen \in Seq(EntrySet) /\ Len(seen) = n
        /\ \A i \in DOMAIN seen : seen[i] = inbox[i] /\ i \in 1 .. Len(inbox)
    <3> HIDE DEF n
    <3> QED BY <2>1, <2>2
  <2>4. Len(seen) <= Len(all) /\ \A i \in DOMAIN seen : seen[i] = all[i]
    BY <1>1, <2>1, <2>2, <2>3
  <2> HIDE DEF seen, n
  <2>5. proc' = [proc EXCEPT ![p] = r]
    BY <1>1, <1>2
  <2>6. /\ r \in RunRecords /\ r.names = proc[p].names /\ r.sent = proc[p].sent
        /\ r.list = seen /\ r.shown = <<>> /\ r.messager = proc[p].messager
        /\ r.keys = proc[p].keys /\ r.pc = "fetch"
        /\ r.looked = Len(inbox) /\ r.subject = proc[p].subject
    BY <1>1, <2>1, <2>3 DEF RunRecords
  <2> HIDE DEF r
  <2>7. RunOK(p, r)
    BY <1>1, <2>1, <2>3, <2>6 DEF RunOK, n
  <2>8. ListOK(r, stream[r.messager])
    BY <1>1, <2>3, <2>4, <2>6 DEF ListOK
  <2>9. faults' \in 0 .. MaxFaults /\ DOMAIN r.shown = {}
    BY <1>1, <2>6 DEF IInv, TypeOK
  <2> QED BY <1>1, <2>5, <2>6, <2>7, <2>8, <2>9, RunStep
<1>3. CASE proc' = [proc EXCEPT ![p] = Dead]
  BY <1>1, <1>3, DeathStep DEF IInv, TypeOK
<1> QED BY <1>2, <1>3 DEF ListMessages

LEMMA FetchMessageStep ==
  ASSUME IInv, NEW p \in Readers, FetchMessage(p)
  PROVE  IInv'
<1> DEFINE n == Len(proc[p].shown) + 1
           entry == proc[p].list[n]
<1>1. /\ p \in Procs /\ proc \in [Procs -> RunRecords] /\ proc[p] \in RunRecords
      /\ proc[p].pc = "fetch" /\ proc[p].names = <<>> /\ proc[p].sent = 0
      /\ proc[p].list \in Seq(EntrySet) /\ proc[p].shown \in Seq(ShownSet)
      /\ n <= Len(proc[p].list) /\ entry \in EntrySet
      /\ UNCHANGED <<validating, file, token, contents, stream, raced>>
      /\ faults' \in 0 .. MaxFaults
  BY FaultsAssumption, SMTT(30)
  DEF FetchMessage, Fault, IInv, TypeOK, RunsInv, RunOK, RunRecords, Procs
<1>2. PICK out \in {"ok", "missing", "undecryptable", "unverified"} :
        /\ Show(p, entry, out)
        /\ out = "missing" \/ out = Decrypted(p, entry.content)
  BY DEF FetchMessage, Outcome, Decrypted
<1>3. ~raced => out \in {"ok", "missing"}
  <2> SUFFICES ASSUME ~raced, proc[p].messager = "pgp_e2ee"
               PROVE  Decrypted(p, entry.content) = "ok"
    BY <1>1, <1>2 DEF Decrypted, RunRecords, Messagers
  <2>1. ListOK(proc[p], stream["pgp_e2ee"]) /\ HolderOK(proc[p], file) /\ SealedInv
    BY <1>1 DEF IInv, ListsInv, KeysInv, HoldersInv
  <2>2. n \in DOMAIN proc[p].list /\ n \in DOMAIN stream["pgp_e2ee"]
        /\ entry = stream["pgp_e2ee"][n]
    BY <1>1, <2>1, SMTT(30) DEF ListOK, IInv, TypeOK, Messagers
  <2>3. SealedOK(entry, file)
    BY <2>1, <2>2 DEF SealedInv
  <2> QED BY <1>1, <2>1, <2>3, SMTT(30) DEF HolderOK, SealedOK, Decrypted
<1> DEFINE one == [entry |-> entry, outcome |-> out]
           more == Append(proc[p].shown, one)
           r == [proc[p] EXCEPT !.shown = more]
<1>4. proc' = [proc EXCEPT ![p] = r]
  BY <1>1, <1>2 DEF Show
<1>5. one \in ShownSet /\ one.entry = entry /\ one.outcome = out
  BY <1>1 DEF ShownSet
<1> HIDE DEF one
<1>6. /\ more \in Seq(ShownSet) /\ Len(more) = n /\ more[n] = one
      /\ \A i \in DOMAIN more : i = n \/ i \in DOMAIN proc[p].shown
      /\ \A i \in DOMAIN proc[p].shown : more[i] = proc[p].shown[i]
  BY <1>1, <1>5
<1> HIDE DEF more
<1>7. /\ r \in RunRecords /\ r.names = proc[p].names /\ r.sent = proc[p].sent
      /\ r.list = proc[p].list /\ r.shown = more /\ r.messager = proc[p].messager
      /\ r.keys = proc[p].keys /\ r.pc = "fetch"
      /\ r.looked = proc[p].looked /\ r.subject = proc[p].subject
  BY <1>1, <1>6 DEF RunRecords
<1> HIDE DEF r
<1>8. RunOK(p, r)
  BY <1>1, <1>7 DEF RunOK, IInv, RunsInv
<1>9. ListOK(r, stream[r.messager])
  <2>1. ListOK(proc[p], stream[proc[p].messager])
    BY <1>1 DEF IInv, ListsInv
  <2>2. \A i \in DOMAIN more : more[i].entry = proc[p].list[i]
    BY <1>5, <1>6, <2>1 DEF ListOK
  <2> QED BY <1>1, <1>6, <1>7, <2>1, <2>2 DEF ListOK
<1>10. ~raced => \A i \in DOMAIN r.shown : r.shown[i].outcome \in {"ok", "missing"}
  BY <1>3, <1>5, <1>6, <1>7 DEF IInv, MailsReadable
<1> QED BY <1>1, <1>4, <1>7, <1>8, <1>9, <1>10, RunStep

LEMMA EndReadStep ==
  ASSUME IInv, NEW p \in Readers, EndRead(p)
  PROVE  IInv'
<1> DEFINE r == [proc[p] EXCEPT !.pc = "done"]
<1>1. /\ p \in Procs /\ proc[p] \in RunRecords /\ proc[p].pc = "fetch"
      /\ Len(proc[p].shown) = Len(proc[p].list)
      /\ proc' = [proc EXCEPT ![p] = r]
      /\ UNCHANGED <<validating, file, token, contents, stream, raced, faults>>
  BY DEF EndRead, IInv, TypeOK, Procs
<1>2. /\ r \in RunRecords /\ r.names = proc[p].names /\ r.sent = proc[p].sent
      /\ r.list = proc[p].list /\ r.shown = proc[p].shown
      /\ r.messager = proc[p].messager /\ r.keys = proc[p].keys /\ r.pc = "done"
      /\ r.looked = proc[p].looked /\ r.subject = proc[p].subject
  BY <1>1 DEF RunRecords
<1> HIDE DEF r
<1>3. RunOK(p, r) /\ ListOK(r, stream[r.messager])
  <2>1. ListOK(proc[p], stream[proc[p].messager])
    BY <1>1 DEF IInv, ListsInv
  <2> QED BY <1>1, <1>2, <2>1 DEF RunOK, ListOK, IInv, RunsInv
<1>4. ~raced => \A i \in DOMAIN r.shown : r.shown[i].outcome \in {"ok", "missing"}
  BY <1>2 DEF IInv, MailsReadable
<1> QED BY <1>1, <1>2, <1>3, <1>4, RunStep DEF IInv, TypeOK

-----------------------------------------------------------------------------

LEMMA InitInv == Init => IInv
<1> SUFFICES ASSUME Init PROVE IInv
  OBVIOUS
<1>1. /\ NewRun \in RunRecords /\ NewRun.names = <<>> /\ NewRun.sent = 0
      /\ NewRun.list = <<>> /\ NewRun.shown = <<>> /\ NewRun.pc = "idle"
      /\ NewRun.user = 1 /\ NewRun.looked = 0
  BY NewRunType DEF Fresh, NewRun
<1>2. \A p \in Procs : proc[p] = NewRun
  BY DEF Init
<1>3. TypeOK
  <2>1. proc \in [Procs -> RunRecords] /\ stream \in [Messagers -> Seq(EntrySet)]
    BY <1>1 DEF Init
  <2>2. \A p \in Procs : Len(proc[p].names) <= 2 /\ proc[p].sent <= Len(proc[p].names)
    BY <1>1, <1>2
  <2>3. /\ file \in [UserSet -> KeySet \cup {Torn}] /\ token \in UserSet \cup {None}
        /\ contents \subseteq ContentSet
    <3>1. file = [u \in UserSet |-> None] /\ token = None /\ contents = {}
      BY DEF Init
    <3>2. None \in KeySet
      BY DEF KeySet
    <3> QED BY <3>1, <3>2
  <2>4. validating \in BOOLEAN /\ raced \in BOOLEAN /\ faults \in 0 .. MaxFaults
    <3>1. validating \in BOOLEAN /\ raced = FALSE /\ faults = 0
      BY Zenon DEF Init
    <3>2. faults = 0 => faults \in 0 .. MaxFaults
      BY FaultsAssumption
    <3> QED BY <3>1, <3>2, Zenon
  <2> QED BY <2>1, <2>2, <2>3, <2>4 DEF TypeOK
<1>4. RunsInv /\ NamesInv /\ AnnouncedInv
  BY <1>1, <1>2, EmptyPage DEF RunsInv, RunOK, NamesInv, AnnouncedInv
<1>5. \A m \in Messagers : stream[m] = <<>>
  BY DEF Init
<1>6. NoDanglingMail /\ MailsInOrder /\ SealedInv
  BY <1>5 DEF NoDanglingMail, MailsInOrder, SealedInv, Messagers
<1>7. ListsInv
  BY <1>1, <1>2, <1>3, <1>5 DEF ListsInv, ListOK, TypeOK, RunRecords
<1>8. MailsReadable
  BY <1>1, <1>2 DEF MailsReadable, Procs
<1>9. KeysInv
  BY <1>1, <1>2, <1>6 DEF KeysInv, OneMaker, MakersInv, HoldersInv, HolderOK, InInit
<1> QED BY <1>3, <1>4, <1>6, <1>7, <1>8, <1>9 DEF IInv

\* Every step of a run, and a login, keeps the inductive invariant.
LEMMA NextInv ==
  ASSUME IInv, [Next]_vars
  PROVE  IInv'
<1>1. ASSUME NEW p \in Procs,
             \/ \E m \in Messagers : GetMessager(p, m)
             \/ LoadKey(p) \/ Truncate(p) \/ SaveKey(p) \/ SessionToken(p) \/ Die(p)
      PROVE  IInv'
  BY <1>1, GetMessagerStep, LoadKeyStep, TruncateStep, SaveKeyStep, SessionTokenStep,
     DieStep
<1>2. ASSUME NEW p \in Writers, SendContent(p) \/ SendMetadata(p) \/ PrintSuccess(p)
      PROVE  IInv'
  BY <1>2, SendContentStep, SendMetadataStep, PrintSuccessStep
<1>3. ASSUME NEW p \in Readers,
             GetAuthToken(p) \/ ListMessages(p) \/ FetchMessage(p) \/ EndRead(p)
      PROVE  IInv'
  BY <1>3, GetAuthTokenStep, ListMessagesStep, FetchMessageStep, EndReadStep
<1>4. CASE UNCHANGED vars
  <2> USE <1>4 DEF vars, IInv
  <2>1. TypeOK' /\ RunsInv' /\ NamesInv' /\ AnnouncedInv' /\ ListsInv'
    BY DEF TypeOK, RunsInv, NamesInv, AnnouncedInv, ListsInv
  <2>2. NoDanglingMail' /\ MailsInOrder' /\ MailsReadable'
    BY DEF NoDanglingMail, MailsInOrder, MailsReadable
  <2>3. KeysInv'
    BY DEF KeysInv, OneMaker, MakersInv, HoldersInv, SealedInv, InInit
  <2> QED BY <2>1, <2>2, <2>3
<1> QED BY <1>1, <1>2, <1>3, <1>4, LoginStep DEF Next

THEOREM Inductive == Spec => []IInv
BY InitInv, NextInv, PTL DEF Spec

\* The variables of pmail keep their types; a write names and announces its two
\* messages at most.
THEOREM TypeCorrect == Spec => []TypeOK
<1>1. IInv => TypeOK
  BY DEF IInv
<1> QED BY <1>1, Inductive, PTL

\* write announces a content only after it is stored: no failure, lost answer
\* or death leaves an entry that names what was never there.
THEOREM NothingDangles == Spec => []NoDanglingMail
<1>1. IInv => NoDanglingMail
  BY DEF IInv
<1> QED BY <1>1, Inductive, PTL

\* SendMetadata never announces the second message of a write without the
\* first, before it.
THEOREM InOrder == Spec => []MailsInOrder
<1>1. IInv => MailsInOrder
  BY DEF IInv
<1> QED BY <1>1, Inductive, PTL

\* As long as no two runs made keys at a time and none died at it, every mail
\* a reader fetches it can decrypt and verify.
THEOREM Readable == Spec => []MailsReadable
<1>1. IInv => MailsReadable
  BY DEF IInv
<1> QED BY <1>1, Inductive, PTL

\* A read that ends has shown exactly the oldest page of the mails its account
\* had when it looked, once each and in order, whatever became of each.
THEOREM Complete == Spec => []ReadsComplete
<1>1. IInv => ReadsComplete
  <2> SUFFICES ASSUME IInv, NEW p \in Readers, proc[p].pc = "done"
               PROVE  [i \in DOMAIN proc[p].shown |-> proc[p].shown[i].entry]
                        = SubSeq(Inbox(proc[p]), 1, Least(PageSize, proc[p].looked))
    BY DEF ReadsComplete
  <2> DEFINE all == stream[proc[p].messager]
             list == proc[p].list
             inbox == Inbox(proc[p])
  <2>1. /\ list \in Seq(EntrySet) /\ proc[p].shown \in Seq(ShownSet)
        /\ all \in Seq(EntrySet)
    BY DEF IInv, TypeOK, RunRecords, Procs
  <2>2. ListOK(proc[p], all)
    BY DEF IInv, ListsInv, Procs
  <2>3. [i \in DOMAIN proc[p].shown |-> proc[p].shown[i].entry] = list
    BY <2>1, <2>2, SMTT(30) DEF ListOK
  <2>4. Len(list) = Least(PageSize, proc[p].looked)
        /\ (proc[p].subject # "bob" => proc[p].looked = 0)
    BY DEF IInv, RunsInv, RunOK, Procs
  <2>5. inbox \in Seq(EntrySet) /\ Len(list) <= Len(inbox)
        /\ \A i \in 1 .. Len(list) : list[i] = inbox[i]
    <3>1. CASE proc[p].subject = "bob"
      BY <2>1, <2>2, <3>1 DEF ListOK, Inbox
    <3>2. CASE proc[p].subject # "bob"
      BY <2>1, <2>4, <3>2, EmptyPage DEF Inbox
    <3> QED BY <3>1, <3>2
  <2> HIDE DEF list, inbox
  <2>6. list = SubSeq(inbox, 1, Len(list))
    <3>1. Len(list) \in Nat /\ Len(inbox) \in Nat
      BY <2>1, <2>5
    <3> QED BY <2>1, <2>5, <3>1
  <2> QED BY <2>3, <2>4, <2>6 DEF inbox
<1> QED BY <1>1, Inductive, PTL
=============================================================================
