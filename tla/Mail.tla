-------------------------------- MODULE Mail --------------------------------
(***************************************************************************)
(* The email example: runs of `pmail write`, `pmail read` and `pmail login` *)
(* that share the key files of the toy PGP broker, the login file, and a    *)
(* pkv service.  The service is external to the client: it may refuse a     *)
(* call, or carry it out and lose the answer.  One that applies the         *)
(* validation rules of kvstore.proto (validating) refuses every content, as *)
(* the client sends no ttl, and every stream name, as it holds no DID; any  *)
(* other endpoint the client may be given decides for itself.               *)
(* A value is named by its content, so the content stands for the name.     *)
(***************************************************************************)
EXTENDS Naturals, Sequences, FiniteSets

CONSTANTS
  Writers,   \* runs of `pmail write`
  Readers,   \* runs of `pmail read`
  OneServer, \* the content service is the metadata service, as built
  PageSize,  \* the 9999 entries a read asks for
  MaxFaults, \* bound on interruptions and failed calls
  None       \* no key, no subject

Procs == Writers \cup Readers

ASSUME ProcsAssumption == Writers \cap Readers = {} /\ None \notin Procs

ASSUME FaultsAssumption == MaxFaults \in Nat

ASSUME PageAssumption == PageSize \in Nat \ {0}

ASSUME ServerAssumption == OneServer \in BOOLEAN

VARIABLES
  validating, \* the service applies the rules of kvstore.proto
  file,      \* the key file of each user: None, Torn or a key
  token,     \* the login file: the user its token is for, or None
  contents,  \* the values stored
  stream,    \* for each messager, the entries of bob's stream
  proc,      \* the runs
  raced,     \* history: two runs made keys at a time, or one died doing so
  faults

vars == <<validating, file, token, contents, stream, proc, raced, faults>>

(***************************************************************************)
(* A key is named by the run that made it.  The broker knows two users.     *)
(***************************************************************************)
Users == <<"alice", "bob">>

UserSet == {"alice", "bob"}

Torn == "torn"

ASSUME TornAssumption == Torn \notin Procs

Messagers == {"traditional", "pgp_e2ee"}

\* The mock messages of a write: plain, the same in every run, or encrypted for
\* the recipient and signed, different each time.
Content(p, run, n) ==
  IF run.messager = "traditional"
  THEN [n |-> n, to |-> None, by |-> None, nonce |-> None]
  ELSE [n |-> n, to |-> run.keys["bob"], by |-> run.keys["alice"], nonce |-> p]

\* An entry of the stream names the content; writer tells whose it is.
EmailMetaMessage(p, run, n) == [writer |-> p, n |-> n, content |-> run.names[n]]

NewRun ==
  [pc |-> "idle", messager |-> "traditional", user |-> 1,
   keys |-> [u \in UserSet |-> None], names |-> <<>>, sent |-> 0,
   subject |-> None, looked |-> 0, list |-> <<>>, shown |-> <<>>]

\* A run that ended with an error leaves nothing but what it shared.
Dead == [NewRun EXCEPT !.pc = "dead"]

Init ==
  /\ validating \in BOOLEAN
  /\ file = [u \in UserSet |-> None]
  /\ token = None
  /\ contents = {}
  /\ stream = [m \in Messagers |-> <<>>]
  /\ proc = [p \in Procs |-> NewRun]
  /\ raced = FALSE
  /\ faults = 0

Fault == faults < MaxFaults /\ faults' = faults + 1

-----------------------------------------------------------------------------

InInit(p) == proc[p].pc \in {"load", "truncate", "save"}

\* getMessager: the PGP messager fetches the keys of both users first.
GetMessager(p, m) ==
  /\ proc[p].pc = "idle"
  /\ proc' = [proc EXCEPT ![p].messager = m,
                          ![p].pc = IF m = "pgp_e2ee" THEN "load" ELSE "session"]
  /\ raced' = (raced \/ (m = "pgp_e2ee" /\ \E q \in Procs \ {p} : InInit(q)))
  /\ UNCHANGED <<validating, file, token, contents, stream, faults>>

\* The run after the key of its current user is settled.
NextUser(run) ==
  IF run.user < Len(Users) THEN [run EXCEPT !.pc = "load", !.user = @ + 1]
  ELSE [run EXCEPT !.pc = "session"]

\* Mutant of LoadKey: a fresh key for every run.
LoadKeyFresh(p) ==
  /\ proc[p].pc = "load"
  /\ proc' = [proc EXCEPT ![p].keys[Users[proc[p].user]] = p, ![p].pc = "truncate"]
  /\ UNCHANGED <<validating, file, token, contents, stream, raced, faults>>

\* newUser reads the user's key file; what does not parse is as good as
\* nothing, and a key is generated.
LoadKey(p) ==
  LET u == Users[proc[p].user]
      run == proc[p]
  IN  /\ run.pc = "load"
      /\ proc' = [proc EXCEPT ![p] =
                    IF file[u] \in {None, Torn}
                    THEN [run EXCEPT !.keys[u] = p, !.pc = "truncate"]
                    ELSE NextUser([run EXCEPT !.keys[u] = file[u]])]
      /\ UNCHANGED <<validating, file, token, contents, stream, raced, faults>>

\* os.WriteFile empties the file before it writes the key.
Truncate(p) ==
  /\ proc[p].pc = "truncate"
  /\ file' = [file EXCEPT ![Users[proc[p].user]] = Torn]
  /\ proc' = [proc EXCEPT ![p].pc = "save"]
  /\ UNCHANGED <<validating, token, contents, stream, raced, faults>>

\* A key written over another one may leave the end of that.
SaveKey(p) ==
  LET u == Users[proc[p].user]
  IN  /\ proc[p].pc = "save"
      /\ \E k \in {proc[p].keys[u]} \cup (IF file[u] = Torn THEN {} ELSE {Torn}) :
           file' = [file EXCEPT ![u] = k]
      /\ proc' = [proc EXCEPT ![p] = NextUser(proc[p])]
      /\ UNCHANGED <<validating, token, contents, stream, raced, faults>>

\* getAuthToken: a read takes the token from the login file, and ends when there
\* is none; the token's subject is the account it reads.
GetAuthToken(p) ==
  /\ proc[p].pc = "session" /\ proc[p].subject = None
  /\ proc' = [proc EXCEPT ![p] = IF token = None THEN Dead
                                 ELSE [proc[p] EXCEPT !.subject = token]]
  /\ UNCHANGED <<validating, file, token, contents, stream, raced, faults>>

\* getMockSessionToken: a quota token from the exchange buys a session.
SessionToken(p) ==
  /\ proc[p].pc = "session"
  /\ p \in Readers => proc[p].subject # None
  /\ proc' = [proc EXCEPT ![p].pc = IF p \in Writers THEN "content" ELSE "list"]
  /\ UNCHANGED <<validating, file, token, contents, stream, raced, faults>>

\* log.Fatalf on a failed call, or the run is interrupted anywhere.
Die(p) ==
  /\ proc[p].pc \notin {"idle", "done", "dead"}
  /\ Fault
  /\ proc' = [proc EXCEPT ![p] = Dead]
  /\ raced' = (raced \/ InInit(p))
  /\ UNCHANGED <<validating, file, token, contents, stream>>

-----------------------------------------------------------------------------

\* Mutant of SendContent: one message too many.
SendContentThrice(p) ==
  LET n == Len(proc[p].names) + 1
  IN  /\ proc[p].pc = "content"
      /\ contents' = contents \cup {Content(p, proc[p], n)}
      /\ proc' = [proc EXCEPT ![p].names = Append(@, Content(p, proc[p], n)),
                              ![p].pc = IF n = 3 THEN "metadata" ELSE "content"]
      /\ UNCHANGED <<validating, file, token, stream, raced, faults>>

\* Mutant of SendContent: the name is used although the call failed.
SendContentAssumed(p) ==
  LET n == Len(proc[p].names) + 1
  IN  /\ proc[p].pc = "content"
      /\ contents' \in {contents, contents \cup {Content(p, proc[p], n)}}
      /\ proc' = [proc EXCEPT ![p].names = Append(@, Content(p, proc[p], n)),
                              ![p].pc = IF n = 2 THEN "metadata" ELSE "content"]
      /\ UNCHANGED <<validating, file, token, stream, raced, faults>>

\* SendContent, for one message after the other; any error ends the run.
SendContent(p) ==
  LET n == Len(proc[p].names) + 1
  IN  /\ proc[p].pc = "content"
      /\ \/ /\ ~validating
            /\ contents' = contents \cup {Content(p, proc[p], n)}
            /\ proc' = [proc EXCEPT ![p].names = Append(@, Content(p, proc[p], n)),
                                    ![p].pc = IF n = 2 THEN "metadata" ELSE "content"]
            /\ UNCHANGED faults
         \/ /\ validating
            /\ proc' = [proc EXCEPT ![p] = Dead]
            /\ UNCHANGED <<contents, faults>>
         \/ /\ Fault
            /\ contents' = contents \cup {c \in {Content(p, proc[p], n)} : ~validating}
            /\ proc' = [proc EXCEPT ![p] = Dead]
      /\ UNCHANGED <<validating, file, token, stream, raced>>

\* Mutant of SendMetadata: an error does not end the loop.
SendMetadataOn(p) ==
  LET n == proc[p].sent + 1
      m == proc[p].messager
  IN  /\ proc[p].pc = "metadata"
      /\ stream' \in {stream, [stream EXCEPT ![m] = Append(@, EmailMetaMessage(p, proc[p], n))]}
      /\ proc' = [proc EXCEPT ![p].sent = n,
                              ![p].pc = IF n = 2 THEN "print" ELSE "metadata"]
      /\ UNCHANGED <<validating, file, token, contents, raced, faults>>

\* SendMetadata adds the names to bob's stream, up to the first error, which
\* write does not look at.
SendMetadata(p) ==
  LET n == proc[p].sent + 1
      m == proc[p].messager
      added == [stream EXCEPT ![m] = Append(@, EmailMetaMessage(p, proc[p], n))]
  IN  /\ proc[p].pc = "metadata"
      /\ \/ /\ stream' = added
            /\ proc' = [proc EXCEPT ![p].sent = n,
                                    ![p].pc = IF n = 2 THEN "print" ELSE "metadata"]
            /\ UNCHANGED faults
         \/ /\ Fault
            /\ stream' \in {stream, added}
            /\ proc' = [proc EXCEPT ![p].pc = "print"]
      /\ UNCHANGED <<validating, file, token, contents, raced>>

\* The run prints success, whatever came of the announcements.
PrintSuccess(p) ==
  /\ proc[p].pc = "print"
  /\ proc' = [proc EXCEPT ![p].pc = "done"]
  /\ UNCHANGED <<validating, file, token, contents, stream, raced, faults>>

-----------------------------------------------------------------------------

\* login: the user pastes the token of some account, once; when the file cannot
\* be written it stays as it was.
Login(u) ==
  /\ token = None
  /\ token' = u
  /\ UNCHANGED <<validating, file, contents, stream, proc, raced, faults>>

\* The stream a read is for; writes only go to bob's.
Inbox(run) == IF run.subject = "bob" THEN stream[run.messager] ELSE <<>>

Least(a, b) == IF a < b THEN a ELSE b

\* A read asks for one page from the beginning and ignores the token of the
\* next; when the service refuses, the run ends.  looked remembers how many
\* mails there were.
ListMessages(p) ==
  LET inbox == Inbox(proc[p])
  IN  /\ proc[p].pc = "list"
      /\ \/ /\ ~validating
            /\ proc' = [proc EXCEPT
                          ![p].looked = Len(inbox),
                          ![p].list = SubSeq(inbox, 1, Least(PageSize, Len(inbox))),
                          ![p].pc = "fetch"]
         \/ /\ validating
            /\ proc' = [proc EXCEPT ![p] = Dead]
      /\ UNCHANGED <<validating, file, token, contents, stream, raced, faults>>

\* What the metadata service has, which DoFetchMessage asks; the PGP messager
\* stores at the content service.
FetchableBy(run) ==
  IF OneServer \/ run.messager = "traditional" THEN contents ELSE {}

\* What FetchMessage makes of a content the service returned.
Decrypted(p, c) ==
  IF proc[p].messager = "traditional" THEN "ok"
  ELSE IF c.to # proc[p].keys["bob"] THEN "undecryptable"
  ELSE IF c.by # proc[p].keys["alice"] THEN "unverified" ELSE "ok"

Outcome(p, c) == IF c \in FetchableBy(proc[p]) THEN Decrypted(p, c) ELSE "missing"

Show(p, entry, outcome) ==
  proc' = [proc EXCEPT ![p].shown = Append(@, [entry |-> entry, outcome |-> outcome])]

\* Mutant of FetchMessage: the first failure ends the read.
FetchMessageStops(p) ==
  LET n == Len(proc[p].shown) + 1
      entry == proc[p].list[n]
  IN  /\ proc[p].pc = "fetch"
      /\ n <= Len(proc[p].list)
      /\ \/ /\ Show(p, entry, Outcome(p, entry.content))
            /\ UNCHANGED faults
         \/ Fault /\ proc' = [proc EXCEPT ![p].pc = "done"]
      /\ UNCHANGED <<validating, file, token, contents, stream, raced>>

\* One message after the other is fetched and printed, with whatever came of it.
FetchMessage(p) ==
  LET n == Len(proc[p].shown) + 1
      entry == proc[p].list[n]
  IN  /\ proc[p].pc = "fetch"
      /\ n <= Len(proc[p].list)
      /\ \/ /\ Show(p, entry, Outcome(p, entry.content))
            /\ UNCHANGED faults
         \/ Fault /\ Show(p, entry, "missing")
      /\ UNCHANGED <<validating, file, token, contents, stream, raced>>

EndRead(p) ==
  /\ proc[p].pc = "fetch"
  /\ Len(proc[p].shown) = Len(proc[p].list)
  /\ proc' = [proc EXCEPT ![p].pc = "done"]
  /\ UNCHANGED <<validating, file, token, contents, stream, raced, faults>>

Next ==
  \/ \E p \in Procs :
       \/ \E m \in Messagers : GetMessager(p, m)
       \/ LoadKey(p) \/ Truncate(p) \/ SaveKey(p) \/ SessionToken(p) \/ Die(p)
  \/ \E p \in Writers : SendContent(p) \/ SendMetadata(p) \/ PrintSuccess(p)
  \/ \E p \in Readers : GetAuthToken(p) \/ ListMessages(p) \/ FetchMessage(p) \/ EndRead(p)
  \/ \E u \in UserSet : Login(u)

Spec == Init /\ [][Next]_vars

-----------------------------------------------------------------------------

KeySet == Procs \cup {None}

ContentSet == [n: {1, 2}, to: KeySet, by: KeySet, nonce: Writers \cup {None}]

EntrySet == [writer: Writers, n: {1, 2}, content: ContentSet]

ShownSet ==
  [entry: EntrySet, outcome: {"ok", "missing", "undecryptable", "unverified"}]

RunRecords ==
  [pc: {"idle", "load", "truncate", "save", "session", "content", "metadata",
        "print", "list", "fetch", "done", "dead"},
   messager: Messagers, user: {1, 2}, keys: [UserSet -> KeySet],
   names: Seq(ContentSet), sent: Nat, subject: UserSet \cup {None}, looked: Nat,
   list: Seq(EntrySet), shown: Seq(ShownSet)]

\* Every variable holds a value of its type; a write has at most its two
\* messages to name and to announce.
TypeOK ==
  /\ validating \in BOOLEAN
  /\ file \in [UserSet -> KeySet \cup {Torn}]
  /\ token \in UserSet \cup {None}
  /\ contents \subseteq ContentSet
  /\ stream \in [Messagers -> Seq(EntrySet)]
  /\ proc \in [Procs -> RunRecords]
  /\ \A p \in Procs : Len(proc[p].names) <= 2 /\ proc[p].sent <= Len(proc[p].names)
  /\ raced \in BOOLEAN
  /\ faults \in 0 .. MaxFaults

\* An entry in a recipient's stream always names a content that was stored: no
\* failure, lost answer or death of a writer leaves a mail that announces what
\* never was.
NoDanglingMail ==
  \A m \in Messagers : \A i \in DOMAIN stream[m] :
    stream[m][i].content \in contents

\* The entry a write makes for its first message, given one it makes.
FirstOf(entry) ==
  [writer |-> entry.writer, n |-> 1, content |-> [entry.content EXCEPT !.n = 1]]

\* The messages of one write appear in its order: the second is never announced
\* unless the first was, whatever fails in between.
MailsInOrder ==
  \A m \in Messagers : \A i \in DOMAIN stream[m] :
    stream[m][i].n = 2 => \E j \in 1 .. i - 1 : stream[m][j] = FirstOf(stream[m][i])

\* As long as no two runs were making keys at a time, and none died at it,
\* every run has the keys of the first one: each mail a reader can fetch it
\* can decrypt and verify.
MailsReadable ==
  ~raced => \A p \in Readers : \A i \in DOMAIN proc[p].shown :
              proc[p].shown[i].outcome \in {"ok", "missing"}

\* A read that got to the end showed exactly the mails its account's stream had
\* when it looked, each once and in order, those it could not fetch or decrypt
\* included: all of them up to a page, and past that the oldest page of them,
\* never a newer one.
ReadsComplete ==
  \A p \in Readers :
    LET run == proc[p] IN
    run.pc = "done" =>
      [i \in DOMAIN run.shown |-> run.shown[i].entry]
        = SubSeq(Inbox(run), 1, Least(PageSize, run.looked))

-----------------------------------------------------------------------------
(* The inductive invariant behind these.                                    *)

\* What a run has at each place.
RunOK(p, run) ==
  /\ run.pc \in {"idle", "load", "truncate", "save", "session", "dead"} =>
       /\ run.names = <<>> /\ run.sent = 0
       /\ run.looked = 0 /\ run.list = <<>> /\ run.shown = <<>>
  /\ run.pc = "idle" => run.user = 1
  /\ run.pc \in {"content", "metadata", "print"} => p \in Writers
  /\ run.pc \in {"list", "fetch"} =>
       p \in Readers /\ run.names = <<>> /\ run.sent = 0
  /\ run.pc = "content" => Len(run.names) < 2 /\ run.sent = 0
  /\ run.pc = "metadata" => Len(run.names) = 2 /\ run.sent < 2
  /\ run.pc \in {"content", "metadata", "print", "list"} =>
       run.looked = 0 /\ run.list = <<>> /\ run.shown = <<>>
  /\ Len(run.list) = Least(PageSize, run.looked)
  /\ run.subject # "bob" => run.looked = 0

RunsInv == \A p \in Procs : RunOK(p, proc[p])

\* A run names the contents it stored, in their order.
NamesInv ==
  \A p \in Procs : \A i \in DOMAIN proc[p].names :
    proc[p].names[i] = Content(p, proc[p], i) /\ proc[p].names[i] \in contents

\* A run about to announce its second message announced the first.
AnnouncedInv ==
  \A p \in Procs : proc[p].pc = "metadata" /\ proc[p].sent = 1 =>
    \E i \in DOMAIN stream[proc[p].messager] :
      stream[proc[p].messager][i] = EmailMetaMessage(p, proc[p], 1)

\* A run's list is how the stream began, and it shows the list from its start.
ListOK(run, entries) ==
  /\ Len(run.list) <= Len(entries)
  /\ \A i \in DOMAIN run.list : run.list[i] = entries[i]
  /\ Len(run.shown) <= Len(run.list)
  /\ \A i \in DOMAIN run.shown : run.shown[i].entry = run.list[i]
  /\ run.pc = "done" => Len(run.shown) = Len(run.list)

ListsInv == \A p \in Procs : ListOK(proc[p], stream[proc[p].messager])

OneMaker == \A p, q \in Procs : InInit(p) /\ InInit(q) => p = q

\* Run p makes a key only where there is none.
MakerOK(p, run, files) ==
  LET u == Users[run.user] IN
  /\ run.user = 2 => files["alice"] \in Procs /\ run.keys["alice"] = files["alice"]
  /\ run.pc \in {"truncate", "save"} => run.keys[u] = p /\ files[u] \notin Procs
  /\ run.pc = "save" => files[u] = Torn

MakersInv == \A p \in Procs : InInit(p) => MakerOK(p, proc[p], file)

KeysOnFile(files) == \A u \in UserSet : files[u] \in Procs

\* A run past that has the keys on file, and so has every mail.
HolderOK(run, files) ==
  /\ run.messager = "pgp_e2ee"
  /\ run.pc \notin {"idle", "load", "truncate", "save", "dead"}
  => KeysOnFile(files) /\ run.keys = files

HoldersInv == \A p \in Procs : HolderOK(proc[p], file)

SealedOK(entry, files) ==
  /\ KeysOnFile(files)
  /\ entry.content.to = files["bob"]
  /\ entry.content.by = files["alice"]

SealedInv ==
  \A i \in DOMAIN stream["pgp_e2ee"] : SealedOK(stream["pgp_e2ee"][i], file)

\* Without a race one run at a time makes keys.
KeysInv == ~raced => OneMaker /\ MakersInv /\ HoldersInv /\ SealedInv

IInv ==
  /\ TypeOK
  /\ RunsInv
  /\ NamesInv
  /\ AnnouncedInv
  /\ NoDanglingMail
  /\ MailsInOrder
  /\ ListsInv
  /\ KeysInv
  /\ MailsReadable
=============================================================================
