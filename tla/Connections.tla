---------------------------- MODULE Connections ----------------------------
(***************************************************************************)
(* The connections and their secrets.  The user creates, edits,            *)
(* duplicates, imports and deletes connections in the list, in an edit     *)
(* dialog and in the connection manager, which stay open beside each       *)
(* other; each of them hands the secrets it was given to the keychain,     *)
(* whose jobs run later, one after the other, and to the session of the    *)
(* connection at once.                                                     *)
(***************************************************************************)
EXTENDS Naturals, Sequences, FiniteSets, Lists

CONSTANTS
  Ids,         \* ids of connections, now or later
  Forms,       \* what the user may enter for a connection, besides secrets
  Created,     \* the connections there are at first, with their forms
  MaxChanges   \* changes the user makes, the bound of the model

None == <<>>
Unknown == <<"unknown">>
SecretKinds == {"password", "passphrase", "gatewayPassword", "gatewayPassphrase"}

\* toConnections: a key, and hosts that are jumped through with the same.
Imported == [auth |-> "key", save |-> FALSE, gateway |-> "none"]

ASSUME FormsAssumption ==
  /\ Forms \subseteq [auth : {"password", "key"}, save : BOOLEAN,
                      gateway : {"none", "password", "key"}]
  /\ Imported \in Forms
  /\ Created \in [Ids -> Forms \union {None}]
  /\ \A f \in Forms : f.auth = "key" => ~f.save
ASSUME BoundAssumption == MaxChanges \in Nat

VARIABLES
  conns,      \* ConnectionModel and ConnectionStore
  unused,     \* ids of connections that have not been created yet
  keychain,   \* the system's keychain
  jobs,       \* QKeychain's jobs, in order
  editors,    \* the edit dialog and the manager's editor, with the connection loaded
  sessions,   \* credentials of the open sessions
  opening,    \* m_pendingConnectId, m_pendingCredentials and the password prompt
  changes,    \* changes so far, which number the secrets
  kept,       \* what the keychain is meant to hold, Unknown where a copy has
              \* crossed a change
  overtaken   \* connections opened with secrets read before they were changed

seen == <<kept, overtaken>>
connectionsVars == <<conns, unused, keychain, jobs, editors, sessions, opening, changes, seen>>

NoSecrets == [k \in SecretKinds |-> None]
Secrets == {None} \union (SecretKinds \X (1 .. MaxChanges))
Editors == {"dialog", "manager"}

TargetKind(form) == IF form.auth = "password" THEN "password" ELSE "passphrase"
GatewayKind(form) == IF form.gateway = "password" THEN "gatewayPassword" ELSE "gatewayPassphrase"
UsesGateway(form) == form.gateway # "none"

\* The secrets that are to be in the keychain for a connection.
KeptKinds(form) ==
  (IF form.auth = "password" /\ ~form.save THEN {} ELSE {TargetKind(form)})
    \union (IF UsesGateway(form) THEN {GatewayKind(form)} ELSE {})

ConnectionsTypeOK ==
  /\ conns \in [Ids -> Forms \union {None}] /\ unused \subseteq Ids
  /\ keychain \in [Ids -> [SecretKinds -> Secrets]]
  /\ kept \in [Ids -> [SecretKinds -> Secrets] \union {Unknown}]
  /\ \A i \in DOMAIN jobs : jobs[i].op \in {"write", "delete", "copy", "read"} /\ jobs[i].id \in Ids
  /\ \A e \in Editors : editors[e] = None \/ editors[e].fields \in [SecretKinds -> Secrets]
  /\ sessions \in [Ids -> [target : Secrets, gateway : Secrets] \union {None}]
  /\ changes \in 0 .. MaxChanges /\ overtaken \subseteq Ids

ConnectionsInit ==
  /\ conns = Created /\ unused = {c \in Ids : Created[c] = None}
  /\ kept = [c \in Ids |-> IF c \in unused THEN NoSecrets
                ELSE [k \in SecretKinds |-> IF k \in KeptKinds(Created[c]) THEN <<k, 1>> ELSE None]]
  /\ keychain = kept /\ jobs = <<>> /\ changes = 1
  /\ editors = [e \in Editors |-> None]
  /\ sessions = [c \in Ids |-> None] /\ opening = None
  /\ overtaken = {}

\* The user does something, within the bound of the model.
Change ==
  /\ changes < MaxChanges /\ changes' = changes + 1

\* ConnectionModel: every change of its list is written to the store.
Persist(rows) == conns' = rows
RemoveConnection(c) == Persist([conns EXCEPT ![c] = None])

-----------------------------------------------------------------------------
(* SecretStore and the helper that decides what goes into the keychain.    *)

Job(op, c, kind, value) == [op |-> op, id |-> c, kind |-> kind, value |-> value]
DeleteSecret(c, kind) == <<Job("delete", c, kind, None)>>
StoreSecret(c, kind, value) == <<Job("write", c, kind, value)>>
StoreIfProvided(c, kind, fields) ==
  IF fields[kind] = None THEN <<>> ELSE StoreSecret(c, kind, fields[kind])
DeleteAllSecrets(c) ==
  DeleteSecret(c, "password") \o DeleteSecret(c, "passphrase")
    \o DeleteSecret(c, "gatewayPassword") \o DeleteSecret(c, "gatewayPassphrase")

PersistTarget(c, before, form, fields) ==
  LET isEdit == before # None
  IN  (IF isEdit /\ before.auth # form.auth THEN DeleteSecret(c, TargetKind(before)) ELSE <<>>)
        \o IF form.auth = "password"
           THEN (IF form.save THEN StoreIfProvided(c, "password", fields) ELSE DeleteSecret(c, "password"))
                  \o (IF isEdit THEN DeleteSecret(c, "passphrase") ELSE <<>>)
           ELSE StoreIfProvided(c, "passphrase", fields)
                  \o (IF isEdit THEN DeleteSecret(c, "password") ELSE <<>>)

PersistGateway(c, form, fields) ==
  CASE form.gateway = "none" -> DeleteSecret(c, "gatewayPassword") \o DeleteSecret(c, "gatewayPassphrase")
    [] form.gateway = "password" ->
         StoreIfProvided(c, "gatewayPassword", fields) \o DeleteSecret(c, "gatewayPassphrase")
    [] form.gateway = "key" ->
         StoreIfProvided(c, "gatewayPassphrase", fields) \o DeleteSecret(c, "gatewayPassword")

\* Mutant: only what is provided is looked at, nothing is deleted.
PersistSecretsOnly(c, before, form, fields) ==
  StoreIfProvided(c, TargetKind(form), fields) \o PersistGateway(c, form, fields)

PersistSecrets(c, before, form, fields) ==
  PersistTarget(c, before, form, fields) \o PersistGateway(c, form, fields)

CopyPending(c) == \E i \in DOMAIN jobs : jobs[i].op = "copy" /\ jobs[i].value = c
Keep(c, secrets) ==
  kept' = [kept EXCEPT ![c] = IF CopyPending(c) \/ @ = Unknown THEN Unknown ELSE secrets]

JobDone(op) == jobs # <<>> /\ Head(jobs).op = op

\* How many jobs of some kinds come first.  They are done in one step: what
\* the keychain holds between them is seen by nobody.
First(ops) ==
  CHOOSE n \in 1 .. Len(jobs) :
    /\ \A i \in 1 .. n : jobs[i].op \in ops
    /\ n = Len(jobs) \/ jobs[n + 1].op \notin ops
Rest(ops) == SubSeq(jobs, First(ops) + 1, Len(jobs))
\* What the keychain holds after some jobs: what the last one that is about a secret
\* has written, or has left.
Writes == {"write", "delete"}
Result(chain, js) ==
  [c \in Ids |-> [k \in SecretKinds |->
     LET about == {i \in DOMAIN js : js[i].op \in Writes /\ js[i].id = c /\ js[i].kind = k}
     IN  IF about = {} THEN chain[c][k]
         ELSE js[CHOOSE i \in about : \A j \in about : j <= i].value]]

\* storeSecret and deleteSecret
WritesDone ==
  /\ JobDone("write") \/ JobDone("delete")
  /\ keychain' = Result(keychain, SubSeq(jobs, 1, First(Writes)))
  /\ jobs' = Rest(Writes)
  /\ UNCHANGED <<conns, unused, editors, sessions, opening, changes, seen>>

\* copySecret: what is read is stored by a job of its own, after all others.
CopiesRead ==
  LET Read(j) == keychain[j.id][j.kind]
      found == Pick(jobs, {i \in 1 .. First({"copy"}) : Read(jobs[i]) # None})
  IN  /\ JobDone("copy")
      /\ jobs' = Rest({"copy"}) \o [i \in DOMAIN found |->
                   Job("write", found[i].value, found[i].kind, Read(found[i]))]
      /\ UNCHANGED <<conns, unused, keychain, editors, sessions, opening, changes, seen>>

-----------------------------------------------------------------------------
(* Sessions are opened; two at a time are the subject of Workspace.        *)

ReadSecret(c, kind) == <<Job("read", c, kind, None)>>

\* openSshSession and finishConnect.
FinishConnect(c, target, gateway) ==
  sessions' = [sessions EXCEPT ![c] = [target |-> target, gateway |-> gateway]]

Opening(c, gateway, prompt) == [id |-> c, gateway |-> gateway, prompt |-> prompt]

\* readTargetSecretForConnect
ReadTarget(c, form, gateway, queue) ==
  LET ask == form.auth = "password" /\ ~form.save
  IN  /\ opening' = Opening(c, gateway, ask)
      /\ jobs' = IF ask THEN queue ELSE queue \o ReadSecret(c, TargetKind(form))

\* openConnectionById
OpenConnection(c, form, queue) ==
  IF UsesGateway(form)
  THEN /\ opening' = Opening(c, None, FALSE)
       /\ jobs' = queue \o ReadSecret(c, GatewayKind(form))
  ELSE ReadTarget(c, form, None, queue)

\* The prompt is modal: the rest of the program waits for it.
Prompting == opening # None /\ opening.prompt

UserOpens(c) ==
  /\ opening = None /\ conns[c] # None /\ Change /\ OpenConnection(c, conns[c], jobs)
  /\ overtaken' = IF CopyPending(c) THEN overtaken \union {c} ELSE overtaken
  /\ UNCHANGED <<conns, unused, keychain, editors, sessions, kept>>

\* readFinished
ReadDone(c) ==
  /\ JobDone("read") /\ Head(jobs).id = c
  /\ UNCHANGED <<conns, unused, keychain, editors, changes, kept>>

GatewayRead(c) ==
  /\ ReadDone(c) /\ conns[c] # None /\ Head(jobs).kind \in {"gatewayPassword", "gatewayPassphrase"}
  /\ ReadTarget(c, conns[c], keychain[c][Head(jobs).kind], Tail(jobs))
  /\ UNCHANGED <<sessions, overtaken>>

TargetRead(c) ==
  LET secret == keychain[c][Head(jobs).kind]
  IN  /\ ReadDone(c) /\ conns[c] # None /\ Head(jobs).kind \in {"password", "passphrase"}
      /\ jobs' = Tail(jobs)
      /\ IF conns[c].auth = "password" /\ secret = None
         THEN opening' = [opening EXCEPT !.prompt = TRUE] /\ UNCHANGED sessions
         ELSE opening' = None /\ FinishConnect(c, secret, opening.gateway)
      /\ UNCHANGED overtaken

\* The keychain fails: a passphrase is done without, a password is not.
ReadFails(c) ==
  /\ ReadDone(c) /\ conns[c] # None /\ overtaken' = overtaken \union {c}
  /\ CASE Head(jobs).kind = "gatewayPassphrase" /\ conns[c].gateway = "key" ->
            ReadTarget(c, conns[c], None, Tail(jobs)) /\ UNCHANGED sessions
       [] Head(jobs).kind = "passphrase" /\ conns[c].auth = "key" ->
            jobs' = Tail(jobs) /\ opening' = None /\ FinishConnect(c, None, opening.gateway)
       [] OTHER -> jobs' = Tail(jobs) /\ opening' = None /\ UNCHANGED sessions

ReadOfDeleted(c) ==
  /\ ReadDone(c) /\ conns[c] = None
  /\ jobs' = Tail(jobs) /\ opening' = None /\ UNCHANGED <<sessions, overtaken>>

\* promptPasswordForConnect
PromptAnswered ==
  /\ Prompting /\ Change
  /\ FinishConnect(opening.id, <<"password", changes'>>, opening.gateway) /\ opening' = None
  /\ overtaken' = overtaken \union {opening.id}
  /\ UNCHANGED <<conns, unused, keychain, jobs, editors, kept>>

PromptCancelled ==
  /\ Prompting /\ opening' = None
  /\ UNCHANGED <<conns, unused, keychain, jobs, editors, sessions, changes, seen>>

CloseSession(c) ==
  /\ ~Prompting /\ sessions[c] # None /\ sessions' = [sessions EXCEPT ![c] = None]
  /\ UNCHANGED <<conns, unused, keychain, jobs, editors, opening, changes, seen>>

-----------------------------------------------------------------------------
(* The editors.                                                            *)

Loaded(c, form) == [id |-> c, before |-> form, initialSave |-> form.save, fields |-> NoSecrets]

\* setConnection: the edit dialog, and the manager's loadSelection.
Load(e, c) ==
  /\ ~Prompting /\ conns[c] # None /\ (e = "manager" \/ editors[e] = None)
  /\ editors' = [editors EXCEPT ![e] = Loaded(c, conns[c])]
  /\ UNCHANGED <<conns, unused, keychain, jobs, sessions, opening, changes, seen>>

\* The dialog is closed, the manager shows nothing.
Leave(e) ==
  /\ ~Prompting /\ editors[e] # None /\ editors' = [editors EXCEPT ![e] = None]
  /\ UNCHANGED <<conns, unused, keychain, jobs, sessions, opening, changes, seen>>

Shown(form) == {TargetKind(form)} \union (IF UsesGateway(form) THEN {GatewayKind(form)} ELSE {})

\* What may be in the fields when Save is chosen: each field that is shown is
\* left as it is or filled in.
Filled(old, form) ==
  {[k \in SecretKinds |-> IF k \in new THEN <<k, changes + 1>> ELSE old[k]] : new \in SUBSET Shown(form)}

\* validate
Valid(form, fields, create, initialSave) ==
  /\ form.save /\ fields["password"] = None => ~create /\ initialSave
  /\ create /\ form.gateway = "password" => fields["gatewayPassword"] # None

Intended(c, form, fields) ==
  IF kept[c] = Unknown THEN Unknown
  ELSE [k \in SecretKinds |-> IF k \notin KeptKinds(form) THEN None
                        ELSE IF fields[k] # None THEN fields[k] ELSE kept[c][k]]

\* Mutant: the session is left to read the keychain again.
EditSideEffectsNone(c, form, fields) == UNCHANGED sessions

\* emitEditSideEffects and onConnectionEdited.
EditSideEffects(c, form, fields) ==
  sessions' =
    IF sessions[c] = None THEN sessions
    ELSE [sessions EXCEPT
            ![c].target = IF fields[TargetKind(form)] # None THEN fields[TargetKind(form)] ELSE @,
            ![c].gateway = IF UsesGateway(form) /\ fields[GatewayKind(form)] # None
                           THEN fields[GatewayKind(form)] ELSE @]

\* onSave of the manager, accepted of the edit dialog.
SaveEdit(e, form) ==
  /\ ~Prompting /\ editors[e] # None
  /\ LET c == editors[e].id
     IN  /\ conns[c] # None
         /\ \E fields \in Filled(editors[e].fields, form) :
              /\ Valid(form, fields, FALSE, editors[e].initialSave) /\ Change
              /\ jobs' = jobs \o PersistSecrets(c, editors[e].before, form, fields)
              /\ Keep(c, Intended(c, form, fields))
              /\ EditSideEffects(c, form, fields)
              /\ editors' = [editors EXCEPT ![e] =
                    IF e = "dialog" THEN None ELSE [@ EXCEPT !.before = form, !.fields = fields]]
         /\ Persist([conns EXCEPT ![c] = form])
         /\ overtaken' = IF opening # None /\ opening.id = c THEN overtaken \union {c} ELSE overtaken
  /\ UNCHANGED <<unused, keychain, opening>>

\* The connection has been deleted meanwhile.
SaveFails(e) ==
  /\ ~Prompting /\ editors[e] # None /\ conns[editors[e].id] = None
  /\ e = "dialog" /\ editors' = [editors EXCEPT ![e] = None]
  /\ UNCHANGED <<conns, unused, keychain, jobs, sessions, opening, changes, seen>>

-----------------------------------------------------------------------------
(* Connections come and go.                                                *)

Add(c, form) ==
  /\ ~Prompting /\ Change /\ c \in unused /\ unused' = unused \ {c}
  /\ Persist([conns EXCEPT ![c] = form])
  /\ UNCHANGED <<keychain, overtaken>>

Create(c, form, fields) ==
  /\ Add(c, form) /\ Valid(form, fields, TRUE, FALSE)
  /\ Keep(c, Intended(c, form, fields))

\* createConnection, and a draft of the manager, which is then loaded.
CreateConnection(c, form) ==
  \E fields \in Filled(NoSecrets, form) :
    /\ Create(c, form, fields) /\ jobs' = jobs \o PersistSecrets(c, None, form, fields)
    /\ \/ UNCHANGED editors
       \/ editors' = [editors EXCEPT !["manager"] = Loaded(c, form)]
    /\ UNCHANGED <<sessions, opening>>

\* connectAfterCreating
CreateAndConnect(c, form) ==
  /\ opening = None
  /\ \E fields \in Filled(NoSecrets, form) :
       /\ Create(c, form, fields)
       /\ LET queue == jobs \o PersistSecrets(c, None, form, fields)
          IN  IF form.auth = "password" /\ fields["password"] # None
              THEN /\ FinishConnect(c, fields["password"],
                        IF UsesGateway(form) THEN fields[GatewayKind(form)] ELSE None)
                   /\ jobs' = queue /\ UNCHANGED opening
              ELSE OpenConnection(c, form, queue) /\ UNCHANGED sessions
  /\ UNCHANGED editors

\* duplicate, and copySecret for each kind; the manager loads the copy.
Duplicate(c, copy) ==
  LET Copy(kind) == <<Job("copy", c, kind, copy)>>
  IN  /\ conns[c] # None /\ Add(copy, conns[c])
      /\ jobs' = jobs \o Copy("password") \o Copy("passphrase")
                      \o Copy("gatewayPassword") \o Copy("gatewayPassphrase")
      /\ kept' = [kept EXCEPT ![copy] = IF CopyPending(c) THEN Unknown ELSE kept[c]]
      /\ \/ UNCHANGED editors
         \/ editors' = [editors EXCEPT !["manager"] = Loaded(copy, conns[c])]
      /\ UNCHANGED <<sessions, opening>>

\* The tab's menu: duplicate without copySecret.
DuplicateOfTab(c, copy) ==
  /\ conns[c] # None /\ Add(copy, conns[c])
  /\ UNCHANGED <<jobs, editors, sessions, opening, kept>>

\* importFromSshConfig
Import(c) ==
  /\ Add(c, Imported)
  /\ UNCHANGED <<jobs, editors, sessions, opening, kept>>

\* deleteSelectedConnection, onDelete: sessions are kept.
DeleteConnection(c) ==
  /\ ~Prompting /\ Change /\ conns[c] # None /\ RemoveConnection(c)
  /\ jobs' = jobs \o DeleteAllSecrets(c)
  /\ Keep(c, NoSecrets)
  /\ \/ UNCHANGED editors
     \/ editors' = [editors EXCEPT !["manager"] = None]
  /\ UNCHANGED <<unused, keychain, sessions, opening, overtaken>>

\* The tab's menu: the session is closed, the secrets stay.
DeleteConnectionOfTab(c) ==
  /\ ~Prompting /\ Change /\ conns[c] # None /\ RemoveConnection(c)
  /\ sessions' = [sessions EXCEPT ![c] = None]
  /\ kept' = [kept EXCEPT ![c] = Unknown]
  /\ UNCHANGED <<unused, keychain, jobs, editors, opening, overtaken>>

ConnectionsNext ==
  \/ WritesDone \/ CopiesRead
  \/ PromptAnswered \/ PromptCancelled
  \/ \E c \in Ids :
       \/ UserOpens(c) \/ GatewayRead(c) \/ TargetRead(c) \/ ReadFails(c) \/ ReadOfDeleted(c)
       \/ CloseSession(c) \/ Import(c) \/ DeleteConnection(c) \/ DeleteConnectionOfTab(c)
  \/ \E c \in Ids, form \in Forms : CreateConnection(c, form) \/ CreateAndConnect(c, form)
  \/ \E c, copy \in Ids : Duplicate(c, copy) \/ DuplicateOfTab(c, copy)
  \/ \E e \in Editors : Leave(e) \/ SaveFails(e)
  \/ \E e \in Editors, c \in Ids : Load(e, c)
  \/ \E e \in Editors, form \in Forms : SaveEdit(e, form)

ConnectionsSpec == ConnectionsInit /\ [][ConnectionsNext]_connectionsVars

-----------------------------------------------------------------------------
(* Properties.                                                             *)

\* Once the keychain's jobs are done, it holds for each connection the last
\* secrets the user gave for the ways it authenticates, and nothing else,
\* for all the editors that were open and the order they saved in.
KeychainFollows ==
  jobs = <<>> => \A c \in Ids : kept[c] \in {keychain[c], Unknown}

\* A session reconnects with the secrets the keychain is meant to hold, while
\* the keychain's jobs are still waiting too.
SessionsFollow ==
  \A c \in Ids \ overtaken :
    sessions[c] # None /\ conns[c] # None /\ kept[c] # Unknown =>
      LET form == conns[c]
      IN  /\ kept[c][TargetKind(form)] \in {None, sessions[c].target}
          /\ UsesGateway(form) =>
               kept[c][GatewayKind(form)] \in {None, sessions[c].gateway}

\* In no run, for it does not hold: "Password is required when saving to the
\* keychain.", so a connection whose password is saved has one, once the jobs
\* are done.
SavedPasswordIsThere ==
  jobs = <<>> => \A c \in Ids :
    conns[c] # None /\ conns[c].save /\ kept[c] # Unknown => keychain[c]["password"] # None

=============================================================================
