-------------------------------- MODULE Session --------------------------------
(***************************************************************************)
(* Session: the credential of a T3Client.  AuthClient (auth/authClient.ts) *)
(* caches what it last loaded or saved and announces a change; every HTTP  *)
(* request (transport/http.ts) and every socket attempt (client.ts) loads  *)
(* the token and the proof key anew, each by a read of the store of its    *)
(* own; an announced change makes the socket reconnect.  All of them await *)
(* the store, so a load or a save is in effect before its caller goes on.  *)
(*                                                                         *)
(* The socket is as SocketTransport leaves it: one attempt is current; the *)
(* earlier ones only go on loading.  A credential stands for its token,    *)
(* its key and its scopes together.                                        *)
(***************************************************************************)
EXTENDS Naturals, Sequences

CONSTANTS
  Credentials,  \* what can be stored
  Bound,        \* the proof-bound ones, with a key
  None,         \* no credential: {} in the store
  Unknown,      \* `undefined`: nothing cached, nothing read
  Modes,        \* the values of the option socketAuth
  Prompt,       \* whether a save resolves before any load that read what it saved: true of
                \* the memory and the file store, not of every CredentialStore
  Writers,      \* calls of exchangePairingToken, setAccessToken and clearCredentials
  MaxWrites,    \* bound: such calls
  MaxFaults     \* bound: failures of the network and the store, and revocations

ASSUME SessionAssumption ==
  /\ Prompt \in BOOLEAN
  /\ Bound \subseteq Credentials /\ None \notin Credentials
  /\ Unknown \notin Credentials \cup {None}
  /\ Modes \subseteq {"ticket", "bearer-header"}
  /\ MaxWrites \in Nat /\ MaxFaults \in Nat

VARIABLES
  store,        \* the credential store
  cached,       \* #cached
  writers,      \* the saves and clears on their way
  writes,       \* how many were begun
  socketAuth,   \* the option of this client
  link,         \* the socket and what it was upgraded with
  attempt,      \* what its current attempt has loaded and has left to load
  loads,        \* what the other loads on their way have read: requests, earlier attempts
  faults,
  unannounced,  \* history: the store changed since #version last grew
  serial        \* history: no save overlapped another, and no load brought the client news

auth   == <<socketAuth, store, cached, writers, writes, unannounced>>
socket == <<link, attempt>>
vars   == <<auth, socket, loads, faults, serial>>

Stored   == Credentials \cup {None}
Slots    == {"token", "key", "bearer", "proof"}
Storing  == \E w \in Writers : writers[w].at = "stored"
Charge   == faults < MaxFaults /\ faults' = faults + 1

\* What an attempt loads, in this order: url() the key and then #sessionCredential for the
\* ticket; #bearerHeaders the token, #sessionCredential for the session state, the key.
ToLoad == IF socketAuth = "ticket" THEN <<"proof", "token", "key">>
                                   ELSE <<"bearer", "token", "key", "proof">>

NoAttempt  == [left |-> <<>>, seen |-> Unknown, got |-> [s \in Slots |-> Unknown]]
NewAttempt == [NoAttempt EXCEPT !.left = ToLoad]

NoLink(state) == [state |-> state, cred |-> None, proof |-> None]

Init ==
  /\ socketAuth \in Modes
  /\ store \in Stored /\ cached = Unknown /\ unannounced = FALSE /\ serial = TRUE
  /\ writers = [w \in Writers |-> [at |-> "idle", next |-> None]] /\ writes = 0
  /\ link = NoLink("idle") /\ attempt = NoAttempt
  /\ loads = {} /\ faults = 0

-----------------------------------------------------------------------------
(* The socket, in short *)

\* Mutant: the socket is dropped, but nothing connects again.
Attempts_OnlyDrops ==
  /\ link' = NoLink("connecting") /\ attempt' = NoAttempt
  /\ loads' = loads \cup ({attempt.seen} \ {Unknown})

\* #attempt; what the one before it had read is yet to arrive.
Attempts ==
  /\ link' = NoLink("connecting") /\ attempt' = NewAttempt
  /\ loads' = loads \cup ({attempt.seen} \ {Unknown})

\* The current attempt or socket comes to an end.
Goes(state) == link' = NoLink(state) /\ attempt' = NoAttempt

\* Mutant: a reconnect waits for the attempt that is under way.
ReconnectIgnored_WhileConnecting == link.state # "open"

ReconnectIgnored == link.state \in {"idle", "waiting", "failed", "closed"}

Reconnect ==
  \/ ~ReconnectIgnored /\ Attempts
  \/ ReconnectIgnored /\ UNCHANGED <<socket, loads>>

Connect ==
  /\ link.state = "idle"
  /\ Attempts
  /\ UNCHANGED <<auth, faults, serial>>

RetryTimer ==
  /\ link.state = "waiting"
  /\ Attempts
  /\ UNCHANGED <<auth, faults, serial>>

Drop ==
  /\ link.state \in {"upgrading", "open"}
  /\ Charge /\ Goes("waiting")
  /\ UNCHANGED <<auth, loads, serial>>

Close ==
  /\ link.state # "closed"
  /\ Goes("closed")
  /\ loads' = loads \cup ({attempt.seen} \ {Unknown})
  /\ UNCHANGED <<auth, faults, serial>>

-----------------------------------------------------------------------------
(* AuthClient *)

\* exchangePairingToken, setAccessToken: the server is asked first.  clearCredentials.
Begin(w, next) ==
  /\ writers[w].at = "idle" /\ writes < MaxWrites
  /\ writers' = [writers EXCEPT ![w] = [at |-> "begun", next |-> next]]
  /\ writes' = writes + 1
  /\ UNCHANGED <<socketAuth, store, cached, unannounced, socket, loads, faults, serial>>

\* The server refuses the token, or the store fails.
GivesUp(w) ==
  /\ writers[w].at = "begun"
  /\ writers' = [writers EXCEPT ![w] = [at |-> "idle", next |-> None]]
  /\ UNCHANGED <<socketAuth, store, cached, writes, unannounced, socket, loads, faults, serial>>

\* The store replaces or removes the credential; #save waits for it.
Replace(w) ==
  /\ writers[w].at = "begun"
  /\ writers' = [writers EXCEPT ![w].at = "stored"]
  /\ store' = writers[w].next
  /\ unannounced' = (unannounced \/ store' # store)
  /\ serial' = (serial /\ ~Storing)
  /\ UNCHANGED <<socketAuth, cached, writes, socket, loads, faults>>

\* Mutant: nothing is announced before something was cached.
Changes_OnlyFromKnown(next) == cached # Unknown /\ cached # next

\* #remember goes by the cached credential.
Changes(next) == cached = Unknown \/ cached # next

Remember(w) ==
  /\ writers[w].at = "stored"
  /\ writers' = [writers EXCEPT ![w] = [at |-> "idle", next |-> None]]
  /\ cached' = writers[w].next
  /\ IF Changes(cached')
     THEN unannounced' = FALSE /\ Reconnect
     ELSE UNCHANGED <<unannounced, socket, loads>>
  /\ UNCHANGED <<socketAuth, store, writes, faults, serial>>

-----------------------------------------------------------------------------
(* Loads *)

\* What #load brings is no news: it read the store neither before the last save nor before
\* the client has gone on from one.
NoNews(seen) == IF cached = Unknown THEN seen = store /\ ~Storing ELSE seen = cached

\* #load goes on with what the store had read for it.
Resumes(seen) ==
  /\ cached' = seen
  /\ serial' = (serial /\ NoNews(seen))
  /\ UNCHANGED <<socketAuth, store, writers, writes, unannounced, link, faults>>

\* What the server makes of a token with a key: both outcomes are possible when only the
\* key is superfluous.  A ticket that was not minted for a key needs no proof.
Fits(c, k)      == c \in Credentials /\ (IF c \in Bound THEN k = c ELSE k \notin Bound)
MayAccept(c, k) == c \in Credentials /\ (c \in Bound => k = c)

MayRead == Prompt => ~Storing

\* Any number of requests and earlier attempts load the credential.
ReadElsewhere ==
  /\ MayRead
  /\ loads' = loads \cup {store}
  /\ UNCHANGED <<auth, socket, faults, serial>>

ResumeElsewhere(seen) ==
  /\ loads' \in {loads, loads \ {seen}}
  /\ Resumes(seen)
  /\ UNCHANGED attempt

\* The server's answer to the session state comes before the key of the upgrade is loaded.
MayGoOn == attempt.left = <<"proof">> => MayAccept(attempt.got["token"], attempt.got["key"])

Read ==
  /\ attempt.left # <<>> /\ attempt.seen = Unknown
  /\ MayRead /\ MayGoOn
  /\ attempt' = [attempt EXCEPT !.seen = store]
  /\ UNCHANGED <<auth, link, loads, faults, serial>>

\* Without a token there is nothing more to load.
LeftAfter(seen) ==
  IF seen = None /\ Head(attempt.left) \in {"token", "bearer"} THEN <<>> ELSE Tail(attempt.left)

Resume ==
  /\ attempt.seen # Unknown
  /\ attempt' = [attempt EXCEPT !.seen = Unknown, !.left = LeftAfter(attempt.seen),
                                !.got[Head(attempt.left)] = attempt.seen]
  /\ Resumes(attempt.seen)
  /\ UNCHANGED loads

UpgradeFits == Fits(link.cred, link.proof) \/ (socketAuth = "ticket" /\ link.proof \notin Bound)
UpgradeMayPass == MayAccept(link.cred, link.proof) \/ (socketAuth = "ticket" /\ link.proof \notin Bound)

UnderWay == link.state = "connecting" /\ attempt # NoAttempt

\* The attempt has loaded all it needs.
Loaded == UnderWay /\ attempt.left = <<>>

\* It has loaded what its request for the ticket or the session state carries, or found no
\* token for it.
Asked ==
  /\ UnderWay /\ attempt.seen = Unknown
  /\ \/ attempt.left = <<"proof">>
     \/ attempt.left = <<>> /\ (socketAuth = "ticket" \/ attempt.got["proof"] = Unknown)

\* A token that is missing or refused is a T3AuthError, which ends the link for good.
AttemptRefused ==
  /\ Asked
  /\ IF Fits(attempt.got["token"], attempt.got["key"]) THEN Charge ELSE UNCHANGED faults
  /\ Goes("failed")
  /\ UNCHANGED <<auth, loads, serial>>

\* A load that throws, whatever the store had read for it, ends the attempt there; so does a
\* request that does not reach the server.
AttemptFails ==
  /\ UnderWay
  /\ Charge /\ Goes("waiting")
  /\ UNCHANGED <<auth, loads, serial>>

\* The ticket stands for the token it was asked with; #bearerHeaders sends its own.
Carried == attempt.got[IF socketAuth = "ticket" THEN "token" ELSE "bearer"]

AttemptUpgrades ==
  /\ Loaded /\ Carried \in Credentials
  /\ MayAccept(attempt.got["token"], attempt.got["key"])
  /\ attempt' = NoAttempt
  /\ link' = [state |-> "upgrading", cred |-> Carried, proof |-> attempt.got["proof"]]
  /\ UNCHANGED <<auth, loads, faults, serial>>

Opens ==
  /\ link.state = "upgrading" /\ UpgradeMayPass
  /\ link' = [link EXCEPT !.state = "open"]
  /\ UNCHANGED <<auth, attempt, loads, faults, serial>>

UpgradeRefused ==
  /\ link.state = "upgrading"
  /\ IF UpgradeFits THEN Charge ELSE UNCHANGED faults
  /\ Goes("failed")
  /\ UNCHANGED <<auth, loads, serial>>

Writing  == \E w \in Writers : (\E next \in Stored : Begin(w, next)) \/ GivesUp(w)
Storage  == \E w \in Writers : Replace(w) \/ Remember(w)
Loading  == ReadElsewhere \/ (\E seen \in loads : ResumeElsewhere(seen))
Socket   == Read \/ Resume \/ AttemptRefused \/ AttemptFails \/ AttemptUpgrades
              \/ Opens \/ UpgradeRefused \/ RetryTimer
Next     == Writing \/ Storage \/ Loading \/ Socket \/ Connect \/ Drop \/ Close

Spec     == Init /\ [][Next]_vars
\* The store, the server and the timer answer; nobody need call anything.
FairSpec == Spec /\ WF_vars(Socket) /\ WF_vars(Storage)

-----------------------------------------------------------------------------
(* Properties *)

\* Every variable keeps to its type.
TypeOK ==
  /\ socketAuth \in Modes
  /\ store \in Stored /\ cached \in Stored \cup {Unknown}
  /\ writers \in [Writers -> [at : {"idle", "begun", "stored"}, next : Stored]]
  /\ writes \in Nat /\ faults \in Nat
  /\ link \in [state : {"idle", "connecting", "upgrading", "open", "waiting", "failed", "closed"},
               cred : Stored, proof : Stored \cup {Unknown}]
  /\ attempt \in [left : Seq(Slots), seen : Stored \cup {Unknown},
                  got : [Slots -> Stored \cup {Unknown}]]
  /\ attempt.seen # Unknown => attempt.left # <<>>
  /\ loads \subseteq Stored
  /\ unannounced \in BOOLEAN /\ serial \in BOOLEAN

\* While saves do not overlap and loads bring no news, every change of the store is announced
\* by the call that made it, and the cache, which the scope checks go by, is right
\* (authClient.ts:65-80, library-auth.yml:60-61).
ChangesAreAnnounced ==
  serial /\ ~Storing => ~unannounced /\ cached \in {Unknown, store}

\* Then an open socket was upgraded with the credential that is stored, whatever the
\* attempts had loaded when it changed (client.ts:148, library-auth.yml:72-75).
OpenLinkIsCurrent == serial /\ ~Storing /\ link.state = "open" => link.cred = store

\* Then a socket fails for good only when its attempt found no credential or the server
\* revokes one: no attempt puts together two credentials (http.ts:148-157, client.ts:118-135,
\* socket.ts:189-191).
FailsForCause ==
  [][link.state # "failed" /\ link'.state = "failed" /\ serial /\ faults' = faults
       => store = None \/ Storing]_vars

\* A socket that was asked to connect opens, fails or is closed; credentials that change
\* under way do not keep it from that (client.ts:118-135, socket.ts:180-199).
LinkSettles ==
  link.state \in {"connecting", "upgrading", "waiting"} ~> link.state \in {"open", "failed", "closed"}

\* What the documentation says of every save and clear, also of one that overlaps a load:
\* it increments the version if it changes the credential.
EveryChangeIsAnnounced == ~Storing => ~unannounced

\* A socket settles, and for good only for cause.
SettlesForCause == FailsForCause /\ LinkSettles
=============================================================================
