------------------------------ MODULE SessionProofs ------------------------------
(* Theorems about Session, for every set of credentials and writers and every bound. *)
EXTENDS Session, TLAPS

\* What the attempt and the socket are made of is well typed.
LEMMA PartsType ==
  ASSUME SessionAssumption, TypeOK
  PROVE  /\ NoAttempt \in [left : Seq(Slots), seen : Stored \cup {Unknown},
                          got : [Slots -> Stored \cup {Unknown}]]
         /\ NewAttempt \in [left : Seq(Slots), seen : Stored \cup {Unknown},
                           got : [Slots -> Stored \cup {Unknown}]]
         /\ NoAttempt.seen = Unknown /\ NewAttempt.seen = Unknown
         /\ {attempt.seen} \ {Unknown} \subseteq Stored
<1>1. ToLoad \in Seq(Slots)
  <2>1. <<"proof", "token", "key">> \in Seq(Slots)
    BY DEF Slots
  <2>2. <<"bearer", "token", "key", "proof">> \in Seq(Slots)
    BY DEF Slots
  <2>3. QED
    BY <2>1, <2>2 DEF ToLoad
<1>2. NoAttempt \in [left : Seq(Slots), seen : Stored \cup {Unknown},
                    got : [Slots -> Stored \cup {Unknown}]]
  BY DEF NoAttempt
<1>3. NewAttempt = [left |-> ToLoad, seen |-> Unknown, got |-> NoAttempt.got]
  BY DEF NewAttempt, NoAttempt
<1>4. NoAttempt.seen = Unknown
  BY DEF NoAttempt
<1>5. QED
  BY <1>1, <1>2, <1>3, <1>4 DEF TypeOK

LEMMA TypeInit == ASSUME SessionAssumption PROVE Init => TypeOK
<1> SUFFICES ASSUME Init PROVE TypeOK
  OBVIOUS
<1>1. NoAttempt \in [left : Seq(Slots), seen : Stored \cup {Unknown},
                    got : [Slots -> Stored \cup {Unknown}]] /\ NoAttempt.seen = Unknown
  BY DEF NoAttempt
<1>2. QED
  BY <1>1 DEF Init, TypeOK, NoLink, Stored

LEMMA TypeStep == ASSUME SessionAssumption PROVE TypeOK /\ [Next]_vars => TypeOK'
<1> SUFFICES ASSUME TypeOK, [Next]_vars PROVE TypeOK'
  OBVIOUS
<1>0. /\ NoAttempt \in [left : Seq(Slots), seen : Stored \cup {Unknown},
                       got : [Slots -> Stored \cup {Unknown}]]
      /\ NewAttempt \in [left : Seq(Slots), seen : Stored \cup {Unknown},
                        got : [Slots -> Stored \cup {Unknown}]]
      /\ NoAttempt.seen = Unknown /\ NewAttempt.seen = Unknown
      /\ {attempt.seen} \ {Unknown} \subseteq Stored
  BY PartsType
<1>a. None \in Stored
  BY DEF Stored
<1> USE DEF TypeOK, auth, socket, NoLink
<1>1. ASSUME NEW w \in Writers, NEW next \in Stored, Begin(w, next) PROVE TypeOK'
  BY <1>1 DEF Begin
<1>2. ASSUME NEW w \in Writers, GivesUp(w) PROVE TypeOK'
  BY <1>2, <1>a DEF GivesUp
<1>3. ASSUME NEW w \in Writers, Replace(w) PROVE TypeOK'
  BY <1>3 DEF Replace
<1>4. ASSUME NEW w \in Writers, Remember(w) PROVE TypeOK'
  <2>1. CASE Changes(cached') /\ ~ReconnectIgnored
    <3>1. writers' \in [Writers -> [at : {"idle", "begun", "stored"}, next : Stored]]
      BY <1>4, <1>a DEF Remember
    <3>2. cached' \in Stored /\ unannounced' = FALSE
      BY <1>4, <2>1 DEF Remember
    <3>3. Attempts
      BY <1>4, <2>1 DEF Remember, Reconnect
    <3>4. QED
      BY <1>4, <3>1, <3>2, <3>3, <1>0, <1>a DEF Remember, Attempts
  <2>2. CASE ~(Changes(cached') /\ ~ReconnectIgnored)
    BY <1>4, <2>2, <1>a DEF Remember, Reconnect
  <2>3. QED
    BY <2>1, <2>2
<1>5. CASE ReadElsewhere
  BY <1>5 DEF ReadElsewhere
<1>6. ASSUME NEW seen \in loads, ResumeElsewhere(seen) PROVE TypeOK'
  BY <1>6 DEF ResumeElsewhere, Resumes
<1>7. CASE Read
  BY <1>7 DEF Read
<1>8. CASE Resume
  <2>1. attempt.left \in Seq(Slots) /\ attempt.left # <<>>
    BY <1>8 DEF Resume
  <2>2. LeftAfter(attempt.seen) \in Seq(Slots)
    BY <2>1 DEF LeftAfter
  <2>3. /\ attempt'.left = LeftAfter(attempt.seen) /\ attempt'.seen = Unknown
        /\ attempt' \in [left : Seq(Slots), seen : Stored \cup {Unknown},
                         got : [Slots -> Stored \cup {Unknown}]]
    BY <1>8, <2>2 DEF Resume
  <2>4. QED
    BY <1>8, <2>3 DEF Resume, Resumes
<1>9. CASE AttemptRefused
  BY <1>9, <1>0, <1>a DEF AttemptRefused, Goes, Charge
<1>10. CASE AttemptFails
  BY <1>10, <1>0, <1>a DEF AttemptFails, Goes, Charge
<1>11. CASE AttemptUpgrades
  <2>1. Carried \in Stored
    BY <1>11 DEF AttemptUpgrades, Stored
  <2>2. attempt.got["proof"] \in Stored \cup {Unknown}
    BY DEF Slots
  <2>3. QED
    BY <1>11, <2>1, <2>2, <1>0 DEF AttemptUpgrades
<1>12. CASE Opens
  BY <1>12 DEF Opens
<1>13. CASE UpgradeRefused
  BY <1>13, <1>0, <1>a DEF UpgradeRefused, Goes, Charge
<1>14. CASE RetryTimer
  BY <1>14, <1>0, <1>a DEF RetryTimer, Attempts
<1>15. CASE Connect
  BY <1>15, <1>0, <1>a DEF Connect, Attempts
<1>16. CASE Drop
  BY <1>16, <1>0, <1>a DEF Drop, Goes, Charge
<1>17. CASE Close
  BY <1>17, <1>0, <1>a DEF Close, Goes
<1>18. CASE UNCHANGED vars
  BY <1>18 DEF vars
<1>19. QED
  BY <1>1, <1>2, <1>3, <1>4, <1>5, <1>6, <1>7, <1>8, <1>9, <1>10, <1>11, <1>12, <1>13, <1>14,
     <1>15, <1>16, <1>17, <1>18 DEF Next, Writing, Storage, Loading, Socket

\* Every variable of the session keeps to its type (authClient.ts, client.ts).
THEOREM TypeCorrect == ASSUME SessionAssumption PROVE Spec => []TypeOK
BY TypeInit, TypeStep, PTL DEF Spec

-----------------------------------------------------------------------------
(* What is announced, and what the socket carries *)

\* Saves follow each other, and the store holds what is being remembered.
OneAtATime ==
  serial => /\ \A v, w \in Writers : writers[v].at = "stored" /\ writers[w].at = "stored" => v = w
            /\ \A w \in Writers : writers[w].at = "stored" => writers[w].next = store

\* An unannounced change is being remembered, and the cache does not know it yet.
CacheKnows ==
  serial => IF unannounced THEN Storing /\ cached # store ELSE cached \in {Unknown, store}

\* While everything is announced the attempt and the socket go by what is stored.
SocketKnows ==
  serial /\ ~unannounced =>
    /\ link.state \in {"upgrading", "open"} => link.cred = store
    /\ \A s \in Slots : attempt.got[s] \in {Unknown, store}

\* Only a socket that connects has an attempt.
AttemptEnds == link.state # "connecting" => attempt = NoAttempt

IInv == TypeOK /\ OneAtATime /\ CacheKnows /\ SocketKnows /\ AttemptEnds

LEMMA SafeInit == ASSUME SessionAssumption PROVE Init => IInv
<1> SUFFICES ASSUME Init PROVE IInv
  OBVIOUS
<1>1. TypeOK
  BY TypeInit
<1>2. \A w \in Writers : writers[w].at = "idle"
  BY DEF Init
<1>3. OneAtATime /\ CacheKnows
  BY <1>2 DEF Init, OneAtATime, CacheKnows
<1>4. \A s \in Slots : attempt.got[s] = Unknown
  BY DEF Init, NoAttempt
<1>5. link.state = "idle" /\ attempt = NoAttempt
  BY DEF Init, NoLink
<1>6. QED
  BY <1>1, <1>3, <1>4, <1>5 DEF IInv, SocketKnows, AttemptEnds

\* A new attempt, and one that ends, knows nothing that is not stored.
LEMMA FreshSocket ==
  ASSUME NEW state \in {"idle", "connecting", "waiting", "failed", "closed"},
         link' = NoLink(state), attempt' \in {NoAttempt, NewAttempt},
         state # "connecting" => attempt' = NoAttempt
  PROVE  SocketKnows' /\ AttemptEnds'
<1>1. \A s \in Slots : NoAttempt.got[s] = Unknown /\ NewAttempt.got[s] = Unknown
  BY DEF NoAttempt, NewAttempt
<1>2. link'.state \notin {"upgrading", "open"}
  BY DEF NoLink
<1>3. QED
  BY <1>1, <1>2 DEF SocketKnows, AttemptEnds, NoLink

LEMMA SafeStep == ASSUME SessionAssumption PROVE IInv /\ [Next]_vars => IInv'
<1> SUFFICES ASSUME IInv, [Next]_vars PROVE IInv'
  OBVIOUS
<1>0. TypeOK'
  BY TypeStep DEF IInv
<1> USE DEF auth, socket
\* A step that leaves the client and its writers alone and gives the socket nothing new.
<1>a. ASSUME UNCHANGED <<auth, serial>>,
             NEW state \in {"idle", "connecting", "waiting", "failed", "closed"},
             link' = NoLink(state), attempt' \in {NoAttempt, NewAttempt},
             state # "connecting" => attempt' = NoAttempt
      PROVE  IInv'
  <2>1. SocketKnows' /\ AttemptEnds'
    BY <1>a, FreshSocket
  <2>2. QED
    BY <1>0, <1>a, <2>1 DEF IInv, OneAtATime, CacheKnows, Storing
<1>1. ASSUME NEW w \in Writers, NEW next \in Stored, Begin(w, next) PROVE IInv'
  BY <1>0, <1>1 DEF IInv, TypeOK, OneAtATime, CacheKnows, SocketKnows, AttemptEnds, Storing, Begin
<1>2. ASSUME NEW w \in Writers, GivesUp(w) PROVE IInv'
  BY <1>0, <1>2 DEF IInv, TypeOK, OneAtATime, CacheKnows, SocketKnows, AttemptEnds, Storing, GivesUp
<1>3. ASSUME NEW w \in Writers, Replace(w) PROVE IInv'
  <2> USE <1>3 DEF Replace
  <2>1. serial' => serial /\ ~Storing
    OBVIOUS
  <2>2. OneAtATime'
    BY <2>1 DEF IInv, TypeOK, OneAtATime, Storing
  <2>3. Storing'
    BY DEF IInv, TypeOK, Storing
  <2>4. serial' => cached \in {Unknown, store} /\ ~unannounced
    BY <2>1 DEF IInv, CacheKnows
  <2>5. store' \in Stored /\ unannounced' = (unannounced \/ store' # store)
    BY DEF IInv, TypeOK
  <2>6. CacheKnows'
    BY <2>3, <2>4, <2>5 DEF CacheKnows, SessionAssumption, Stored
  <2>7. SocketKnows'
    BY <2>4, <2>5, <2>1 DEF IInv, SocketKnows
  <2>8. QED
    BY <1>0, <2>2, <2>6, <2>7 DEF IInv, AttemptEnds
<1>4. ASSUME NEW w \in Writers, Remember(w) PROVE IInv'
  <2> USE <1>4 DEF Remember
  <2>1. OneAtATime'
    BY DEF IInv, TypeOK, OneAtATime
  <2>2. cached' = writers[w].next /\ (serial => writers[w].next = store)
    BY DEF IInv, OneAtATime
  <2>3. CASE Changes(cached')
    <3>1. CacheKnows'
      BY <2>2, <2>3 DEF CacheKnows
    <3>2. CASE ReconnectIgnored
      <4>1. link' = link /\ attempt' = attempt
        BY <2>3, <3>2 DEF Reconnect
      <4>2. CASE unannounced /\ serial
        <5>1. link.state \in {"idle", "waiting", "failed", "closed"}
          BY <3>2 DEF ReconnectIgnored
        <5>2. \A s \in Slots : attempt.got[s] = Unknown
          BY <5>1 DEF IInv, AttemptEnds, NoAttempt
        <5>3. QED
          BY <1>0, <2>1, <3>1, <4>1, <5>1, <5>2 DEF IInv, SocketKnows, AttemptEnds
      <4>3. CASE ~(unannounced /\ serial)
        BY <1>0, <2>1, <3>1, <4>1, <4>3 DEF IInv, SocketKnows, AttemptEnds
      <4>4. QED
        BY <4>2, <4>3
    <3>3. CASE ~ReconnectIgnored
      <4>1. SocketKnows' /\ AttemptEnds'
        BY <2>3, <3>3, FreshSocket DEF Reconnect, Attempts
      <4>2. QED
        BY <1>0, <2>1, <3>1, <4>1 DEF IInv
    <3>4. QED
      BY <3>2, <3>3
  <2>4. CASE ~Changes(cached')
    <3>1. serial => ~unannounced
      BY <2>2, <2>4 DEF IInv, CacheKnows, Changes
    <3>2. CacheKnows' /\ SocketKnows' /\ AttemptEnds'
      BY <2>2, <2>4, <3>1 DEF IInv, CacheKnows, SocketKnows, AttemptEnds
    <3>3. QED
      BY <1>0, <2>1, <3>2 DEF IInv
  <2>5. QED
    BY <2>3, <2>4
<1>5. CASE ReadElsewhere
  BY <1>0, <1>5 DEF IInv, OneAtATime, CacheKnows, SocketKnows, AttemptEnds, Storing, ReadElsewhere
\* A load that brings no news leaves the cache as right as it was.
<1>b. ASSUME NEW seen \in Stored, Resumes(seen)
      PROVE  /\ OneAtATime' /\ CacheKnows'
             /\ serial' /\ ~unannounced' => seen = store
  <2> USE <1>b DEF Resumes
  <2>1. serial' => serial /\ NoNews(seen)
    OBVIOUS
  <2>2. OneAtATime'
    BY <2>1 DEF IInv, OneAtATime
  <2>3. Storing' = Storing
    BY DEF Storing
  <2>4. seen # Unknown
    BY DEF Stored, SessionAssumption
  <2>5. CacheKnows'
    BY <2>1, <2>3, <2>4 DEF IInv, CacheKnows, NoNews
  <2>6. serial' /\ ~unannounced' => seen = store
    BY <2>1, <2>4 DEF IInv, CacheKnows, NoNews
  <2>7. QED
    BY <2>2, <2>5, <2>6
<1>6. ASSUME NEW seen \in loads, ResumeElsewhere(seen) PROVE IInv'
  <2>1. seen \in Stored /\ Resumes(seen) /\ attempt' = attempt
    BY <1>6 DEF ResumeElsewhere, IInv, TypeOK
  <2>2. SocketKnows' /\ AttemptEnds'
    BY <2>1 DEF IInv, SocketKnows, AttemptEnds, Resumes
  <2>3. QED
    BY <1>0, <1>b, <2>1, <2>2 DEF IInv
<1>7. CASE Read
  <2>1. attempt'.got = attempt.got
    BY <1>7 DEF Read, IInv, TypeOK
  <2>2. link.state = "connecting"
    BY <1>7 DEF Read, IInv, AttemptEnds, NoAttempt
  <2>3. QED
    BY <1>0, <1>7, <2>1, <2>2 DEF IInv, OneAtATime, CacheKnows, SocketKnows, AttemptEnds, Storing,
       Read
<1>8. CASE Resume
  <2>1. attempt.seen \in Stored /\ Resumes(attempt.seen)
    BY <1>8 DEF Resume, IInv, TypeOK
  <2>2. \A s \in Slots : attempt'.got[s] \in {attempt.got[s], attempt.seen}
    BY <1>8 DEF Resume, IInv, TypeOK
  <2>3. serial' => serial
    BY <2>1 DEF Resumes
  <2>4. SocketKnows'
    BY <2>1, <2>2, <2>3, <1>b DEF IInv, SocketKnows, Resumes
  <2>5. link.state = "connecting"
    BY <1>8 DEF Resume, IInv, AttemptEnds, NoAttempt
  <2>6. QED
    BY <1>0, <1>b, <2>1, <2>4, <2>5 DEF IInv, AttemptEnds, Resumes
<1>9. CASE AttemptRefused
  BY <1>9, <1>a DEF AttemptRefused, Goes
<1>10. CASE AttemptFails
  BY <1>10, <1>a DEF AttemptFails, Goes
<1>11. CASE AttemptUpgrades
  <2>1. Carried \in Credentials /\ link'.cred = Carried /\ attempt' = NoAttempt
    BY <1>11 DEF AttemptUpgrades
  <2>2. Carried # Unknown
    BY <2>1 DEF SessionAssumption
  <2>3. serial /\ ~unannounced => Carried = store
    BY <2>2 DEF IInv, SocketKnows, Carried, Slots
  <2>4. \A s \in Slots : NoAttempt.got[s] = Unknown
    BY DEF NoAttempt
  <2>5. SocketKnows'
    BY <1>11, <2>1, <2>3, <2>4 DEF SocketKnows, AttemptUpgrades
  <2>6. QED
    BY <1>0, <1>11, <2>5 DEF IInv, OneAtATime, CacheKnows, AttemptEnds, Storing, AttemptUpgrades
<1>12. CASE Opens
  <2>1. link'.cred = link.cred /\ link.state = "upgrading"
    BY <1>12 DEF Opens, IInv, TypeOK
  <2>2. QED
    BY <1>0, <1>12, <2>1 DEF IInv, OneAtATime, CacheKnows, SocketKnows, AttemptEnds, Storing, Opens
<1>13. CASE UpgradeRefused
  BY <1>13, <1>a DEF UpgradeRefused, Goes
<1>14. CASE RetryTimer
  BY <1>14, <1>a DEF RetryTimer, Attempts
<1>15. CASE Connect
  BY <1>15, <1>a DEF Connect, Attempts
<1>16. CASE Drop
  BY <1>16, <1>a DEF Drop, Goes
<1>17. CASE Close
  BY <1>17, <1>a DEF Close, Goes
<1>18. CASE UNCHANGED vars
  BY <1>0, <1>18 DEF vars, IInv, OneAtATime, CacheKnows, SocketKnows, AttemptEnds, Storing
<1>19. QED
  BY <1>1, <1>2, <1>3, <1>4, <1>5, <1>6, <1>7, <1>8, <1>9, <1>10, <1>11, <1>12, <1>13, <1>14,
     <1>15, <1>16, <1>17, <1>18 DEF Next, Writing, Storage, Loading, Socket

LEMMA Safe == ASSUME SessionAssumption PROVE Spec => []IInv
BY SafeInit, SafeStep, PTL DEF Spec

\* Serial saves and loads without news: every change of the stored credential is announced,
\* and the cache is right (authClient.ts:223-241).
THEOREM ChangesAreAnnouncedCorrect ==
  ASSUME SessionAssumption PROVE Spec => []ChangesAreAnnounced
<1>1. IInv => ChangesAreAnnounced
  BY DEF IInv, CacheKnows, ChangesAreAnnounced
<1>2. QED
  BY <1>1, Safe, PTL

\* An open socket was upgraded with the stored credential (client.ts:148).
THEOREM OpenLinkIsCurrentCorrect ==
  ASSUME SessionAssumption PROVE Spec => []OpenLinkIsCurrent
<1>1. IInv => OpenLinkIsCurrent
  BY DEF IInv, CacheKnows, SocketKnows, OpenLinkIsCurrent
<1>2. QED
  BY <1>1, Safe, PTL
-----------------------------------------------------------------------------
(* Why a socket fails for good *)

\* What the server compares; a ticket needs no bearer.
Compared == {"token", "key", "proof"}

\* What an attempt has no value of yet it is going to load, unless there was no token.
SlotsLoaded ==
  link.state = "connecting" =>
    \A s \in Compared :
      \/ attempt.got[s] # Unknown
      \/ \E i \in DOMAIN attempt.left : attempt.left[i] = s
      \/ attempt.left = <<>> /\ None \in {attempt.got["token"], attempt.got["bearer"]}

\* The proof an upgrade carries is of the stored credential as well.
ProofIsStored == serial /\ ~unannounced /\ link.state = "upgrading" => link.proof = store /\ store # None

CauseInv == IInv /\ SlotsLoaded /\ ProofIsStored

\* What is loaded and compared is of the stored credential, once that is announced.
LEMMA LoadedIsStored ==
  ASSUME SessionAssumption, CauseInv, UnderWay, serial, ~unannounced, store # None,
         NEW s \in Compared, \A i \in DOMAIN attempt.left : attempt.left[i] # s
  PROVE  attempt.got[s] = store
<1>1. \A x \in Slots : attempt.got[x] \in {Unknown, store}
  BY DEF CauseInv, IInv, SocketKnows, UnderWay
<1>2. attempt.got["token"] # None /\ attempt.got["bearer"] # None
  BY <1>1 DEF Slots, SessionAssumption
<1>3. attempt.got[s] # Unknown
  BY <1>2 DEF CauseInv, SlotsLoaded, UnderWay
<1>4. QED
  BY <1>1, <1>3 DEF Compared, Slots

\* With everything loaded, all that is compared is.
LEMMA AllStored ==
  ASSUME SessionAssumption, CauseInv, Loaded, serial, ~unannounced, store # None
  PROVE  \A s \in Compared : attempt.got[s] = store
BY LoadedIsStored DEF Loaded

\* So are the token and the key of a request.
LEMMA AskedIsStored ==
  ASSUME SessionAssumption, CauseInv, Asked, serial, ~unannounced, store # None
  PROVE  attempt.got["token"] = store /\ attempt.got["key"] = store
<1>1. attempt.left = <<>> \/ attempt.left = <<"proof">>
  BY DEF Asked
<1>2. \A i \in DOMAIN attempt.left : attempt.left[i] # "token" /\ attempt.left[i] # "key"
  BY <1>1
<1>3. QED
  BY <1>2, LoadedIsStored DEF Asked, Compared

\* An attempt that begins has everything left to load.
LEMMA AttemptLoads == \A s \in Compared : \E i \in DOMAIN NewAttempt.left : NewAttempt.left[i] = s
<1>1. NewAttempt.left = ToLoad
  BY DEF NewAttempt, NoAttempt
<1>2. CASE socketAuth = "ticket"
  <2>1. ToLoad = <<"proof", "token", "key">>
    BY <1>2 DEF ToLoad
  <2>2. 1 \in DOMAIN ToLoad /\ 2 \in DOMAIN ToLoad /\ 3 \in DOMAIN ToLoad
    BY <2>1
  <2>3. QED
    BY <1>1, <2>1, <2>2 DEF Compared
<1>3. CASE socketAuth # "ticket"
  <2>1. ToLoad = <<"bearer", "token", "key", "proof">>
    BY <1>3 DEF ToLoad
  <2>2. 2 \in DOMAIN ToLoad /\ 3 \in DOMAIN ToLoad /\ 4 \in DOMAIN ToLoad
    BY <2>1
  <2>3. QED
    BY <1>1, <2>1, <2>2 DEF Compared
<1>4. QED
  BY <1>2, <1>3

LEMMA CauseStep == ASSUME SessionAssumption, CauseInv, [Next]_vars PROVE CauseInv'
<1>0. IInv' /\ IInv /\ TypeOK
  BY SafeStep DEF CauseInv, IInv
<1> USE DEF auth, socket
<1>u. attempt \in [left : Seq(Slots), seen : Stored \cup {Unknown}, got : [Slots -> Stored \cup {Unknown}]]
      /\ Unknown \notin Stored /\ None \in Stored
  BY <1>0 DEF TypeOK, Stored, SessionAssumption
\* The socket begins an attempt, or has none.
<1>a. ASSUME link'.state \notin {"upgrading"}, link'.state = "connecting" => attempt' = NewAttempt
      PROVE  CauseInv'
  BY <1>0, <1>a, AttemptLoads DEF CauseInv, SlotsLoaded, ProofIsStored
\* The socket is left alone, and what it knows stays so.
<1>b. ASSUME UNCHANGED <<link, attempt>>, serial' => serial,
             serial' /\ ~unannounced' => store' = store /\ ~unannounced
      PROVE  CauseInv'
  BY <1>0, <1>b DEF CauseInv, SlotsLoaded, ProofIsStored
<1>1. CASE Writing
  BY <1>1, <1>b DEF Writing, Begin, GivesUp
<1>2. ASSUME NEW w \in Writers, Replace(w) PROVE CauseInv'
  <2>1. unannounced' = (unannounced \/ store' # store) /\ unannounced \in BOOLEAN /\ (serial' => serial)
    BY <1>0, <1>2 DEF Replace, TypeOK
  <2>2. QED
    BY <1>2, <2>1, <1>b DEF Replace
<1>3. ASSUME NEW w \in Writers, Remember(w) PROVE CauseInv'
  <2>1. CASE Changes(cached') /\ ~ReconnectIgnored
    <3>1. link' = NoLink("connecting") /\ attempt' = NewAttempt
      BY <1>3, <2>1 DEF Remember, Reconnect, Attempts
    <3>2. QED
      BY <3>1, <1>a DEF NoLink
  <2>2. CASE Changes(cached') /\ ReconnectIgnored
    <3>1. UNCHANGED <<link, attempt>> /\ link.state \in {"idle", "waiting", "failed", "closed"}
      BY <1>3, <2>2 DEF Remember, Reconnect, ReconnectIgnored
    <3>2. QED
      BY <3>1, <1>a
  <2>3. CASE ~Changes(cached')
    BY <1>3, <2>3, <1>b DEF Remember
  <2>4. QED
    BY <2>1, <2>2, <2>3
<1>4. CASE Loading
  <2>1. CASE ReadElsewhere
    BY <2>1, <1>b DEF ReadElsewhere
  <2>2. ASSUME NEW seen \in loads, ResumeElsewhere(seen) PROVE CauseInv'
    <3>1. UNCHANGED <<link, attempt, store, unannounced>> /\ serial' = (serial /\ NoNews(seen))
      BY <2>2 DEF ResumeElsewhere, Resumes
    <3>2. QED
      BY <3>1, <1>b
  <2>3. QED
    BY <1>4, <2>1, <2>2 DEF Loading
<1>5. CASE Read
  <2>1. attempt'.got = attempt.got /\ attempt'.left = attempt.left
    BY <1>5, <1>u DEF Read
  <2>2. QED
    BY <1>0, <1>5, <2>1 DEF Read, CauseInv, SlotsLoaded, ProofIsStored
<1>6. CASE Resume
  <2> DEFINE left == attempt.left
             seen == attempt.seen
  <2>1. seen \in Stored /\ left \in Seq(Slots) /\ left # <<>> /\ link.state = "connecting" /\ link' = link
    BY <1>0, <1>6, <1>u DEF Resume, Resumes, IInv, TypeOK, AttemptEnds, NoAttempt
  <2>2. Head(left) \in Slots /\ Head(left) = left[1] /\ DOMAIN left = 1..Len(left) /\ Len(left) \in Nat
    BY <2>1
  <2>3. \A i \in DOMAIN left : i # 1 => i - 1 \in DOMAIN Tail(left) /\ Tail(left)[i - 1] = left[i]
    BY <2>1
  <2>4. /\ attempt'.left = LeftAfter(seen)
        /\ \A s \in Slots : attempt'.got[s] = IF s = Head(left) THEN seen ELSE attempt.got[s]
    BY <1>6, <1>u, <2>2 DEF Resume
  <2>5. CASE seen = None /\ Head(left) \in {"token", "bearer"}
    <3>1. attempt'.left = <<>> /\ attempt'.got[Head(left)] = None
      BY <2>2, <2>4, <2>5 DEF LeftAfter
    <3>2. SlotsLoaded'
      BY <2>5, <3>1 DEF SlotsLoaded
    <3>3. QED
      BY <1>0, <2>1, <3>2 DEF CauseInv, ProofIsStored
  <2>6. CASE ~(seen = None /\ Head(left) \in {"token", "bearer"})
    <3>1. attempt'.left = Tail(left)
      BY <2>4, <2>6 DEF LeftAfter
    <3>2. ASSUME NEW s \in Compared
          PROVE  attempt'.got[s] # Unknown \/ \E i \in DOMAIN attempt'.left : attempt'.left[i] = s
      <4>1. CASE s = Head(left)
        BY <1>u, <2>1, <2>4, <4>1 DEF Compared, Slots
      <4>2. CASE s # Head(left) /\ attempt.got[s] # Unknown
        BY <2>4, <4>2 DEF Compared, Slots
      <4>3. CASE s # Head(left) /\ attempt.got[s] = Unknown
        <5>1. PICK i \in DOMAIN left : left[i] = s
          BY <2>1, <4>3 DEF CauseInv, SlotsLoaded
        <5>2. i # 1
          BY <2>2, <4>3, <5>1 DEF Compared, Slots
        <5>3. QED
          BY <2>3, <3>1, <5>1, <5>2
      <4>4. QED
        BY <4>1, <4>2, <4>3
    <3>3. SlotsLoaded'
      BY <3>2 DEF SlotsLoaded
    <3>4. QED
      BY <1>0, <2>1, <3>3 DEF CauseInv, ProofIsStored
  <2>7. QED
    BY <2>5, <2>6
<1>7. CASE AttemptRefused \/ AttemptFails \/ UpgradeRefused \/ Drop \/ Close
  <2>1. link'.state \in {"failed", "waiting", "closed"}
    BY <1>7 DEF AttemptRefused, AttemptFails, UpgradeRefused, Drop, Close, Goes, NoLink
  <2>2. QED
    BY <2>1, <1>a
<1>8. CASE AttemptUpgrades
  <2>1. /\ Loaded /\ Carried \in Credentials /\ UNCHANGED auth /\ serial' = serial
        /\ link'.state = "upgrading" /\ link'.proof = attempt.got["proof"]
    BY <1>8 DEF AttemptUpgrades
  <2>2. ASSUME serial, ~unannounced PROVE attempt.got["proof"] = store /\ store # None
    <3>1. Carried \in {Unknown, store}
      BY <1>0, <2>2 DEF IInv, SocketKnows, Carried, Slots
    <3>2. store # None
      BY <2>1, <3>1 DEF SessionAssumption
    <3>3. QED
      BY <2>1, <2>2, <3>2, AllStored DEF Compared
  <2>3. QED
    BY <1>0, <2>1, <2>2 DEF CauseInv, SlotsLoaded, ProofIsStored
<1>9. CASE Opens
  <2>1. link'.state = "open"
    BY <1>0, <1>9 DEF Opens, TypeOK
  <2>2. QED
    BY <2>1, <1>a
<1>10. CASE RetryTimer \/ Connect
  <2>1. link' = NoLink("connecting") /\ attempt' = NewAttempt
    BY <1>10 DEF RetryTimer, Connect, Attempts
  <2>2. QED
    BY <2>1, <1>a DEF NoLink
<1>11. CASE UNCHANGED vars
  BY <1>11, <1>b DEF vars
<1>12. QED
  BY <1>1, <1>2, <1>3, <1>4, <1>5, <1>6, <1>7, <1>8, <1>9, <1>10, <1>11 DEF Next, Storage, Socket

\* The server takes the stored credential with its own key.
LEMMA StoredFits == ASSUME SessionAssumption, TypeOK, store # None PROVE Fits(store, store)
BY DEF TypeOK, Stored, Fits

\* The steps that end a socket for good, when no fault is charged.
LEMMA FailureHasCause ==
  ASSUME SessionAssumption, CauseInv, [Next]_vars, link.state # "failed", link'.state = "failed",
         serial, faults' = faults, ~Storing
  PROVE  store = None
<1>0. TypeOK /\ ~unannounced /\ faults \in Nat
  BY DEF CauseInv, IInv, CacheKnows, TypeOK
<1>1. ~Charge
  BY <1>0 DEF Charge
<1>2. CASE AttemptRefused
  <2>1. Asked /\ ~Fits(attempt.got["token"], attempt.got["key"])
    BY <1>1, <1>2 DEF AttemptRefused
  <2>2. SUFFICES ASSUME store # None PROVE FALSE
    OBVIOUS
  <2>3. QED
    BY <1>0, <2>1, <2>2, AskedIsStored, StoredFits
<1>3. CASE UpgradeRefused
  <2>1. link.state = "upgrading" /\ ~Fits(link.cred, link.proof)
    BY <1>1, <1>3 DEF UpgradeRefused, UpgradeFits
  <2>2. link.cred = store /\ link.proof = store /\ store # None
    BY <1>0, <2>1 DEF CauseInv, IInv, SocketKnows, ProofIsStored
  <2>3. QED
    BY <1>0, <2>1, <2>2, StoredFits
<1>4. CASE Writing \/ Loading \/ Read \/ Resume \/ UNCHANGED vars
  BY <1>4 DEF Writing, Begin, GivesUp, Loading, ReadElsewhere, ResumeElsewhere, Resumes, Read,
       Resume, vars, socket, auth
<1>5. CASE Storage
  <2>1. UNCHANGED link \/ link' = NoLink("connecting")
    BY <1>5 DEF Storage, Replace, Remember, Reconnect, Attempts, socket
  <2>2. QED
    BY <2>1 DEF NoLink
<1>6. CASE AttemptFails \/ Drop
  BY <1>1, <1>6 DEF AttemptFails, Drop
<1>7. CASE AttemptUpgrades \/ Opens
  <2>1. CASE AttemptUpgrades
    BY <2>1 DEF AttemptUpgrades
  <2>2. CASE Opens
    <3>1. link'.state = "open"
      BY <1>0, <2>2 DEF Opens, TypeOK
    <3>2. QED
      BY <3>1
  <2>3. QED
    BY <1>7, <2>1, <2>2
<1>8. CASE RetryTimer \/ Connect \/ Close
  <2>1. link' = NoLink("connecting") \/ link' = NoLink("closed")
    BY <1>8 DEF RetryTimer, Connect, Close, Attempts, Goes
  <2>2. QED
    BY <2>1 DEF NoLink
<1>9. QED
  BY <1>2, <1>3, <1>4, <1>5, <1>6, <1>7, <1>8 DEF Next, Socket

\* Without a fault of the network or the server, a socket fails for good only when nothing is
\* stored or a save is on its way: no attempt mixes the parts of two credentials
\* (http.ts:148-157, client.ts:118-135, socket.ts:189-191).
THEOREM FailsForCauseCorrect == ASSUME SessionAssumption PROVE Spec => FailsForCause
<1>1. Init => CauseInv
  <2> SUFFICES ASSUME Init PROVE CauseInv
    OBVIOUS
  <2>1. link.state = "idle"
    BY DEF Init, NoLink
  <2>2. QED
    BY <2>1, SafeInit DEF CauseInv, SlotsLoaded, ProofIsStored
<1>2. CauseInv /\ [Next]_vars => CauseInv'
  BY CauseStep
<1>3. CauseInv /\ [Next]_vars =>
        [link.state # "failed" /\ link'.state = "failed" /\ serial /\ faults' = faults
           => store = None \/ Storing]_vars
  BY FailureHasCause
<1>4. QED
  BY <1>1, <1>2, <1>3, PTL DEF Spec, FailsForCause
=============================================================================
