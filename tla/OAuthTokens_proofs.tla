------------------------ MODULE OAuthTokens_proofs -------------------------
(***************************************************************************)
(* Safety of OAuthTokens for any number of processes, sessions and ticks.  *)
(*                                                                         *)
(* ExpiryInv is about time: what is left of a token when it is resolved is *)
(* the margin, counted from when its grant was under way.  SessionInv,     *)
(* HonouredInv and RotationInv are about the pair: what the provider       *)
(* honours is on file, in one hand, or lost with a process.  CalmInv is    *)
(* about nobody being logged out.                                          *)
(***************************************************************************)
EXTENDS OAuthTokens, TLAPS

Receiving(c) == step[c] \in {"answered", "storing"}

\* Nobody waits while the file is written, so the stored lifetime counts from
\* now; a token in use was stored then, or passed the check of its margin.
ExpiryInv ==
  \A c \in Callers :
    /\ step[c] = "storing" => reply[c].expiresAt = now + Lifetime
    /\ step[c] = "sending" /\ client[c].provider =>
         /\ auth[c].kind = "oauth" =>
              \/ auth[c].until > since[c] + Buffer
              \/ auth[c].until >= since[c] + Lifetime
         /\ auth[c].kind = "kept" => ~static
    /\ client[c].provider => client[c].made
    /\ step[c] = "sending" => client[c].made

\* Every pair is of a session there was; that of a login is in no other
\* hands yet.
SessionInv ==
  /\ file.state = "whole" =>
       /\ file.tokens.session \in 1..sessions
       /\ login # "none" => file.tokens.session < sessions
  /\ \A c \in Callers :
       /\ step[c] = "refreshing" \/ Receiving(c) =>
            /\ held[c].session \in 1..sessions
            /\ login # "none" => held[c].session < sessions
       /\ Receiving(c) => reply[c].session = held[c].session
  /\ login # "none" => granted.session = sessions

\* What the provider honours is never older than what is on file or asked
\* with, and it is what is about to be stored.
HonouredInv ==
  /\ file.state = "whole" =>
       file.tokens.refresh <= honoured[file.tokens.session]
  /\ \A c \in Callers :
       /\ step[c] = "refreshing" => held[c].refresh <= honoured[held[c].session]
       /\ Receiving(c) => honoured[reply[c].session] = reply[c].refresh
  /\ login # "none" => honoured[sessions] = granted.refresh

\* With rotation, the process that is given a pair is the only one that has
\* it, until it is on file.
RotationInv ==
  rotates => \A c \in Callers : Receiving(c) =>
    /\ \A d \in Callers :
         /\ Receiving(d) /\ held[d].session = held[c].session => d = c
         /\ step[d] = "refreshing" /\ held[d].session = held[c].session =>
              held[d].refresh < reply[c].refresh
    /\ file.state = "whole" /\ file.tokens.session = held[c].session =>
         step[c] = "answered" /\ file.tokens.refresh < reply[c].refresh

\* While all is calm there is one pair, which everybody reads, asks with and
\* stores, and every client has a provider.
CalmInv ==
  calm /\ ~tornRead /\ ~overdue =>
    /\ ~rotates /\ login = "none" /\ honoured[1] = 1
    /\ file.state # "absent"
    /\ file.state = "whole" => file.tokens.session = 1 /\ file.tokens.refresh = 1
    /\ \A c \in Callers :
         /\ step[c] \notin {"failed", "gone"}
         /\ step[c] = "refreshing" => held[c].session = 1 /\ held[c].refresh = 1
         /\ Receiving(c) => held[c].session = 1 /\ reply[c].refresh = 1
         /\ step[c] \in {"ready", "sending"} => auth[c].kind = "oauth"
         /\ client[c].made => client[c].provider

OAuthInv == /\ TypeOK /\ ExpiryInv /\ SessionInv /\ HonouredInv
            /\ RotationInv /\ CalmInv /\ StoredPairIsUsable

-----------------------------------------------------------------------------
(* Types.                                                                  *)

LEMMA Params ==
    /\ Lifetime \in Nat /\ Buffer \in Nat /\ DEFAULT_MAX_RETRIES \in Nat
    /\ MaxNow \in Nat /\ MaxSessions \in Nat /\ MaxSessions > 0
  BY ConstantsAssumption

LEMMA NoTokensTyped == NoTokens \in Tokens
  BY Params DEF NoTokens, Tokens

LEMMA GrantTyped ==
    ASSUME TypeOK, NEW s \in 0..MaxSessions, NEW r \in Nat
    PROVE  /\ Grant(s, r) \in Tokens
           /\ Grant(s, r).session = s /\ Grant(s, r).refresh = r
           /\ Grant(s, r).until = now + Lifetime
           /\ Grant(s, r).expiresAt = now + Lifetime
  BY Params DEF TypeOK, Grant, Tokens

\* What the answer, as it is stored, has from the grant.
LEMMA Updating ==
    ASSUME TypeOK, NEW t \in Tokens
    PROVE  LET u == [t EXCEPT !.expiresAt = now + Lifetime] IN
           /\ u \in Tokens /\ u.session = t.session
           /\ u.refresh = t.refresh /\ u.until = t.until
           /\ u.expiresAt = now + Lifetime
  <1>1. now + Lifetime \in Nat
    BY Params DEF TypeOK
  <1> QED  BY <1>1 DEF Tokens

LEMMA AuthTyped ==
    ASSUME NEW k \in {"none", "static", "oauth", "kept"}, NEW u \in Nat
    PROVE  Auth(k, u) \in Auths /\ Auth(k, u).kind = k /\ Auth(k, u).until = u
  BY DEF Auth, Auths

LEMMA OtherwiseTyped ==
    ASSUME TypeOK, NEW c \in Callers
    PROVE  Otherwise(c) \in Auths
  <1>1. client[c].initial \in Auths /\ Forever \in Nat
    BY Params DEF TypeOK, Clients, Forever
  <1> QED  BY <1>1, AuthTyped DEF Otherwise, Auths

\* What is sent keeps its types when a token is resolved, and when it goes
\* out of scope.
LEMMA SentTyped ==
    ASSUME TypeOK, NEW c \in Callers,
           \/ Sent(c)
           \/ \E a \in Auths, t \in Int : Use(c, a, t)
           \/ \E t \in Tokens : UseOAuth(c, t)
    PROVE  /\ step' \in [Callers -> Steps] /\ auth' \in [Callers -> Auths]
           /\ since' \in [Callers -> Int]
           /\ attempt' \in [Callers -> 0..DEFAULT_MAX_RETRIES]
  <1>0. /\ step \in [Callers -> Steps] /\ auth \in [Callers -> Auths]
        /\ since \in [Callers -> Int] /\ now \in Int
        /\ attempt \in [Callers -> 0..DEFAULT_MAX_RETRIES]
    BY Params DEF TypeOK
  <1>1. CASE Sent(c)
    <2>1. Auth("none", 0) \in Auths /\ 0 \in 0..DEFAULT_MAX_RETRIES
      BY AuthTyped, Params
    <2> QED  BY <1>0, <1>1, <2>1 DEF Sent, Steps
  <1>2. ASSUME NEW a \in Auths, NEW t \in Int, Use(c, a, t)
        PROVE  /\ step' \in [Callers -> Steps] /\ auth' \in [Callers -> Auths]
               /\ since' \in [Callers -> Int] /\ attempt' = attempt
    BY <1>0, <1>2 DEF Use, Steps
  <1>3. ASSUME NEW t \in Tokens, UseOAuth(c, t)
        PROVE  \E a \in Auths, u \in Int : Use(c, a, u)
    <2>1. t.until \in Nat /\ t.expiresAt \in Nat
      BY DEF Tokens
    <2>2. Auth("oauth", t.until) \in Auths /\ now - (t.expiresAt - t.until) \in Int
      BY <1>0, <2>1, AuthTyped
    <2> QED  BY <1>3, <2>2 DEF UseOAuth
  <1> QED  BY <1>0, <1>1, <1>2, <1>3

LEMMA PairTyped ==
    ASSUME NEW t \in Tokens
    PROVE  /\ Pair(t) \in Tokens
           /\ Pair(t).session = t.session /\ Pair(t).refresh = t.refresh
  BY DEF Pair, Tokens

LEMMA StepTyped == TypeOK /\ [Next]_vars => TypeOK'
  <1> SUFFICES ASSUME TypeOK, [Next]_vars PROVE TypeOK'
    OBVIOUS
  <1> USE DEF world, server, others, sent, seen
  <1>1. CASE Tick
    BY <1>1, Params, SMTT(20) DEF Tick, TypeOK
  <1>2. CASE LoginExchanged
    <2>1. sessions' \in 1..MaxSessions /\ sessions' \in 0..MaxSessions
      BY <1>2, Params DEF LoginExchanged, TypeOK
    <2>2. PICK r \in {0, 1} : /\ honoured' = [honoured EXCEPT ![sessions'] = r]
                              /\ granted' = Grant(sessions', r)
      BY <1>2 DEF LoginExchanged
    <2>3. granted' \in Tokens
      BY <2>1, <2>2, GrantTyped
    <2>4. honoured' \in [1..MaxSessions -> Nat]
      BY <2>1, <2>2 DEF TypeOK
    <2> QED  BY <1>2, <2>1, <2>3, <2>4 DEF LoginExchanged, TypeOK
  <1>3. CASE LoginAnswered
    <2>1. granted' \in Tokens
      BY <1>3, Updating DEF LoginAnswered, TypeOK
    <2> QED  BY <1>3, <2>1 DEF LoginAnswered, TypeOK
  <1>4. CASE LoginStored
    BY <1>4, NoTokensTyped DEF LoginStored, TypeOK, Whole
  <1>5. CASE Logout
    BY <1>5 DEF Logout, TypeOK
  <1>6. ASSUME NEW c \in Callers, ServeRefresh(c) PROVE TypeOK'
    <2>1. held[c] \in Tokens
      BY <1>6 DEF TypeOK
    <2>a. honoured \in [1..MaxSessions -> Nat] /\ held[c].refresh \in Nat
      BY <2>1 DEF TypeOK, Tokens
    <2>b. PICK next \in Nat :
            /\ \/ honoured' = [honoured EXCEPT ![held[c].session] = next]
               \/ honoured' = honoured
            /\ \/ reply' = [reply EXCEPT ![c] = Grant(held[c].session, next)]
               \/ reply' = reply
      BY <1>6, <2>a DEF ServeRefresh
    <2>2. honoured' \in [1..MaxSessions -> Nat] /\ step' \in [Callers -> Steps]
      <3>1. honoured' \in [1..MaxSessions -> Nat]
        BY <2>a, <2>b
      <3> QED  BY <1>6, <3>1 DEF ServeRefresh, TypeOK, Steps
    <2>3. reply' \in [Callers -> Tokens]
      <3>1. Grant(held[c].session, next) \in Tokens
        BY <2>1, GrantTyped DEF Tokens
      <3> QED  BY <2>b, <3>1 DEF TypeOK
    <2> QED  BY <1>6, <2>2, <2>3 DEF ServeRefresh, TypeOK
  <1>7. ASSUME NEW c \in Callers, Static(c) PROVE TypeOK'
    <2>1. client[c].initial \in Auths /\ Use(c, client[c].initial, 0)
      BY <1>7 DEF Static, TypeOK, Clients
    <2> QED  BY <1>7, <2>1, SentTyped DEF Static, TypeOK
  <1>8. ASSUME NEW c \in Callers, Resolve(c) PROVE TypeOK'
    <2>1. Otherwise(c) \in Auths
      BY OtherwiseTyped
    <2>2. file.state = "whole" => file.tokens \in Tokens /\ Pair(file.tokens) \in Tokens
      <3>1. SUFFICES ASSUME file.state = "whole"
                     PROVE  file.tokens \in Tokens
        BY PairTyped
      <3>2. file \in [state : {"whole"}, tokens : Tokens]
        BY <3>1 DEF TypeOK, Absent, Torn
      <3> QED  BY <3>2
    <2>3. /\ step' \in [Callers -> Steps] /\ auth' \in [Callers -> Auths]
          /\ since' \in [Callers -> Int]
          /\ attempt' \in [Callers -> 0..DEFAULT_MAX_RETRIES]
      <3>1. CASE Use(c, Otherwise(c), 0)
        BY <2>1, <3>1, SentTyped
      <3>2. CASE file.state = "whole" /\ UseOAuth(c, file.tokens)
        BY <2>2, <3>2, SentTyped
      <3>3. CASE step' = [step EXCEPT ![c] = "refreshing"] /\ UNCHANGED sent
        BY <3>3 DEF TypeOK, Steps
      <3> QED  BY <1>8, <3>1, <3>2, <3>3 DEF Resolve
    <2>4. held' \in [Callers -> Tokens]
      <3>1. \/ held' = held
            \/ file.state = "whole" /\ held' = [held EXCEPT ![c] = Pair(file.tokens)]
        BY <1>8 DEF Resolve
      <3> QED  BY <2>2, <3>1 DEF TypeOK
    <2>5. tornRead' \in BOOLEAN /\ file' \in {file, Absent}
      BY <1>8 DEF Resolve, TypeOK
    <2>6. UNCHANGED <<world, server, reply, client, login, granted, overdue, now>>
      BY <1>8 DEF Resolve
    <2> QED  BY <2>3, <2>4, <2>5, <2>6 DEF TypeOK
  <1>9. ASSUME NEW c \in Callers, RefreshFails(c) PROVE TypeOK'
    <2>1. Use(c, Otherwise(c), 0) /\ Otherwise(c) \in Auths
      BY <1>9, OtherwiseTyped DEF RefreshFails
    <2> QED  BY <1>9, <2>1, SentTyped, NoTokensTyped DEF RefreshFails, TypeOK
  <1>10. ASSUME NEW c \in Callers, RefreshAnswered(c) PROVE TypeOK'
    <2>1. Updated(c) \in Tokens
      BY Updating DEF Updated, TypeOK
    <2> QED  BY <1>10, <2>1 DEF RefreshAnswered, TypeOK, Steps
  <1>11. ASSUME NEW c \in Callers, Stored(c) PROVE TypeOK'
    <2>1. reply[c] \in Tokens /\ UseOAuth(c, reply[c])
      BY <1>11 DEF Stored, TypeOK
    <2>2. Whole(reply[c]) \in [state : {"whole"}, tokens : Tokens]
      BY <2>1 DEF Whole
    <2>3. /\ step' \in [Callers -> Steps] /\ auth' \in [Callers -> Auths]
          /\ since' \in [Callers -> Int]
          /\ attempt' \in [Callers -> 0..DEFAULT_MAX_RETRIES]
      BY <2>1, SentTyped
    <2> QED  BY <1>11, <2>2, <2>3, NoTokensTyped DEF Stored, TypeOK
  <1>12. ASSUME NEW c \in Callers, Create(c) PROVE TypeOK'
    <2>1. [made |-> TRUE, provider |-> file.state = "whole", initial |-> auth[c]]
            \in Clients
      BY DEF TypeOK, Clients
    <2>2. Sent(c) /\ tornRead' \in BOOLEAN
      BY <1>12 DEF Create, TypeOK
    <2> QED  BY <1>12, <2>1, <2>2, SentTyped DEF Create, TypeOK
  <1>13. ASSUME NEW c \in Callers, Accepted(c) PROVE TypeOK'
    BY <1>13, SentTyped DEF Accepted, TypeOK
  <1>14. ASSUME NEW c \in Callers, AttemptFails(c) PROVE TypeOK'
    <2>1. NewClient \in Clients
      BY AuthTyped DEF NewClient, Clients
    <2>2. client' \in [Callers -> Clients]
      BY <1>14, <2>1 DEF AttemptFails, TypeOK
    <2>3. CASE Sent(c)
      BY <1>14, <2>2, <2>3, SentTyped DEF AttemptFails, TypeOK
    <2>4. CASE /\ attempt[c] < DEFAULT_MAX_RETRIES
               /\ attempt' = [attempt EXCEPT ![c] = @ + 1]
               /\ UNCHANGED <<step, auth, since, client>>
      <3>1. attempt' \in [Callers -> 0..DEFAULT_MAX_RETRIES]
        BY <2>4, Params DEF TypeOK
      <3> QED  BY <1>14, <2>4, <3>1 DEF AttemptFails, TypeOK
    <2> QED  BY <1>14, <2>3, <2>4 DEF AttemptFails
  <1>15. ASSUME NEW c \in Callers, Rejected(c) PROVE TypeOK'
    <2>1. NewClient \in Clients
      BY AuthTyped DEF NewClient, Clients
    <2>2. Sent(c) /\ file' \in {file, Absent} /\ overdue' \in BOOLEAN
      BY <1>15 DEF Rejected, HandleAuthFailure, TypeOK
    <2> QED  BY <1>15, <2>1, <2>2, SentTyped DEF Rejected, TypeOK
  <1>16. ASSUME NEW c \in Callers, Crash(c) PROVE TypeOK'
    <2>1. NewClient \in Clients
      BY AuthTyped DEF NewClient, Clients
    <2> QED  BY <1>16, <2>1, NoTokensTyped DEF Crash, TypeOK, Steps
  <1>17. CASE UNCHANGED vars
    BY <1>17 DEF vars, TypeOK
  <1> QED
    BY <1>1, <1>2, <1>3, <1>4, <1>5, <1>6, <1>7, <1>8, <1>9,
       <1>10, <1>11, <1>12, <1>13, <1>14, <1>15, <1>16, <1>17
    DEF Next, User, Caller

LEMMA FileTyped == TypeOK /\ file.state = "whole" => file.tokens \in Tokens
  BY DEF TypeOK, Absent, Torn

LEMMA InitTyped == Init => TypeOK
  <1> SUFFICES ASSUME Init PROVE TypeOK
    OBVIOUS
  <1>1. NoTokens \in Tokens /\ Auth("none", 0) \in Auths /\ NewClient \in Clients
    BY NoTokensTyped, AuthTyped DEF NewClient, Clients
  <1>2. ASSUME NEW left \in {0, Lifetime}, NEW r \in {0, 1}
        PROVE  Whole([session |-> 1, refresh |-> r, until |-> left,
                      expiresAt |-> left]) \in [state : {"whole"}, tokens : Tokens]
    BY Params DEF Whole, Tokens
  <1>3. file \in {Absent, Torn} \cup [state : {"whole"}, tokens : Tokens]
    BY <1>2 DEF Init
  <1>4. honoured \in [1..MaxSessions -> Nat] /\ sessions \in 1..MaxSessions
    BY Params DEF Init
  <1>5. now \in 0..MaxNow /\ 0 \in 0..DEFAULT_MAX_RETRIES
    BY Params DEF Init
  <1>6. /\ since \in [Callers -> Int]
        /\ attempt \in [Callers -> 0..DEFAULT_MAX_RETRIES]
    BY <1>5 DEF Init
  <1> QED  BY <1>1, <1>3, <1>4, <1>5, <1>6 DEF Init, TypeOK, Steps

-----------------------------------------------------------------------------
(* How long tokens live.                                                   *)

\* What resolving a token does, and what an OAuth token then has left.
LEMMA Using ==
    ASSUME TypeOK, NEW c \in Callers, NEW a, NEW t, Use(c, a, t)
    PROVE  /\ step'[c] = IF client[c].made THEN "sending" ELSE "ready"
           /\ auth'[c] = a /\ since'[c] = t
           /\ \A d \in Callers : d # c =>
                step'[d] = step[d] /\ auth'[d] = auth[d] /\ since'[d] = since[d]
  BY DEF Use, TypeOK

LEMMA UsingOAuth ==
    ASSUME TypeOK, NEW c \in Callers, NEW t \in Tokens, UseOAuth(c, t),
           Fresh(t) \/ t.expiresAt = now + Lifetime
    PROVE  /\ auth'[c].kind = "oauth"
           /\ \/ auth'[c].until > since'[c] + Buffer
              \/ auth'[c].until >= since'[c] + Lifetime
  <1>1. t.until \in Nat /\ t.expiresAt \in Nat /\ now \in Nat
    BY Params DEF TypeOK, Tokens
  <1>2. /\ auth'[c] = Auth("oauth", t.until)
        /\ since'[c] = now - (t.expiresAt - t.until)
    BY Using DEF UseOAuth
  <1>3. auth'[c].kind = "oauth" /\ auth'[c].until = t.until
    BY <1>2 DEF Auth
  <1> QED  BY <1>1, <1>2, <1>3, Params DEF Fresh

LEMMA OtherwiseKind ==
    ASSUME NEW c \in Callers
    PROVE  /\ Otherwise(c).kind # "oauth"
           /\ Otherwise(c).kind = "kept" => ~static
  BY DEF Otherwise, Auth

LEMMA StepExpiry == TypeOK /\ ExpiryInv /\ [Next]_vars => ExpiryInv'
  <1> SUFFICES ASSUME TypeOK /\ ExpiryInv, [Next]_vars PROVE ExpiryInv'
    OBVIOUS
  <1> USE DEF world, server, others, sent, seen
  <1>a. \A c \in Callers : reply[c] \in Tokens
    BY DEF TypeOK
  <1>b. file.state = "whole" => file.tokens \in Tokens
    BY DEF TypeOK, Absent, Torn
  <1> USE DEF ExpiryInv
  <1>1. CASE Tick
    BY <1>1 DEF Tick
  <1>2. CASE User
    BY <1>2 DEF User, LoginExchanged, LoginAnswered, LoginStored, Logout
  <1>6. ASSUME NEW c \in Callers, ServeRefresh(c) PROVE ExpiryInv'
    <2>1. /\ step'[c] \in {"answered", "failed"}
          /\ \A d \in Callers : d # c => step'[d] = step[d] /\ reply'[d] = reply[d]
          /\ UNCHANGED <<world, client, auth, since, now>>
      BY <1>6 DEF ServeRefresh, TypeOK
    <2> QED  BY <2>1
  <1>7. ASSUME NEW c \in Callers, Static(c) PROVE ExpiryInv'
    <2>1. /\ step[c] = "idle" /\ client[c].made /\ ~client[c].provider
          /\ UNCHANGED <<world, client, reply, now>>
          /\ Use(c, client[c].initial, 0)
      BY <1>7 DEF Static
    <2> QED  BY <2>1, Using
  <1>8. ASSUME NEW c \in Callers, Resolve(c) PROVE ExpiryInv'
    <2>0. UNCHANGED <<world, reply, client, now>>
      BY <1>8 DEF Resolve
    <2>1. CASE Use(c, Otherwise(c), 0)
      BY <2>0, <2>1, Using, OtherwiseKind
    <2>2. CASE file.state = "whole" /\ Fresh(file.tokens) /\ UseOAuth(c, file.tokens)
      <3>1. /\ auth'[c].kind = "oauth"
            /\ \/ auth'[c].until > since'[c] + Buffer
               \/ auth'[c].until >= since'[c] + Lifetime
        BY <1>b, <2>2, UsingOAuth
      <3> QED  BY <2>0, <2>2, <3>1, Using DEF UseOAuth
    <2>3. CASE step' = [step EXCEPT ![c] = "refreshing"] /\ UNCHANGED sent
      BY <2>0, <2>3 DEF TypeOK
    <2> QED  BY <1>8, <2>1, <2>2, <2>3 DEF Resolve
  <1>9. ASSUME NEW c \in Callers, RefreshFails(c) PROVE ExpiryInv'
    <2>1. Use(c, Otherwise(c), 0) /\ UNCHANGED <<world, client, reply, now>>
      BY <1>9 DEF RefreshFails
    <2> QED  BY <2>1, Using, OtherwiseKind
  <1>10. ASSUME NEW c \in Callers, RefreshAnswered(c) PROVE ExpiryInv'
    <2>1. reply'[c].expiresAt = now + Lifetime
      BY <1>10, <1>a, Updating DEF RefreshAnswered, Updated, TypeOK
    <2> QED  BY <1>10, <2>1 DEF RefreshAnswered, TypeOK
  <1>11. ASSUME NEW c \in Callers, Stored(c) PROVE ExpiryInv'
    <2>1. /\ step[c] = "storing" /\ UseOAuth(c, reply[c])
          /\ UNCHANGED <<world, client, now>>
          /\ \A d \in Callers : d # c => reply'[d] = reply[d]
      BY <1>11 DEF Stored, TypeOK
    <2>2. /\ auth'[c].kind = "oauth"
          /\ \/ auth'[c].until > since'[c] + Buffer
             \/ auth'[c].until >= since'[c] + Lifetime
      BY <1>a, <2>1, UsingOAuth
    <2> QED  BY <2>1, <2>2, Using DEF UseOAuth
  <1>12. ASSUME NEW c \in Callers, Create(c) PROVE ExpiryInv'
    BY <1>12 DEF Create, Sent, TypeOK
  <1>13. ASSUME NEW c \in Callers, Accepted(c) PROVE ExpiryInv'
    BY <1>13 DEF Accepted, Sent, TypeOK
  <1>15. ASSUME NEW c \in Callers, Rejected(c) PROVE ExpiryInv'
    BY <1>15 DEF Rejected, Sent, NewClient, TypeOK
  <1>16. ASSUME NEW c \in Callers, Crash(c) PROVE ExpiryInv'
    BY <1>16 DEF Crash, NewClient, TypeOK
  <1>17. CASE UNCHANGED vars
    BY <1>17 DEF vars
  <1>14. ASSUME NEW c \in Callers, AttemptFails(c) PROVE ExpiryInv'
    <2>1. UNCHANGED <<world, reply, now>>
      BY <1>14 DEF AttemptFails
    <2>2. CASE UNCHANGED <<step, auth, since, client>>
      BY <2>1, <2>2
    <2>3. CASE Sent(c) /\ client' \in {client, [client EXCEPT ![c] = NewClient]}
      <3>1. step'[c] = "idle" /\ client'[c] \in {client[c], NewClient}
        BY <2>3 DEF Sent, TypeOK
      <3>2. \A d \in Callers : d # c => /\ step'[d] = step[d] /\ auth'[d] = auth[d]
                                       /\ since'[d] = since[d] /\ client'[d] = client[d]
        BY <2>3 DEF Sent, TypeOK
      <3> QED  BY <2>1, <3>1, <3>2 DEF NewClient
    <2> QED  BY <1>14, <2>2, <2>3 DEF AttemptFails
  <1> QED
    BY <1>1, <1>2, <1>6, <1>7, <1>8, <1>9,
       <1>10, <1>11, <1>12, <1>13, <1>14, <1>15, <1>16, <1>17
    DEF Next, Caller

\* A token that the margin still covers is live.
LEMMA WithinMargin ==
    ASSUME TypeOK, ExpiryInv, NEW c \in Callers, step[c] = "sending",
           client[c].provider, auth[c].kind = "oauth"
    PROVE  Live(auth[c]) \/ Overdue(c)
  <1>1. auth[c].until \in Nat /\ since[c] \in Int /\ now \in Nat
    BY Params DEF TypeOK, Auths
  <1> QED  BY <1>1, Params DEF ExpiryInv, Live, Overdue

-----------------------------------------------------------------------------
(* Sessions, and what a step does to them.                                 *)

\* What a served refresh changes: it is answered with the pair that is
\* honoured from then on, or it fails.
LEMMA Served ==
    ASSUME TypeOK, NEW c \in Callers, ServeRefresh(c),
           held[c].session \in 1..MaxSessions
    PROVE  /\ step[c] = "refreshing" /\ step' = [step EXCEPT ![c] = step'[c]]
           /\ step'[c] \in {"answered", "failed"}
           /\ \A s \in 1..MaxSessions :
                s # held[c].session => honoured'[s] = honoured[s]
           /\ \A d \in Callers : d # c => reply'[d] = reply[d]
           /\ step'[c] = "answered" =>
                /\ reply'[c].session = held[c].session
                /\ reply'[c].refresh = honoured'[held[c].session]
                /\ held[c].refresh = honoured[held[c].session]
           /\ \/ honoured' = honoured
              \/ /\ rotates /\ held[c].refresh = honoured[held[c].session]
                 /\ honoured'[held[c].session] = honoured[held[c].session] + 1
           /\ rotates /\ step'[c] = "answered" =>
                honoured'[held[c].session] = honoured[held[c].session] + 1
           /\ calm /\ held[c].refresh = honoured[held[c].session] =>
                step'[c] = "answered"
           /\ UNCHANGED <<world, sessions, file, held, client, sent, login,
                         granted, seen, now>>
  <1>1. \A s, r : Grant(s, r).session = s /\ Grant(s, r).refresh = r
    BY DEF Grant
  <1>2. /\ honoured \in [1..MaxSessions -> Nat]
        /\ step \in [Callers -> Steps] /\ reply \in [Callers -> Tokens]
    BY DEF TypeOK
  <1>3. /\ step[c] = "refreshing" /\ step'[c] \in {"answered", "failed"}
        /\ step' = [step EXCEPT ![c] = step'[c]]
        /\ UNCHANGED <<world, sessions, file, held, client, sent, login,
                      granted, seen, now>>
    BY <1>2 DEF ServeRefresh
  <1>4. CASE held[c].refresh = honoured[held[c].session]
    <2> DEFINE next == IF rotates THEN held[c].refresh + 1 ELSE held[c].refresh
    <2>1. \/ /\ honoured' = [honoured EXCEPT ![held[c].session] = next]
             /\ \/ /\ step'[c] = "answered"
                   /\ reply' = [reply EXCEPT ![c] = Grant(held[c].session, next)]
                \/ step'[c] = "failed" /\ reply' = reply /\ ~calm
          \/ step'[c] = "failed" /\ reply' = reply /\ honoured' = honoured /\ ~calm
      BY <1>2, <1>4 DEF ServeRefresh
    <2>2. CASE honoured' = [honoured EXCEPT ![held[c].session] = next]
      <3>1. /\ honoured'[held[c].session] = next
            /\ \A s \in 1..MaxSessions :
                 s # held[c].session => honoured'[s] = honoured[s]
        BY <2>2, <1>2
      <3>2. \A d \in Callers : d # c => reply'[d] = reply[d]
        BY <2>1, <1>2
      <3>3. step'[c] = "answered" => /\ reply'[c].session = held[c].session
                                    /\ reply'[c].refresh = next
        BY <2>1, <1>1, <1>2
      <3>4. calm => step'[c] = "answered"
        BY <2>1
      <3>5. ~rotates => honoured' = honoured
        BY <1>2, <1>4, <2>2
      <3> HIDE DEF next
      <3>6. rotates => next = honoured[held[c].session] + 1
        BY <1>4 DEF next
      <3> QED  BY <1>3, <1>4, <3>1, <3>2, <3>3, <3>4, <3>5, <3>6
    <2>3. CASE step'[c] = "failed" /\ reply' = reply /\ honoured' = honoured /\ ~calm
      BY <1>3, <2>3
    <2> QED  BY <2>1, <2>2, <2>3
  <1>5. CASE held[c].refresh # honoured[held[c].session]
    <2>1. step'[c] = "failed" /\ reply' = reply /\ honoured' = honoured
      BY <1>2, <1>5 DEF ServeRefresh
    <2> QED  BY <1>3, <1>5, <2>1
  <1> QED  BY <1>4, <1>5

\* What is stored is the answer, but for the time of its end.
LEMMA Unpacked ==
    ASSUME TypeOK, NEW c \in Callers, RefreshAnswered(c)
    PROVE  /\ reply'[c].session = reply[c].session
           /\ reply'[c].refresh = reply[c].refresh
           /\ \A d \in Callers : d # c => reply'[d] = reply[d]
           /\ step[c] = "answered" /\ step'[c] = "storing" /\ file' = Torn
           /\ \A d \in Callers : d # c => step'[d] = step[d]
           /\ UNCHANGED <<world, server, held, client, sent, login, granted,
                         seen, now>>
  <1>1. reply[c] \in Tokens /\ reply'[c] = Updated(c)
    BY DEF RefreshAnswered, TypeOK
  <1>2. reply'[c].session = reply[c].session /\ reply'[c].refresh = reply[c].refresh
    BY <1>1, Updating DEF Updated
  <1> QED  BY <1>2 DEF RefreshAnswered, TypeOK

\* A login opens a session that nobody has used.
LEMMA Exchanged ==
    ASSUME TypeOK, LoginExchanged
    PROVE  /\ login = "none" /\ login' = "exchanged" /\ ~calm
           /\ sessions' = sessions + 1 /\ sessions' \in 1..MaxSessions
           /\ \A s \in 1..sessions : honoured'[s] = honoured[s]
           /\ granted'.session = sessions'
           /\ granted'.refresh = honoured'[sessions']
           /\ UNCHANGED <<world, file, others, seen, now>>
  <1>1. PICK r \in {0, 1} : /\ honoured' = [honoured EXCEPT ![sessions'] = r]
                            /\ granted' = Grant(sessions', r)
    BY DEF LoginExchanged
  <1>2. sessions \in Nat /\ sessions' = sessions + 1 /\ sessions' \in 1..MaxSessions
    BY Params DEF LoginExchanged, TypeOK
  <1>3. /\ \A s \in 1..sessions : honoured'[s] = honoured[s]
        /\ honoured'[sessions'] = r
    BY <1>1, <1>2 DEF TypeOK
  <1>4. granted'.session = sessions' /\ granted'.refresh = r
    BY <1>1 DEF Grant
  <1> QED  BY <1>2, <1>3, <1>4 DEF LoginExchanged

LEMMA StepSession == TypeOK /\ SessionInv /\ [Next]_vars => SessionInv'
  <1> SUFFICES ASSUME TypeOK /\ SessionInv, [Next]_vars PROVE SessionInv'
    OBVIOUS
  <1> USE DEF world, server, others, sent, seen
  <1>n. /\ sessions \in 1..MaxSessions /\ MaxSessions \in Nat
        /\ file.state = "whole" => file.tokens.session \in Nat
        /\ \A c \in Callers : held[c].session \in Nat
    <2>1. /\ sessions \in 1..MaxSessions /\ MaxSessions \in Nat
          /\ \A c \in Callers : held[c] \in Tokens
      BY Params DEF TypeOK
    <2>2. file.state = "whole" => file.tokens \in Tokens
      BY DEF TypeOK, Absent, Torn
    <2> QED  BY <2>1, <2>2 DEF Tokens
  <1> USE <1>n DEF SessionInv, Receiving
  <1>1. CASE Tick
    BY <1>1 DEF Tick, TypeOK
  <1>2. CASE LoginExchanged
    BY <1>2, Exchanged
  <1>3. CASE LoginAnswered
    <2>1. granted'.session = granted.session
      BY <1>3, Updating DEF LoginAnswered, TypeOK
    <2> QED  BY <1>3, <2>1 DEF LoginAnswered, Torn
  <1>4. CASE LoginStored
    BY <1>4 DEF LoginStored, Whole, TypeOK
  <1>5. CASE Logout
    BY <1>5 DEF Logout, Absent, TypeOK
  <1>6. ASSUME NEW c \in Callers, ServeRefresh(c) PROVE SessionInv'
    <2>1. held[c].session \in 1..MaxSessions
      BY <1>6 DEF ServeRefresh
    <2>s. step \in [Callers -> Steps]
      BY DEF TypeOK
    <2>a. step' = [step EXCEPT ![c] = step'[c]]
      BY <1>6, <2>1, Served
    <2>2. \A d \in Callers : d # c => step'[d] = step[d]
      BY <2>s, <2>a
    <2>3. /\ step[c] = "refreshing" /\ step'[c] \in {"answered", "failed"}
          /\ UNCHANGED <<sessions, file, held, login, granted>>
          /\ \A d \in Callers : d # c => reply'[d] = reply[d]
          /\ step'[c] = "answered" => reply'[c].session = held[c].session
      BY <1>6, <2>1, Served
    <2> QED  BY <2>2, <2>3
  <1>7. ASSUME NEW c \in Callers, Static(c) PROVE SessionInv'
    BY <1>7 DEF Static, Use, TypeOK
  <1>8. ASSUME NEW c \in Callers, Resolve(c) PROVE SessionInv'
    <2>1. /\ file'.state = "whole" => file' = file
          /\ UNCHANGED <<world, server, reply, login, granted>>
          /\ \A d \in Callers : d # c => held'[d] = held[d] /\ step'[d] = step[d]
      BY <1>8 DEF Resolve, Use, UseOAuth, Absent, TypeOK
    <2>2. \/ step'[c] \in {"ready", "sending"}
          \/ /\ step'[c] = "refreshing" /\ file.state = "whole"
             /\ held'[c] = Pair(file.tokens)
      BY <1>8 DEF Resolve, Use, UseOAuth, TypeOK
    <2>3. file.state = "whole" => Pair(file.tokens).session = file.tokens.session
      BY FileTyped, PairTyped
    <2> QED  BY <2>1, <2>2, <2>3
  <1>9. ASSUME NEW c \in Callers, RefreshFails(c) PROVE SessionInv'
    BY <1>9 DEF RefreshFails, Use, Absent, TypeOK
  <1>10. ASSUME NEW c \in Callers, RefreshAnswered(c) PROVE SessionInv'
    BY <1>10, Unpacked DEF Torn
  <1>11. ASSUME NEW c \in Callers, Stored(c) PROVE SessionInv'
    BY <1>11 DEF Stored, Use, UseOAuth, Whole, TypeOK
  <1>12. ASSUME NEW c \in Callers, Create(c) PROVE SessionInv'
    BY <1>12 DEF Create, Sent, TypeOK
  <1>13. ASSUME NEW c \in Callers, Accepted(c) PROVE SessionInv'
    BY <1>13 DEF Accepted, Sent, TypeOK
  <1>14. ASSUME NEW c \in Callers, AttemptFails(c) PROVE SessionInv'
    BY <1>14 DEF AttemptFails, Sent, TypeOK
  <1>15. ASSUME NEW c \in Callers, Rejected(c) PROVE SessionInv'
    <2>1. /\ file' \in {file, Absent} /\ step[c] = "sending" /\ step'[c] = "idle"
          /\ \A d \in Callers : d # c => step'[d] = step[d]
          /\ UNCHANGED <<world, server, held, reply, login, granted>>
      BY <1>15 DEF Rejected, Sent, HandleAuthFailure, TypeOK
    <2>2. file'.state = "whole" => file' = file
      BY <2>1 DEF Absent
    <2> QED  BY <2>1, <2>2
  <1>16. ASSUME NEW c \in Callers, Crash(c) PROVE SessionInv'
    BY <1>16 DEF Crash, TypeOK
  <1>17. CASE UNCHANGED vars
    BY <1>17 DEF vars
  <1> QED
    BY <1>1, <1>2, <1>3, <1>4, <1>5, <1>6, <1>7, <1>8, <1>9,
       <1>10, <1>11, <1>12, <1>13, <1>14, <1>15, <1>16, <1>17
    DEF Next, User, Caller

-----------------------------------------------------------------------------
(* What the provider honours, and who has it.                              *)

\* The pairs on file and under way are of sessions the provider knows.
LEMMA Ranges ==
    ASSUME TypeOK, SessionInv
    PROVE  /\ sessions \in 1..MaxSessions /\ MaxSessions \in Nat
           /\ \A s \in 1..MaxSessions : honoured[s] \in Nat
           /\ file.state = "whole" =>
                file.tokens.session \in 1..MaxSessions /\ file.tokens.refresh \in Nat
           /\ \A c \in Callers :
                /\ held[c].session \in Nat /\ held[c].refresh \in Nat
                /\ reply[c].session \in Nat /\ reply[c].refresh \in Nat
                /\ step[c] = "refreshing" \/ Receiving(c) =>
                     held[c].session \in 1..MaxSessions
  <1>1. \A c \in Callers : held[c] \in Tokens /\ reply[c] \in Tokens
    BY DEF TypeOK
  <1>2. file.state = "whole" => file.tokens \in Tokens
    BY DEF TypeOK, Absent, Torn
  <1>3. /\ sessions \in 1..MaxSessions /\ MaxSessions \in Nat
        /\ \A s \in 1..MaxSessions : honoured[s] \in Nat
    BY Params DEF TypeOK
  <1> QED  BY <1>1, <1>2, <1>3 DEF Tokens, SessionInv, Receiving

LEMMA StepHonoured ==
    TypeOK /\ SessionInv /\ HonouredInv /\ RotationInv /\ [Next]_vars
      => HonouredInv'
  <1> SUFFICES ASSUME TypeOK /\ SessionInv /\ HonouredInv /\ RotationInv,
                      [Next]_vars
               PROVE  HonouredInv'
    OBVIOUS
  <1> USE DEF world, server, others, sent, seen
  <1> USE Ranges DEF SessionInv, HonouredInv, Receiving
  <1>1. CASE Tick
    BY <1>1 DEF Tick, TypeOK
  <1>2. CASE LoginExchanged
    BY <1>2, Exchanged
  <1>3. CASE LoginAnswered
    <2>1. granted'.refresh = granted.refresh
      BY <1>3, Updating DEF LoginAnswered, TypeOK
    <2> QED  BY <1>3, <2>1 DEF LoginAnswered, Torn
  <1>4. CASE LoginStored
    BY <1>4 DEF LoginStored, Whole, TypeOK
  <1>5. CASE Logout
    BY <1>5 DEF Logout, Absent, TypeOK
  <1>6. ASSUME NEW c \in Callers, ServeRefresh(c) PROVE HonouredInv'
    <2>1. held[c].session \in 1..MaxSessions /\ step[c] = "refreshing"
      BY <1>6 DEF ServeRefresh
    <2>s. step \in [Callers -> Steps]
      BY DEF TypeOK
    <2>a. step' = [step EXCEPT ![c] = step'[c]]
      BY <1>6, <2>1, Served
    <2>2. \A d \in Callers : d # c => step'[d] = step[d]
      BY <2>s, <2>a
    <2>3. \A d \in Callers : d # c /\ Receiving(d) =>
            honoured'[reply[d].session] = honoured[reply[d].session]
      BY <1>6, <2>1, Served DEF RotationInv
    <2>4. honoured'[held[c].session] >= honoured[held[c].session]
      BY <1>6, <2>1, Served
    <2>5. \A s \in 1..MaxSessions : honoured'[s] >= honoured[s]
      BY <1>6, <2>1, <2>4, Served
    <2>6. login # "none" => honoured'[sessions] = honoured[sessions]
      BY <1>6, <2>1, Served
    <2>7. honoured' \in [1..MaxSessions -> Nat]
      BY <1>6, StepTyped DEF Next, TypeOK
    <2>8. /\ UNCHANGED <<file, held, login, granted, sessions>>
          /\ \A d \in Callers : d # c => reply'[d] = reply[d]
          /\ step'[c] \in {"answered", "failed"}
          /\ step'[c] = "answered" =>
               honoured'[reply'[c].session] = reply'[c].refresh
      BY <1>6, <2>1, Served
    <2>9. file.state = "whole" =>
            file.tokens.refresh <= honoured'[file.tokens.session]
      BY <2>5, <2>7
    <2>10. \A d \in Callers :
             /\ step'[d] = "refreshing" =>
                  held[d].refresh <= honoured'[held[d].session]
             /\ Receiving(d)' => honoured'[reply'[d].session] = reply'[d].refresh
      <3>1. ASSUME NEW d \in Callers, d # c
            PROVE  /\ step'[d] = "refreshing" =>
                        held[d].refresh <= honoured'[held[d].session]
                   /\ Receiving(d)' => honoured'[reply'[d].session] = reply'[d].refresh
        <4>1. step'[d] = "refreshing" =>
                /\ held[d].session \in 1..MaxSessions
                /\ held[d].refresh <= honoured[held[d].session]
          BY <2>2, <3>1
        <4>2. step'[d] = "refreshing" => held[d].refresh <= honoured'[held[d].session]
          BY <2>5, <2>7, <4>1
        <4>3. Receiving(d)' => honoured'[reply[d].session] = reply[d].refresh
          BY <2>2, <2>3, <3>1
        <4> QED  BY <2>8, <3>1, <4>2, <4>3
      <3>2. /\ step'[c] # "refreshing"
            /\ Receiving(c)' => honoured'[reply'[c].session] = reply'[c].refresh
        BY <2>8
      <3> QED  BY <3>1, <3>2
    <2> QED  BY <2>6, <2>8, <2>9, <2>10
  <1>7. ASSUME NEW c \in Callers, Static(c) PROVE HonouredInv'
    BY <1>7 DEF Static, Use, TypeOK
  <1>8. ASSUME NEW c \in Callers, Resolve(c) PROVE HonouredInv'
    <2>1. CASE /\ held' = [held EXCEPT ![c] = Pair(file.tokens)]
               /\ step' = [step EXCEPT ![c] = "refreshing"]
               /\ file.state = "whole" /\ file' = file
      <3>1. /\ \A d \in Callers : d # c => held'[d] = held[d] /\ step'[d] = step[d]
            /\ step[c] = "idle" /\ step'[c] = "refreshing"
            /\ held'[c] = Pair(file.tokens)
            /\ UNCHANGED <<world, server, file, reply, login, granted>>
        BY <1>8, <2>1 DEF Resolve, TypeOK
      <3>2. /\ held'[c].session = file.tokens.session
            /\ held'[c].refresh = file.tokens.refresh
        BY <2>1, <3>1, FileTyped, PairTyped
      <3> QED  BY <2>1, <3>1, <3>2
    <2>2. CASE /\ step' = [step EXCEPT ![c] = IF client[c].made THEN "sending" ELSE "ready"]
               /\ file' \in {file, Absent} /\ held' = held
      <3>1. /\ step[c] = "idle" /\ step'[c] \in {"ready", "sending"}
            /\ \A d \in Callers : d # c => step'[d] = step[d]
            /\ file'.state = "whole" => file' = file
            /\ UNCHANGED <<world, server, held, reply, login, granted>>
        BY <1>8, <2>2 DEF Resolve, TypeOK, Absent
      <3> QED  BY <3>1
    <2> QED  BY <1>8, <2>1, <2>2 DEF Resolve, Use, UseOAuth
  <1>9. ASSUME NEW c \in Callers, RefreshFails(c) PROVE HonouredInv'
    BY <1>9 DEF RefreshFails, Use, Absent, TypeOK
  <1>10. ASSUME NEW c \in Callers, RefreshAnswered(c) PROVE HonouredInv'
    BY <1>10, Unpacked DEF Torn
  <1>11. ASSUME NEW c \in Callers, Stored(c) PROVE HonouredInv'
    BY <1>11 DEF Stored, Use, UseOAuth, Whole, TypeOK
  <1>12. ASSUME NEW c \in Callers, Create(c) PROVE HonouredInv'
    BY <1>12 DEF Create, Sent, TypeOK
  <1>13. ASSUME NEW c \in Callers, Accepted(c) PROVE HonouredInv'
    BY <1>13 DEF Accepted, Sent, TypeOK
  <1>14. ASSUME NEW c \in Callers, AttemptFails(c) PROVE HonouredInv'
    BY <1>14 DEF AttemptFails, Sent, TypeOK
  <1>15. ASSUME NEW c \in Callers, Rejected(c) PROVE HonouredInv'
    <2>1. /\ file' \in {file, Absent} /\ step[c] = "sending" /\ step'[c] = "idle"
          /\ \A d \in Callers : d # c => step'[d] = step[d]
          /\ UNCHANGED <<world, server, held, reply, login, granted>>
      BY <1>15 DEF Rejected, Sent, HandleAuthFailure, TypeOK
    <2>2. file'.state = "whole" => file' = file
      BY <2>1 DEF Absent
    <2> QED  BY <2>1, <2>2
  <1>16. ASSUME NEW c \in Callers, Crash(c) PROVE HonouredInv'
    BY <1>16 DEF Crash, TypeOK
  <1>17. CASE UNCHANGED vars
    BY <1>17 DEF vars
  <1> QED
    BY <1>1, <1>2, <1>3, <1>4, <1>5, <1>6, <1>7, <1>8, <1>9,
       <1>10, <1>11, <1>12, <1>13, <1>14, <1>15, <1>16, <1>17
    DEF Next, User, Caller

LEMMA StepRotation ==
    TypeOK /\ SessionInv /\ HonouredInv /\ RotationInv /\ [Next]_vars
      => RotationInv'
  <1> SUFFICES ASSUME TypeOK /\ SessionInv /\ HonouredInv /\ RotationInv,
                      [Next]_vars
               PROVE  RotationInv'
    OBVIOUS
  <1> USE DEF world, server, others, sent, seen
  <1> USE Ranges DEF RotationInv, Receiving
  <1>1. CASE Tick
    BY <1>1 DEF Tick, TypeOK
  <1>2. CASE LoginExchanged
    BY <1>2, Exchanged
  <1>3. CASE LoginAnswered
    BY <1>3 DEF LoginAnswered, Torn, TypeOK
  <1>4. CASE LoginStored
    BY <1>4 DEF LoginStored, Whole, SessionInv
  <1>5. CASE Logout
    BY <1>5 DEF Logout, Absent, TypeOK
  <1>6. ASSUME NEW c \in Callers, ServeRefresh(c) PROVE RotationInv'
    <2>1. held[c].session \in 1..MaxSessions /\ step[c] = "refreshing"
      BY <1>6 DEF ServeRefresh
    <2>s. step \in [Callers -> Steps]
      BY DEF TypeOK
    <2>a. step' = [step EXCEPT ![c] = step'[c]]
      BY <1>6, <2>1, Served
    <2>2. \A d \in Callers : d # c => step'[d] = step[d]
      BY <2>s, <2>a
    <2>3. rotates /\ step'[c] = "answered" =>
            /\ reply'[c].refresh = honoured[held[c].session] + 1
            /\ \A d \in Callers : step[d] = "refreshing"
                                  /\ held[d].session = held[c].session =>
                 held[d].refresh <= honoured[held[c].session]
            /\ \A d \in Callers : Receiving(d) => held[d].session # held[c].session
            /\ file.state = "whole" /\ file.tokens.session = held[c].session =>
                 file.tokens.refresh <= honoured[held[c].session]
      <3>1. ASSUME rotates, step'[c] = "answered", NEW d \in Callers,
                   Receiving(d), held[d].session = held[c].session
            PROVE  FALSE
        <4>1. held[c].refresh < reply[d].refresh
          BY <2>1, <3>1
        <4>2. honoured[reply[d].session] = reply[d].refresh
          BY <3>1 DEF HonouredInv
        <4>3. reply[d].session = held[d].session
          BY <3>1 DEF SessionInv
        <4>4. held[c].refresh = honoured[held[c].session]
          BY <1>6, <2>1, <3>1, Served
        <4> QED  BY <3>1, <4>1, <4>2, <4>3, <4>4
      <3>2. rotates /\ step'[c] = "answered" =>
              reply'[c].refresh = honoured[held[c].session] + 1
        BY <1>6, <2>1, Served
      <3> QED  BY <3>1, <3>2 DEF HonouredInv
    <2>4. /\ UNCHANGED <<rotates, file, held>> /\ step'[c] \in {"answered", "failed"}
          /\ \A d \in Callers : d # c => reply'[d] = reply[d]
      BY <1>6, <2>1, Served
    <2> QED  BY <2>1, <2>2, <2>3, <2>4
  <1>7. ASSUME NEW c \in Callers, Static(c) PROVE RotationInv'
    BY <1>7 DEF Static, Use, TypeOK
  <1>8. ASSUME NEW c \in Callers, Resolve(c) PROVE RotationInv'
    <2>1. CASE /\ held' = [held EXCEPT ![c] = Pair(file.tokens)]
               /\ step' = [step EXCEPT ![c] = "refreshing"]
               /\ file.state = "whole" /\ file' = file
      <3>1. /\ \A d \in Callers : d # c => held'[d] = held[d] /\ step'[d] = step[d]
            /\ step[c] = "idle" /\ step'[c] = "refreshing"
            /\ held'[c] = Pair(file.tokens)
            /\ UNCHANGED <<world, server, file, reply, login, granted>>
        BY <1>8, <2>1 DEF Resolve, TypeOK
      <3>2. /\ held'[c].session = file.tokens.session
            /\ held'[c].refresh = file.tokens.refresh
        BY <2>1, <3>1, FileTyped, PairTyped
      <3> QED  BY <2>1, <3>1, <3>2
    <2>2. CASE /\ step' = [step EXCEPT ![c] = IF client[c].made THEN "sending" ELSE "ready"]
               /\ file' \in {file, Absent} /\ held' = held
      <3>1. /\ step[c] = "idle" /\ step'[c] \in {"ready", "sending"}
            /\ \A d \in Callers : d # c => step'[d] = step[d]
            /\ file'.state = "whole" => file' = file
            /\ UNCHANGED <<world, server, held, reply, login, granted>>
        BY <1>8, <2>2 DEF Resolve, TypeOK, Absent
      <3> QED  BY <3>1
    <2> QED  BY <1>8, <2>1, <2>2 DEF Resolve, Use, UseOAuth
  <1>9. ASSUME NEW c \in Callers, RefreshFails(c) PROVE RotationInv'
    BY <1>9 DEF RefreshFails, Use, Absent, TypeOK
  <1>10. ASSUME NEW c \in Callers, RefreshAnswered(c) PROVE RotationInv'
    <2>1. \A d \in Callers : Receiving(d)' = Receiving(d)
      BY <1>10, Unpacked
    <2>2. /\ file'.state # "whole" /\ UNCHANGED <<rotates, held>>
          /\ \A d \in Callers : reply'[d].refresh = reply[d].refresh
          /\ \A d \in Callers : step'[d] = "refreshing" => step[d] = "refreshing"
      BY <1>10, Unpacked DEF Torn
    <2> HIDE DEF Receiving
    <2> QED  BY <2>1, <2>2
  <1>11. ASSUME NEW c \in Callers, Stored(c) PROVE RotationInv'
    <2>1. /\ step[c] = "storing" /\ step'[c] \in {"ready", "sending"}
          /\ file'.tokens = reply[c] /\ rotates' = rotates
          /\ \A d \in Callers : d # c => /\ step'[d] = step[d]
                                        /\ held'[d] = held[d]
                                        /\ reply'[d] = reply[d]
      BY <1>11 DEF Stored, Use, UseOAuth, Whole, TypeOK
    <2>2. reply[c].session = held[c].session
      BY <2>1 DEF SessionInv
    <2>3. \A d \in Callers : Receiving(d)' => d # c /\ Receiving(d)
      BY <2>1
    <2>4. \A d \in Callers : step'[d] = "refreshing" => d # c /\ step[d] = "refreshing"
      BY <2>1
    <2>5. rotates => \A d \in Callers :
            Receiving(d) /\ d # c => held[d].session # held[c].session
      BY <2>1
    <2>6. file'.tokens.session = held[c].session
      BY <2>1, <2>2
    <2>7. ASSUME rotates, NEW d \in Callers, Receiving(d)'
          PROVE  /\ d # c /\ Receiving(d) /\ held'[d] = held[d] /\ reply'[d] = reply[d]
                 /\ held[d].session # held[c].session
      BY <2>1, <2>3, <2>5, <2>7
    <2>8. \A d \in Callers : step'[d] = "refreshing" => held'[d] = held[d]
      BY <2>1, <2>4
    <2> HIDE DEF Receiving
    <2>9. ASSUME rotates', NEW d \in Callers, Receiving(d)'
          PROVE  /\ \A e \in Callers :
                      /\ Receiving(e)' /\ held'[e].session = held'[d].session => e = d
                      /\ step'[e] = "refreshing" /\ held'[e].session = held'[d].session
                           => held'[e].refresh < reply'[d].refresh
                 /\ file'.tokens.session # held'[d].session
      BY <2>1, <2>4, <2>6, <2>7, <2>8, <2>9
    <2> QED  BY <2>9
  <1>12. ASSUME NEW c \in Callers, Create(c) PROVE RotationInv'
    BY <1>12 DEF Create, Sent, TypeOK
  <1>13. ASSUME NEW c \in Callers, Accepted(c) PROVE RotationInv'
    BY <1>13 DEF Accepted, Sent, TypeOK
  <1>14. ASSUME NEW c \in Callers, AttemptFails(c) PROVE RotationInv'
    <2>1. UNCHANGED <<world, server, file, held, reply>>
      BY <1>14 DEF AttemptFails
    <2>2. step[c] = "sending" /\ step'[c] \in {"sending", "idle"}
      BY <1>14 DEF AttemptFails, Sent, TypeOK
    <2>3. \A d \in Callers : d # c => step'[d] = step[d]
      BY <1>14 DEF AttemptFails, Sent, TypeOK
    <2> QED  BY <2>1, <2>2, <2>3
  <1>15. ASSUME NEW c \in Callers, Rejected(c) PROVE RotationInv'
    <2>1. /\ file' \in {file, Absent} /\ step[c] = "sending" /\ step'[c] = "idle"
          /\ \A d \in Callers : d # c => step'[d] = step[d]
          /\ UNCHANGED <<world, server, held, reply, login, granted>>
      BY <1>15 DEF Rejected, Sent, HandleAuthFailure, TypeOK
    <2>2. file'.state = "whole" => file' = file
      BY <2>1 DEF Absent
    <2> QED  BY <2>1, <2>2
  <1>16. ASSUME NEW c \in Callers, Crash(c) PROVE RotationInv'
    BY <1>16 DEF Crash, TypeOK
  <1>17. CASE UNCHANGED vars
    BY <1>17 DEF vars
  <1> QED
    BY <1>1, <1>2, <1>3, <1>4, <1>5, <1>6, <1>7, <1>8, <1>9,
       <1>10, <1>11, <1>12, <1>13, <1>14, <1>15, <1>16, <1>17
    DEF Next, User, Caller

LEMMA StepUsable ==
    TypeOK /\ SessionInv /\ HonouredInv /\ RotationInv /\ StoredPairIsUsable /\ [Next]_vars
      => StoredPairIsUsable'
  <1> SUFFICES ASSUME TypeOK /\ SessionInv /\ HonouredInv /\ RotationInv /\ StoredPairIsUsable,
                      [Next]_vars
               PROVE  StoredPairIsUsable'
    OBVIOUS
  <1> USE DEF world, server, others, sent, seen
  <1> USE Ranges DEF StoredPairIsUsable
  <1>1. CASE Tick
    BY <1>1 DEF Tick, TypeOK
  <1>2. CASE LoginExchanged
    <2>1. file.state = "whole" => file.tokens.session \in 1..sessions
      BY DEF SessionInv
    <2> QED  BY <1>2, <2>1, Exchanged
  <1>3. CASE LoginAnswered
    BY <1>3 DEF LoginAnswered, Torn, TypeOK
  <1>4. CASE LoginStored
    BY <1>4 DEF LoginStored, Whole, SessionInv, HonouredInv
  <1>5. CASE Logout
    BY <1>5 DEF Logout, Absent, TypeOK
  <1>6. ASSUME NEW c \in Callers, ServeRefresh(c) PROVE StoredPairIsUsable'
    <2>1. held[c].session \in 1..MaxSessions /\ step[c] = "refreshing"
      BY <1>6 DEF ServeRefresh
    <2>s. step \in [Callers -> Steps]
      BY DEF TypeOK
    <2>a. step' = [step EXCEPT ![c] = step'[c]]
      BY <1>6, <2>1, Served
    <2>2. \A d \in Callers : d # c => step'[d] = step[d]
      BY <2>s, <2>a
    <2>3. /\ UNCHANGED <<file, held>> /\ step'[c] \in {"answered", "failed"}
          /\ \A s \in 1..MaxSessions : s # held[c].session => honoured'[s] = honoured[s]
      BY <1>6, <2>1, Served
    <2> QED  BY <2>1, <2>2, <2>3
  <1>7. ASSUME NEW c \in Callers, Static(c) PROVE StoredPairIsUsable'
    BY <1>7 DEF Static, Use, TypeOK
  <1>8. ASSUME NEW c \in Callers, Resolve(c) PROVE StoredPairIsUsable'
    <2>1. CASE /\ held' = [held EXCEPT ![c] = Pair(file.tokens)]
               /\ step' = [step EXCEPT ![c] = "refreshing"]
               /\ file.state = "whole" /\ file' = file
      <3>1. /\ \A d \in Callers : d # c => held'[d] = held[d] /\ step'[d] = step[d]
            /\ step[c] = "idle" /\ step'[c] = "refreshing"
            /\ held'[c] = Pair(file.tokens)
            /\ UNCHANGED <<world, server, file, reply, login, granted>>
        BY <1>8, <2>1 DEF Resolve, TypeOK
      <3>2. /\ held'[c].session = file.tokens.session
            /\ held'[c].refresh = file.tokens.refresh
        BY <2>1, <3>1, FileTyped, PairTyped
      <3> QED  BY <2>1, <3>1, <3>2
    <2>2. CASE /\ step' = [step EXCEPT ![c] = IF client[c].made THEN "sending" ELSE "ready"]
               /\ file' \in {file, Absent} /\ held' = held
      <3>1. /\ step[c] = "idle" /\ step'[c] \in {"ready", "sending"}
            /\ \A d \in Callers : d # c => step'[d] = step[d]
            /\ file'.state = "whole" => file' = file
            /\ UNCHANGED <<world, server, held, reply, login, granted>>
        BY <1>8, <2>2 DEF Resolve, TypeOK, Absent
      <3> QED  BY <3>1
    <2> QED  BY <1>8, <2>1, <2>2 DEF Resolve, Use, UseOAuth
  <1>9. ASSUME NEW c \in Callers, RefreshFails(c) PROVE StoredPairIsUsable'
    BY <1>9 DEF RefreshFails, Use, Absent, TypeOK
  <1>10. ASSUME NEW c \in Callers, RefreshAnswered(c) PROVE StoredPairIsUsable'
    BY <1>10, Unpacked DEF Torn
  <1>11. ASSUME NEW c \in Callers, Stored(c) PROVE StoredPairIsUsable'
    BY <1>11 DEF Stored, Use, UseOAuth, Whole, TypeOK, SessionInv, HonouredInv, Receiving
  <1>12. ASSUME NEW c \in Callers, Create(c) PROVE StoredPairIsUsable'
    BY <1>12 DEF Create, Sent, TypeOK
  <1>13. ASSUME NEW c \in Callers, Accepted(c) PROVE StoredPairIsUsable'
    BY <1>13 DEF Accepted, Sent, TypeOK
  <1>14. ASSUME NEW c \in Callers, AttemptFails(c) PROVE StoredPairIsUsable'
    BY <1>14 DEF AttemptFails, Sent, TypeOK
  <1>15. ASSUME NEW c \in Callers, Rejected(c) PROVE StoredPairIsUsable'
    <2>1. /\ file' \in {file, Absent} /\ UNCHANGED <<server, held>>
          /\ \A d \in Callers : d # c => step'[d] = step[d]
          /\ step[c] = "sending"
      BY <1>15 DEF Rejected, Sent, HandleAuthFailure, TypeOK
    <2>2. file'.state = "whole" => file' = file
      BY <2>1 DEF Absent
    <2> QED  BY <2>1, <2>2
  <1>16. ASSUME NEW c \in Callers, Crash(c) PROVE StoredPairIsUsable'
    BY <1>16 DEF Crash, TypeOK
  <1>17. CASE UNCHANGED vars
    BY <1>17 DEF vars
  <1> QED
    BY <1>1, <1>2, <1>3, <1>4, <1>5, <1>6, <1>7, <1>8, <1>9,
       <1>10, <1>11, <1>12, <1>13, <1>14, <1>15, <1>16, <1>17
    DEF Next, User, Caller

-----------------------------------------------------------------------------
(* Calm behaviours, and the theorems.                                      *)

LEMMA StepCalm ==
    TypeOK /\ ExpiryInv /\ SessionInv /\ CalmInv /\ [Next]_vars
      => CalmInv'
  <1> SUFFICES ASSUME TypeOK /\ ExpiryInv /\ SessionInv /\ CalmInv,
                      [Next]_vars
               PROVE  CalmInv'
    OBVIOUS
  <1> USE DEF world, server, others, sent, seen
  <1> SUFFICES ASSUME calm', ~tornRead', ~overdue'
               PROVE  CalmInv'
    BY DEF CalmInv
  <1>0. calm /\ ~tornRead /\ ~overdue
    <2>1. calm' = calm
      BY DEF Next, User, Caller, Tick, LoginExchanged, LoginAnswered,
         LoginStored, Logout, ServeRefresh, Static, Resolve, RefreshFails,
         RefreshAnswered, Stored, Create, Accepted, AttemptFails,
         Rejected, Crash, vars
    <2>2. (tornRead => tornRead') /\ (overdue => overdue')
      <3>1. tornRead' # tornRead => \E c \in Callers : Resolve(c) \/ Create(c)
        BY DEF Next, User, Caller, Tick, LoginExchanged, LoginAnswered,
           LoginStored, Logout, ServeRefresh, Static, RefreshFails,
           RefreshAnswered, Stored, Accepted, AttemptFails, Rejected, Crash, vars
      <3>2. overdue' # overdue => \E c \in Callers : Rejected(c)
        BY DEF Next, User, Caller, Tick, LoginExchanged, LoginAnswered,
           LoginStored, Logout, ServeRefresh, Static, Resolve, RefreshFails,
           RefreshAnswered, Stored, Create, Accepted, AttemptFails, Crash, vars
      <3>3. ASSUME NEW c \in Callers, Resolve(c) \/ Create(c), tornRead PROVE tornRead'
        BY <3>3 DEF Resolve, Create
      <3>4. ASSUME NEW c \in Callers, Rejected(c), overdue PROVE overdue'
        BY <3>4 DEF Rejected
      <3> QED  BY <3>1, <3>2, <3>3, <3>4 DEF TypeOK
    <2> QED  BY <2>1, <2>2
  <1>i. /\ ~rotates /\ login = "none" /\ honoured[1] = 1
        /\ file.state # "absent"
        /\ file.state = "whole" => file.tokens.session = 1 /\ file.tokens.refresh = 1
        /\ \A c \in Callers :
             /\ step[c] \notin {"failed", "gone"}
             /\ step[c] = "refreshing" => held[c].session = 1 /\ held[c].refresh = 1
             /\ Receiving(c) => held[c].session = 1 /\ reply[c].refresh = 1
             /\ step[c] \in {"ready", "sending"} => auth[c].kind = "oauth"
             /\ client[c].made => client[c].provider
    BY <1>0 DEF CalmInv
  <1>f. file \in {Torn} \cup [state : {"whole"}, tokens : Tokens]
    BY <1>i DEF TypeOK, Absent
  <1> USE <1>0, <1>i, <1>f DEF Receiving
  <1>1. CASE Tick
    BY <1>1 DEF Tick, TypeOK, CalmInv
  <1>2. CASE LoginExchanged
    BY <1>2 DEF LoginExchanged
  <1>3. CASE LoginAnswered
    BY <1>3 DEF LoginAnswered
  <1>4. CASE LoginStored
    BY <1>4 DEF LoginStored
  <1>5. CASE Logout
    BY <1>5 DEF Logout
  <1>6. ASSUME NEW c \in Callers, ServeRefresh(c) PROVE CalmInv'
    <2>1. held[c].session = 1 /\ held[c].refresh = 1 /\ step[c] = "refreshing"
      BY <1>6 DEF ServeRefresh
    <2>2. 1 \in 1..MaxSessions
      BY Params
    <2>s. step \in [Callers -> Steps]
      BY DEF TypeOK
    <2>a. step' = [step EXCEPT ![c] = step'[c]]
      BY <1>6, <2>1, <2>2, Served
    <2>3. \A d \in Callers : d # c => step'[d] = step[d]
      BY <2>s, <2>a
    <2>4. step'[c] = "answered" /\ honoured' = honoured /\ reply'[c].refresh = 1
      BY <1>6, <2>1, <2>2, Served
    <2> QED  BY <1>6, <2>1, <2>2, <2>3, <2>4, Served DEF CalmInv
  <1>7. ASSUME NEW c \in Callers, Static(c) PROVE CalmInv'
    BY <1>7 DEF Static, Use, TypeOK, CalmInv
  <1>8. ASSUME NEW c \in Callers, Resolve(c) PROVE CalmInv'
    <2>1. ~tornRead' => file.state = "whole"
      BY <1>8 DEF Resolve, Torn
    <2>2. CASE UseOAuth(c, file.tokens) /\ UNCHANGED <<file, held>>
      BY <1>8, <2>2 DEF Resolve, Use, UseOAuth, Auth, TypeOK, CalmInv
    <2>3. CASE /\ held' = [held EXCEPT ![c] = Pair(file.tokens)]
               /\ step' = [step EXCEPT ![c] = "refreshing"]
               /\ UNCHANGED <<file, sent>>
      <3>1. /\ held'[c].session = 1 /\ held'[c].refresh = 1
            /\ \A d \in Callers : d # c => held'[d] = held[d] /\ step'[d] = step[d]
            /\ step'[c] = "refreshing"
            /\ UNCHANGED <<world, server, reply, client, login, granted>>
        <4>1. file.state = "whole" /\ held'[c] = Pair(file.tokens)
          BY <2>1, <2>3 DEF TypeOK
        <4>2. held'[c].session = 1 /\ held'[c].refresh = 1
          BY <4>1, FileTyped, PairTyped
        <4> QED  BY <1>8, <2>3, <4>2 DEF Resolve, TypeOK
      <3> QED  BY <2>3, <3>1 DEF CalmInv
    <2> QED  BY <1>8, <2>1, <2>2, <2>3 DEF Resolve
  <1>9. ASSUME NEW c \in Callers, RefreshFails(c) PROVE CalmInv'
    BY <1>9 DEF RefreshFails
  <1>10. ASSUME NEW c \in Callers, RefreshAnswered(c) PROVE CalmInv'
    <2>1. Torn.state = "torn"
      BY DEF Torn
    <2> QED  BY <1>10, <2>1, Unpacked DEF CalmInv
  <1>11. ASSUME NEW c \in Callers, Stored(c) PROVE CalmInv'
    <2>1. reply[c].session = 1
      BY <1>11 DEF Stored, SessionInv
    <2>2. file' = [state |-> "whole", tokens |-> reply[c]] /\ auth'[c].kind = "oauth"
      BY <1>11 DEF Stored, Use, UseOAuth, Whole, Auth, TypeOK
    <2> QED  BY <1>11, <2>1, <2>2 DEF Stored, Use, UseOAuth, TypeOK, CalmInv
  <1>12. ASSUME NEW c \in Callers, Create(c) PROVE CalmInv'
    <2>1. file.state = "whole"
      BY <1>12 DEF Create, Torn
    <2> QED  BY <1>12, <2>1 DEF Create, Sent, TypeOK, CalmInv
  <1>13. ASSUME NEW c \in Callers, Accepted(c) PROVE CalmInv'
    BY <1>13 DEF Accepted, Sent, TypeOK, CalmInv
  <1>14. ASSUME NEW c \in Callers, AttemptFails(c) PROVE CalmInv'
    <2>1. /\ UNCHANGED <<world, server, file, held, reply, login, granted>>
          /\ \A d \in Callers : /\ client'[d] \in {client[d], NewClient}
                                /\ auth'[d] = auth[d] \/ step'[d] = "idle"
                                /\ step'[d] \in {step[d], "idle"}
      BY <1>14 DEF AttemptFails, Sent, TypeOK
    <2> QED  BY <2>1 DEF CalmInv, NewClient
  <1>15. ASSUME NEW c \in Callers, Rejected(c) PROVE CalmInv'
    <2>1. /\ step[c] = "sending" /\ auth[c].kind = "oauth" /\ client[c].provider
          /\ ~Live(auth[c]) /\ ~Overdue(c)
      BY <1>15 DEF Rejected, ExpiryInv
    <2>2. Live(auth[c]) \/ Overdue(c)
      BY <1>15, <2>1, WithinMargin DEF Rejected
    <2> QED  BY <2>1, <2>2
  <1>16. ASSUME NEW c \in Callers, Crash(c) PROVE CalmInv'
    BY <1>16 DEF Crash
  <1>17. CASE UNCHANGED vars
    BY <1>17 DEF vars, CalmInv
  <1> QED
    BY <1>1, <1>2, <1>3, <1>4, <1>5, <1>6, <1>7, <1>8, <1>9,
       <1>10, <1>11, <1>12, <1>13, <1>14, <1>15, <1>16, <1>17
    DEF Next, User, Caller

LEMMA InitInv == Init => OAuthInv
  <1> SUFFICES ASSUME Init PROVE OAuthInv
    OBVIOUS
  <1>1. TypeOK
    BY InitTyped
  <1>2. \A c \in Callers : step[c] = "idle" /\ client[c] = NewClient
    BY DEF Init
  <1>3. PICK left \in {0, Lifetime}, r \in {0, 1} :
          /\ file \in {Whole([session |-> 1, refresh |-> r, until |-> left,
                             expiresAt |-> left]), Absent}
          /\ calm => r = 1 /\ file # Absent
    BY DEF Init, Whole, Absent
  <1>4. /\ file.state = "whole" =>
             /\ file.tokens.session = 1 /\ file.tokens.refresh = r
             /\ file.tokens.until = left /\ file.tokens.expiresAt = left
        /\ calm => file.state = "whole" /\ r = 1
    BY <1>3 DEF Whole, Absent
  <1>5. 1 \in 1..MaxSessions /\ honoured[1] = 1
    BY Params DEF Init
  <1>6. ExpiryInv
    BY <1>2, <1>4, Params DEF Init, ExpiryInv, NewClient
  <1>7. SessionInv /\ RotationInv
    BY <1>2, <1>4 DEF Init, SessionInv, RotationInv, Receiving
  <1>8. HonouredInv
    BY <1>2, <1>4, <1>5 DEF Init, HonouredInv, Receiving
  <1>9. CalmInv
    BY <1>2, <1>4, <1>5 DEF Init, CalmInv, Receiving, NewClient
  <1>10. StoredPairIsUsable
    BY <1>4, <1>5, <1>3 DEF StoredPairIsUsable
  <1> QED  BY <1>1, <1>6, <1>7, <1>8, <1>9, <1>10 DEF OAuthInv

LEMMA OAuthInvariance == Spec => []OAuthInv
  <1>1. OAuthInv /\ [Next]_vars => OAuthInv'
    BY StepTyped, StepExpiry, StepSession, StepHonoured, StepRotation,
       StepUsable, StepCalm
    DEF OAuthInv
  <1> QED  BY InitInv, <1>1, PTL DEF Spec

\* Every variable keeps its type, whatever the processes, the user and the
\* provider do.
THEOREM TypeCorrect == Spec => []TypeOK
  <1>1. OAuthInv => TypeOK
    BY DEF OAuthInv
  <1> QED  BY <1>1, OAuthInvariance, PTL

\* Whatever the delays, an attempt carries an OAuth token that is live unless
\* the answer of its grant and the attempts so far have used up the margin,
\* for any number of processes, sessions, retries and ticks.
THEOREM SentLive == Spec => []SentTokensAreLive
  <1>1. OAuthInv => SentTokensAreLive
    BY WithinMargin DEF OAuthInv, ExpiryInv, SentTokensAreLive
  <1> QED  BY <1>1, OAuthInvariance, PTL

\* The refresh token on file is honoured, unless a process has been refused
\* or answered with its replacement, or has crashed with that.
THEOREM PairUsable == Spec => []StoredPairIsUsable
  <1>1. OAuthInv => StoredPairIsUsable
    BY DEF OAuthInv
  <1> QED  BY <1>1, OAuthInvariance, PTL

\* Without rotation, failed refreshes, logins and logouts, no number of
\* processes that refresh the pair at once logs anybody out, except by a torn
\* read or by a request that outlasted the margin of its token.
THEOREM StaysLoggedIn == Spec => []NobodyIsLoggedOut
  <1>1. OAuthInv => NobodyIsLoggedOut
    BY DEF OAuthInv, CalmInv, NobodyIsLoggedOut
  <1> QED  BY <1>1, OAuthInvariance, PTL

\* When refresh tokens rotate, two processes are never given pairs of the
\* same session at once: the one that the provider honours is in one hand
\* until it is on file.
THEOREM PairInOneHand ==
    Spec => [](rotates => \A c, d \in Callers :
                 Receiving(c) /\ Receiving(d)
                   /\ reply[c].session = reply[d].session => c = d)
  <1>1. OAuthInv => (rotates => \A c, d \in Callers :
                       Receiving(c) /\ Receiving(d)
                         /\ reply[c].session = reply[d].session => c = d)
    <2> SUFFICES ASSUME OAuthInv, rotates, NEW c \in Callers, NEW d \in Callers,
                        Receiving(c), Receiving(d), reply[c].session = reply[d].session
                 PROVE  c = d
      OBVIOUS
    <2>1. reply[c].session = held[c].session /\ reply[d].session = held[d].session
      BY DEF OAuthInv, SessionInv
    <2> QED  BY <2>1 DEF OAuthInv, RotationInv
  <1> QED  BY <1>1, OAuthInvariance, PTL
=============================================================================
