---------------------------- MODULE OAuthTokens ----------------------------
(***************************************************************************)
(* The OAuth session of the command line: oauth-token-store.ts, oauth-     *)
(* refresh.ts and oauth-login.ts (with oauth-device-login.ts) of packages/ *)
(* client/src/oauth, the tokens of api-token.utils.ts and client.ts, and   *)
(* the logout command and handle-auth-failure.ts of packages/cli/src.      *)
(*                                                                         *)
(* Every process of the user shares one token file, which none of them     *)
(* locks, and refreshes the pair in it against the identity provider,      *)
(* which may or may not rotate refresh tokens.  A caller is one process    *)
(* with one client, created without --apiToken and off a terminal: it      *)
(* resolves its token once at creation and then once before each request,  *)
(* whose retries send it again.  No answer has to come within any time.    *)
(***************************************************************************)
EXTENDS Integers, TLC

CONSTANTS Callers,      \* processes that use the API
          Lifetime,     \* expires_in of an access token
          Buffer,       \* TOKEN_EXPIRY_BUFFER_SECONDS
          DEFAULT_MAX_RETRIES,  \* of one request
          MaxSessions,  \* bound: logins, the one before Init included
          MaxNow        \* bound: the clock

ASSUME ConstantsAssumption ==
  /\ {Lifetime, Buffer, DEFAULT_MAX_RETRIES, MaxNow} \subseteq Nat
  /\ MaxSessions \in Nat \ {0}

VARIABLES
  rotates,    \* provider: a refresh token is honoured once
  static,     \* METICULOUS_API_TOKEN or config.json gives a token
  calm,       \* no refresh fails, no rotation, nobody logs in or out
  honoured,   \* provider: the refresh token honoured in each session
  sessions,   \* provider: how many there were
  file,       \* oauth-tokens.json
  step,       \* where each caller is
  held,       \* the tokens it read
  reply,      \* what the token endpoint answers it, or updatedTokens
  client,     \* buildClient: its token argument
  auth,       \* the token of its request
  since,      \* when that was resolved, less what its grant took to answer
  attempt,    \* retries of the request so far
  login,      \* where the login is
  granted,    \* the tokens it gets
  tornRead,   \* while calm: a process read the file as another wrote it
  overdue,    \* while calm: a request was refused past its token's margin
  now

world  == <<rotates, static, calm>>
server == <<honoured, sessions>>
sent   == <<auth, since, attempt>>
others == <<step, held, reply, client, sent>>
seen   == <<tornRead, overdue>>
vars   == <<world, server, file, others, login, granted, seen, now>>

\* until is the real end of an access token, expiresAt what the file says;
\* refresh 0 stands for no refresh token.
Tokens   == [session : 0..MaxSessions, refresh : Nat, until : Nat,
             expiresAt : Nat]
NoTokens == [session |-> 0, refresh |-> 0, until |-> 0, expiresAt |-> 0]
Whole(t) == [state |-> "whole", tokens |-> t]
Absent   == [state |-> "absent", tokens |-> NoTokens]
\* writeFileSync truncates the file before it writes it.
Torn     == [state |-> "torn", tokens |-> NoTokens]

Auth(kind, until) == [kind |-> kind, until |-> until]
Forever == MaxNow + 1

Auths   == [kind : {"none", "static", "oauth", "kept"}, until : Nat]
Clients == [made : BOOLEAN, provider : BOOLEAN, initial : Auths]

Steps == {"idle", "refreshing", "answered", "failed", "storing", "ready",
          "sending", "gone"}

TypeOK ==
  /\ {rotates, static, calm, tornRead, overdue} \subseteq BOOLEAN
  /\ honoured \in [1..MaxSessions -> Nat] /\ sessions \in 1..MaxSessions
  /\ file \in {Absent, Torn} \cup [state : {"whole"}, tokens : Tokens]
  /\ step \in [Callers -> Steps]
  /\ held \in [Callers -> Tokens] /\ reply \in [Callers -> Tokens]
  /\ client \in [Callers -> Clients] /\ auth \in [Callers -> Auths]
  /\ since \in [Callers -> Int]
  /\ attempt \in [Callers -> 0..DEFAULT_MAX_RETRIES]
  /\ login \in {"none", "exchanged", "storing"} /\ granted \in Tokens
  /\ now \in 0..MaxNow

\* The access token of a grant made now.
Grant(session, refresh) ==
  [session |-> session, refresh |-> refresh, until |-> now + Lifetime,
   expiresAt |-> now + Lifetime]

NewClient == [made |-> FALSE, provider |-> FALSE, initial |-> Auth("none", 0)]

\* A login left a pair, of whatever age, or nobody logged in.
Init ==
  /\ rotates \in BOOLEAN /\ static \in BOOLEAN
  /\ calm \in BOOLEAN /\ (calm => ~rotates)
  /\ now = 0 /\ sessions = 1
  /\ honoured = [s \in 1..MaxSessions |-> IF s = 1 THEN 1 ELSE 0]
  /\ \E left \in {0, Lifetime}, r \in IF calm THEN {1} ELSE {0, 1} :
       file \in {Whole([session |-> 1, refresh |-> r, until |-> left,
                        expiresAt |-> left])}
                  \cup (IF calm THEN {} ELSE {Absent})
  /\ step = [c \in Callers |-> "idle"]
  /\ held = [c \in Callers |-> NoTokens] /\ reply = held
  /\ client = [c \in Callers |-> NewClient]
  /\ auth = [c \in Callers |-> Auth("none", 0)]
  /\ since = [c \in Callers |-> 0] /\ attempt = since
  /\ login = "none" /\ granted = NoTokens
  /\ tornRead = FALSE /\ overdue = FALSE

-----------------------------------------------------------------------------
(* The identity provider.                                                  *)

\* A refresh is served; its answer may be lost, or the request itself, or the
\* session is over.
ServeRefresh(c) ==
  LET s == held[c].session
      r == held[c].refresh IN
  /\ step[c] = "refreshing"
  /\ \/ /\ r = honoured[s]
        /\ LET next == IF rotates THEN r + 1 ELSE r IN
           /\ honoured' = [honoured EXCEPT ![s] = next]
           /\ \/ /\ step' = [step EXCEPT ![c] = "answered"]
                 /\ reply' = [reply EXCEPT ![c] = Grant(s, next)]
              \/ /\ ~calm
                 /\ step' = [step EXCEPT ![c] = "failed"]
                 /\ UNCHANGED reply
     \/ /\ r # honoured[s] \/ ~calm
        /\ step' = [step EXCEPT ![c] = "failed"]
        /\ UNCHANGED <<honoured, reply>>
  /\ UNCHANGED <<world, sessions, file, held, client, sent, login, granted,
                 seen, now>>

\* Writing the file takes no time; a refresh, its answer and a request may
\* take any.
Tick ==
  /\ now < MaxNow
  /\ login # "storing" /\ \A c \in Callers : step[c] # "storing"
  /\ now' = now + 1
  /\ UNCHANGED <<world, server, file, others, login, granted, seen>>

-----------------------------------------------------------------------------
(* getAuthToken and getValidAccessToken.                                   *)

\* A client is made with the token, or its request leaves at once.  The
\* margin of the token runs from t on.
Use(c, a, t) ==
  /\ step' = [step EXCEPT ![c] = IF client[c].made THEN "sending" ELSE "ready"]
  /\ auth' = [auth EXCEPT ![c] = a]
  /\ since' = [since EXCEPT ![c] = t]
  /\ UNCHANGED attempt

UseOAuth(c, t) == Use(c, Auth("oauth", t.until), now - (t.expiresAt - t.until))

\* Mutated form of Otherwise: the token the client was made with goes first.
Otherwise_Stale(c) ==
  IF client[c].made /\ client[c].initial.kind # "none"
  THEN Auth("kept", client[c].initial.until)
  ELSE IF static THEN Auth("static", Forever) ELSE Auth("none", 0)

\* Without a valid access token: the environment or the config file, and
\* then, for a provider, the token the client was made with.
Otherwise(c) ==
  IF static THEN Auth("static", Forever)
  ELSE IF client[c].made /\ client[c].initial.kind # "none"
       THEN Auth("kept", client[c].initial.until) ELSE Auth("none", 0)

\* Mutated form of Fresh: no margin for the time the answer took.
Fresh_Exactly(t) == t.expiresAt > now

Fresh(t) == t.expiresAt > now + Buffer

\* A client without provider goes on with the token it was made with.
Static(c) ==
  /\ step[c] = "idle" /\ client[c].made /\ ~client[c].provider
  /\ Use(c, client[c].initial, 0)
  /\ UNCHANGED <<world, server, file, held, reply, client, login, granted,
                 seen, now>>

\* A refresh needs the refresh token and its session, not the times.
Pair(t) == [t EXCEPT !.until = 0, !.expiresAt = 0]

Resolve(c) ==
  /\ step[c] = "idle" /\ (client[c].made => client[c].provider)
  /\ \/ /\ file.state # "whole" /\ Use(c, Otherwise(c), 0)
        /\ tornRead' = (tornRead \/ (calm /\ file = Torn))
        /\ UNCHANGED <<file, held>>
     \/ /\ file.state = "whole" /\ Fresh(file.tokens)
        /\ UseOAuth(c, file.tokens)
        /\ UNCHANGED <<file, held, tornRead>>
     \/ /\ file.state = "whole" /\ ~Fresh(file.tokens)
        /\ file.tokens.refresh = 0
        /\ file' = Absent /\ Use(c, Otherwise(c), 0)
        /\ UNCHANGED <<held, tornRead>>
     \/ /\ file.state = "whole" /\ ~Fresh(file.tokens)
        /\ file.tokens.refresh # 0
        /\ held' = [held EXCEPT ![c] = Pair(file.tokens)]
        /\ step' = [step EXCEPT ![c] = "refreshing"]
        /\ UNCHANGED <<file, sent, tornRead>>
  /\ UNCHANGED <<world, server, reply, client, login, granted, overdue, now>>

\* A refusal, a network error or an answer that cannot be read.
RefreshFails(c) ==
  /\ step[c] = "failed"
  /\ file' = Absent /\ Use(c, Otherwise(c), 0)
  /\ held' = [held EXCEPT ![c] = NoTokens]
  /\ UNCHANGED <<world, server, reply, client, login, granted, seen, now>>

\* Mutated form of Updated: the refresh token of the answer is not kept.
Updated_OldRefresh(c) ==
  [reply[c] EXCEPT !.refresh = held[c].refresh, !.expiresAt = now + Lifetime]

\* Mutated form of Updated: without tokens.refreshToken as the default.
Updated_NoDefault(c) ==
  [reply[c] EXCEPT !.refresh = IF rotates THEN @ ELSE 0,
                   !.expiresAt = now + Lifetime]

\* updatedTokens: the lifetime counts from the answer, and the refresh token
\* stays when the provider, which does not rotate, leaves it out.
Updated(c) == [reply[c] EXCEPT !.expiresAt = now + Lifetime]

RefreshAnswered(c) ==
  /\ step[c] = "answered"
  /\ step' = [step EXCEPT ![c] = "storing"]
  /\ reply' = [reply EXCEPT ![c] = Updated(c)]
  /\ file' = Torn
  /\ UNCHANGED <<world, server, held, client, sent, login, granted, seen, now>>

Stored(c) ==
  /\ step[c] = "storing"
  /\ file' = Whole(reply[c]) /\ UseOAuth(c, reply[c])
  /\ held' = [held EXCEPT ![c] = NoTokens]
  /\ reply' = [reply EXCEPT ![c] = NoTokens]
  /\ UNCHANGED <<world, server, client, login, granted, seen, now>>

-----------------------------------------------------------------------------
(* createClientWithOAuth and the requests of a client.                     *)

\* resolvedToken goes out of scope.
Sent(c) ==
  /\ step' = [step EXCEPT ![c] = "idle"]
  /\ auth' = [auth EXCEPT ![c] = Auth("none", 0)]
  /\ since' = [since EXCEPT ![c] = 0]
  /\ attempt' = [attempt EXCEPT ![c] = 0]

\* Whether the token came from OAuth is judged by reading the file again.
Create(c) ==
  /\ step[c] = "ready"
  /\ client' = [client EXCEPT ![c] =
       [made |-> TRUE, provider |-> file.state = "whole", initial |-> auth[c]]]
  /\ tornRead' = (tornRead \/ (calm /\ file = Torn))
  /\ Sent(c)
  /\ UNCHANGED <<world, server, file, held, reply, login, granted, overdue, now>>

Live(a) == a.until > now

\* The answer of the grant and the attempts of the request have together
\* taken more than the margin, or as long as a token lives.
Overdue(c) == now - since[c] > Buffer \/ now - since[c] >= Lifetime

Accepted(c) ==
  /\ step[c] = "sending" /\ Live(auth[c])
  /\ Sent(c)
  /\ UNCHANGED <<world, server, file, held, reply, client, login, granted,
                 seen, now>>

\* A network error, the timeout, 429 or 5xx: executeWithRetry sends the same
\* header again.  Without retries left, or for any other error, the request
\* throws, and with it perhaps the command.
AttemptFails(c) ==
  /\ step[c] = "sending"
  /\ \/ /\ attempt[c] < DEFAULT_MAX_RETRIES
        /\ attempt' = [attempt EXCEPT ![c] = @ + 1]
        /\ UNCHANGED <<step, auth, since, client>>
     \/ /\ Sent(c)
        /\ client' \in {client, [client EXCEPT ![c] = NewClient]}
  /\ UNCHANGED <<world, server, file, held, reply, login, granted, seen, now>>

\* The tokens on file are cleared when their access token is past its end.
HandleAuthFailure ==
  IF file.state = "whole" /\ file.tokens.until < now
  THEN file' = Absent ELSE UNCHANGED file

\* 401 is not retried and ends the command; only some commands call
\* handleAuthFailure.
Rejected(c) ==
  /\ step[c] = "sending" /\ ~Live(auth[c])
  /\ HandleAuthFailure \/ UNCHANGED file
  /\ Sent(c)
  /\ client' = [client EXCEPT ![c] = NewClient]
  /\ overdue' = (overdue \/ (calm /\ Overdue(c)))
  /\ UNCHANGED <<world, server, held, reply, login, granted, tornRead, now>>

\* Elsewhere a crash leaves nothing behind.
Crash(c) ==
  /\ ~calm /\ step[c] \in {"answered", "storing"}
  /\ step' = [step EXCEPT ![c] = "gone"]
  /\ client' = [client EXCEPT ![c] = NewClient]
  /\ reply' = [reply EXCEPT ![c] = NoTokens]
  /\ UNCHANGED <<world, server, file, held, sent, login, granted, seen, now>>

-----------------------------------------------------------------------------
(* auth login and auth logout.                                             *)

\* The code of the browser or of the device is exchanged.
LoginExchanged ==
  /\ ~calm /\ login = "none" /\ sessions < MaxSessions
  /\ sessions' = sessions + 1
  /\ \E r \in {0, 1} :
       /\ honoured' = [honoured EXCEPT ![sessions'] = r]
       /\ granted' = Grant(sessions', r)
  /\ login' = "exchanged"
  /\ UNCHANGED <<world, file, others, seen, now>>

LoginAnswered ==
  /\ login = "exchanged" /\ login' = "storing"
  /\ granted' = [granted EXCEPT !.expiresAt = now + Lifetime]
  /\ file' = Torn
  /\ UNCHANGED <<world, server, others, seen, now>>

LoginStored ==
  /\ login = "storing" /\ login' = "none"
  /\ file' = Whole(granted) /\ granted' = NoTokens
  /\ UNCHANGED <<world, server, others, seen, now>>

Logout ==
  /\ ~calm /\ file # Absent /\ file' = Absent
  /\ UNCHANGED <<world, server, others, login, granted, seen, now>>

User == LoginExchanged \/ LoginAnswered \/ LoginStored \/ Logout

Caller(c) ==
  \/ Static(c) \/ Resolve(c) \/ RefreshFails(c) \/ RefreshAnswered(c)
  \/ Stored(c) \/ Create(c) \/ Accepted(c) \/ AttemptFails(c)
  \/ Rejected(c) \/ Crash(c)

Next == Tick \/ User \/ \E c \in Callers : ServeRefresh(c) \/ Caller(c)

Spec == Init /\ [][Next]_vars

Symmetry == Permutations(Callers)

-----------------------------------------------------------------------------
(* Properties.                                                             *)

\* In every attempt of a request, the OAuth token that a client with a
\* provider sends is one the provider of identity still accepts, unless the
\* late answer that brought it and the attempts before have used up the
\* margin: expiry is judged once, by a local clock that started late.  The
\* token it was made with is replayed only when there is no other credential.
SentTokensAreLive ==
  \A c \in Callers : step[c] = "sending" /\ client[c].provider =>
    CASE auth[c].kind = "oauth" -> Live(auth[c]) \/ Overdue(c)
      [] auth[c].kind = "kept"  -> ~static
      [] OTHER -> TRUE

\* The refresh token on file is one the provider honours, unless a process
\* crashed with the pair that replaces it, or is about to replace or clear it.
StoredPairIsUsable ==
  file.state = "whole" /\ file.tokens.refresh # 0 =>
    LET s == file.tokens.session IN
    \/ honoured[s] = file.tokens.refresh
    \/ \E c \in Callers : /\ held[c].session = s
                          /\ step[c] \in {"answered", "failed", "gone"}

\* With a provider that does not rotate, and no refresh failing, nobody is
\* logged out however many processes refresh the pair at once, unless one
\* read the file while another wrote it, or a request was refused because
\* late answers and retries had used up the margin of its token.
NobodyIsLoggedOut == calm /\ ~tornRead /\ ~overdue => file.state # "absent"
=============================================================================
