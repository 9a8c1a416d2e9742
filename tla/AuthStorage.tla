---------------------------- MODULE AuthStorage ----------------------------
(* Credentials shared by several instances of the program through          *)
(* auth.json, packages/coding-agent/src/core/auth-storage.ts: getApiKey    *)
(* with its refresh under a lock, set, remove, login and logout, reload.   *)
(*                                                                         *)
(* The file holds the OAuth token of one provider and the API key of       *)
(* another.  An OAuth token is a number: the access token, which expires,  *)
(* and the refresh token, which the provider accepts once.  The lock is a  *)
(* directory beside the file; proper-lockfile, which is not in the         *)
(* repository, renews it every 15 seconds for the asynchronous holder      *)
(* (stale: 30000) and lets a synchronous locker, which passes no stale     *)
(* time, take over one not renewed for 10 seconds.                         *)
(*                                                                         *)
(* Bounds: one getApiKey under way in an instance; MaxTokens tokens;       *)
(* MaxChanges calls of set, remove, login and logout; MaxCrashes crashes.  *)
EXTENDS Naturals

CONSTANTS Instance, NoOne, Torn, MaxTokens, MaxChanges, MaxCrashes

ASSUME AuthBounds == MaxTokens \in Nat \ {0} /\ MaxChanges \in Nat /\ MaxCrashes \in Nat

Token == 1 .. MaxTokens
Content == [oauth : 0 .. MaxTokens, key : 0 .. MaxChanges]
Nothing == [oauth |-> 0, key |-> 0]

ASSUME AuthNames == NoOne \notin Instance /\ Torn \notin Content

VARIABLES
  authFile,     \* auth.json: its content, or Torn when it does not parse
  authLock,     \* who made the lock directory
  aged,         \* it was not renewed for 10 seconds
  minted,       \* tokens issued by the provider
  expired,      \* access tokens past their time
  spent,        \* refresh tokens the provider has rotated
  live,         \* instances that run
  data,         \* this.data of each
  loadError,    \* this.loadError of each
  refresh,      \* where the getApiKey of each is
  asked,        \* the token it sent to the provider
  compromised,  \* lockCompromised: the lock was found to be another's
  changes, crashes,
  stored,       \* history: the last API key that set wrote to the file
  mishap        \* history: a lock taken over from a live holder, a token or a file lost

authVars == <<authFile, authLock, aged, minted, expired, spent, live, data, loadError,
              refresh, asked, compromised, changes, crashes, stored, mishap>>

lockVars == <<authLock, aged>>
providerVars == <<minted, expired, spent>>
boundVars == <<changes, crashes>>

AuthTypeOK ==
  /\ authFile \in Content \union {Torn}
  /\ authLock \in Instance \union {NoOne} /\ aged \in BOOLEAN
  /\ minted \in 0 .. MaxTokens /\ expired \subseteq Token /\ spent \subseteq Token
  /\ live \subseteq Instance
  /\ data \in [Instance -> Content] /\ loadError \in [Instance -> BOOLEAN]
  /\ refresh \in [Instance -> {"no", "locking", "sent", "rotated", "refused", "reloading"}]
  /\ asked \in [Instance -> 0 .. MaxTokens] /\ compromised \in [Instance -> BOOLEAN]
  /\ changes \in 0 .. MaxChanges /\ crashes \in 0 .. MaxCrashes
  /\ stored \in 0 .. MaxChanges /\ mishap \in BOOLEAN

\* The file holds one token, already expired or not; nobody runs.
AuthInit ==
  /\ authFile = [Nothing EXCEPT !.oauth = 1]
  /\ authLock = NoOne /\ aged = FALSE
  /\ minted = 1 /\ expired \in SUBSET {1} /\ spent = {}
  /\ live = {}
  /\ data = [i \in Instance |-> Nothing] /\ loadError = [i \in Instance |-> FALSE]
  /\ refresh = [i \in Instance |-> "no"]
  /\ asked = [i \in Instance |-> 0] /\ compromised = [i \in Instance |-> FALSE]
  /\ changes = 0 /\ crashes = 0
  /\ stored = 0 /\ mishap = FALSE

Holding(i) == refresh[i] \in {"sent", "rotated", "refused"}

\* The lock directory was left by an instance that no longer holds it.
LockIsDead == authLock # NoOne /\ ~Holding(authLock)

\* withLock gets the lock: nobody has it, or it is older than ten seconds.
SyncLockable == authLock = NoOne \/ aged

\* withLock got the lock and has released it.
SyncLocked ==
  /\ SyncLockable
  /\ authLock' = NoOne /\ aged' = FALSE
  /\ mishap' = (mishap \/ (authLock # NoOne /\ Holding(authLock)))

\* withLock throws: the lock is held, or the file does not parse.
SyncFails == IF SyncLockable THEN SyncLocked /\ authFile = Torn ELSE UNCHANGED <<lockVars, mishap>>

\* reload: the content of the file, or a load error and the data there was.
LoadInto(i, before) ==
  \/ /\ SyncLocked /\ authFile # Torn
     /\ data' = [data EXCEPT ![i] = authFile]
     /\ loadError' = [loadError EXCEPT ![i] = FALSE]
  \/ /\ SyncFails
     /\ data' = [data EXCEPT ![i] = before]
     /\ loadError' = [loadError EXCEPT ![i] = TRUE]

\* A process starts: the constructor reloads.
Launch(i) ==
  /\ i \notin live
  /\ live' = live \union {i}
  /\ LoadInto(i, Nothing)
  /\ UNCHANGED <<authFile, providerVars, refresh, asked, compromised, boundVars, stored>>

\* persistProviderChange: merge one provider's change into what the file holds.
\* After a failed load nothing is written, and nothing said.
PersistProviderChange(i, merged, saved) ==
  \/ /\ ~loadError[i] /\ SyncLocked /\ authFile # Torn
     /\ authFile' = merged
     /\ stored' = saved
  \/ /\ IF loadError[i] THEN UNCHANGED <<lockVars, mishap>> ELSE SyncFails
     /\ UNCHANGED <<authFile, stored>>

\* set, remove: memory first, then the file.
Change(i, changed, merged, saved) ==
  /\ i \in live /\ changes < MaxChanges
  /\ changes' = changes + 1
  /\ data' = [data EXCEPT ![i] = changed]
  /\ PersistProviderChange(i, merged, saved)
  /\ UNCHANGED <<expired, spent, live, loadError, refresh, asked, compromised, crashes>>

WithKey(content) == [content EXCEPT !.key = changes + 1]
WithLogin(content) == [content EXCEPT !.oauth = minted + 1]
WithoutLogin(content) == [content EXCEPT !.oauth = 0]

SetKey(i) == Change(i, WithKey(data[i]), WithKey(authFile), changes + 1) /\ UNCHANGED minted

Login(i) ==
  /\ minted < MaxTokens
  /\ minted' = minted + 1
  /\ Change(i, WithLogin(data[i]), WithLogin(authFile), stored)

Logout(i) == Change(i, WithoutLogin(data[i]), WithoutLogin(authFile), stored) /\ UNCHANGED minted

\* getApiKey finds the token in memory expired: it asks for the lock.
GetApiKey(i) ==
  /\ i \in live /\ refresh[i] = "no"
  /\ data[i].oauth \in expired
  /\ refresh' = [refresh EXCEPT ![i] = "locking"]
  /\ UNCHANGED <<authFile, lockVars, providerVars, live, data, loadError, asked, compromised,
                 boundVars, stored, mishap>>

AsyncLockable == authLock = NoOne \/ (LockIsDead /\ aged)

\* Mutant: the token in memory is sent, without reading the file again.
RefreshFromMemory(i) ==
  /\ refresh[i] = "locking" /\ AsyncLockable /\ data[i].oauth \in expired
  /\ authLock' = i /\ aged' = FALSE
  /\ refresh' = [refresh EXCEPT ![i] = "sent"]
  /\ asked' = [asked EXCEPT ![i] = data[i].oauth]
  /\ UNCHANGED <<authFile, providerVars, live, data, loadError, compromised, boundVars, stored,
                 mishap>>

\* Under the lock the file is read again: another instance may have refreshed, or
\* logged out.  Only a token that is expired there too is sent to the provider.
RefreshOAuthTokenWithLock(i) ==
  /\ refresh[i] = "locking" /\ AsyncLockable /\ authFile # Torn
  /\ data' = [data EXCEPT ![i] = authFile]
  /\ loadError' = [loadError EXCEPT ![i] = FALSE]
  /\ aged' = FALSE
  /\ IF authFile.oauth \in expired
       THEN /\ authLock' = i
            /\ refresh' = [refresh EXCEPT ![i] = "sent"]
            /\ asked' = [asked EXCEPT ![i] = authFile.oauth]
       ELSE /\ authLock' = NoOne
            /\ refresh' = [refresh EXCEPT ![i] = "no"]
            /\ UNCHANGED asked
  /\ UNCHANGED <<authFile, providerVars, live, compromised, boundVars, stored, mishap>>

\* The lock is still held after the last retry, or the file does not parse.
LockFails(i) ==
  /\ refresh[i] = "locking"
  /\ \/ ~AsyncLockable /\ UNCHANGED lockVars
     \/ AsyncLockable /\ authFile = Torn /\ authLock' = NoOne /\ aged' = FALSE
  /\ refresh' = [refresh EXCEPT ![i] = "reloading"]
  /\ UNCHANGED <<authFile, providerVars, live, data, loadError, asked, compromised, boundVars,
                 stored, mishap>>

\* The provider rotates a refresh token it has not seen before, and refuses others.
ProviderRotates(i) ==
  /\ refresh[i] = "sent"
  /\ IF asked[i] \in spent THEN refresh' = [refresh EXCEPT ![i] = "refused"]
                           ELSE refresh' = [refresh EXCEPT ![i] = "rotated"]
  /\ spent' = spent \union {asked[i]}
  /\ UNCHANGED <<authFile, lockVars, minted, expired, live, data, loadError, asked, compromised,
                 boundVars, stored, mishap>>

\* release() removes the lock directory, whoever made it, unless it is known to be lost.
Release(i) == IF compromised[i] THEN UNCHANGED lockVars ELSE authLock' = NoOne /\ aged' = FALSE

\* The locked section is left.
LeaveFor(i, next) ==
  /\ refresh' = [refresh EXCEPT ![i] = next]
  /\ asked' = [asked EXCEPT ![i] = 0]
  /\ compromised' = [compromised EXCEPT ![i] = FALSE]
  /\ Release(i)

\* The answer: the new token is merged into the data read under the lock, which is
\* the object set and remove change meanwhile, and written if the lock was kept.
TokenAnswered(i) ==
  LET merged == [data[i] EXCEPT !.oauth = minted + 1] IN
  /\ refresh[i] = "rotated" /\ minted < MaxTokens
  /\ minted' = minted + 1
  /\ data' = [data EXCEPT ![i] = merged]
  /\ loadError' = [loadError EXCEPT ![i] = FALSE]
  /\ LeaveFor(i, IF compromised[i] THEN "reloading" ELSE "no")
  /\ authFile' = IF compromised[i] THEN authFile ELSE merged
  /\ UNCHANGED <<expired, spent, live, boundVars, stored, mishap>>

\* The request fails: on the way there, on the way back, or because it was refused.
RefreshFails(i) ==
  /\ Holding(i)
  /\ LeaveFor(i, "reloading")
  /\ mishap' = (mishap \/ refresh[i] = "rotated")
  /\ UNCHANGED <<authFile, providerVars, live, data, loadError, boundVars, stored>>

\* The catch block of getApiKey: read the file again.
ReloadAfterFailure(i) ==
  /\ refresh[i] = "reloading"
  /\ refresh' = [refresh EXCEPT ![i] = "no"]
  /\ LoadInto(i, data[i])
  /\ UNCHANGED <<authFile, providerVars, live, asked, compromised, boundVars, stored>>

\* proper-lockfile: ten seconds pass; the holder's timer renews, or finds another's lock.
Age ==
  /\ authLock # NoOne /\ ~aged
  /\ aged' = TRUE
  /\ UNCHANGED <<authFile, authLock, providerVars, live, data, loadError, refresh, asked,
                 compromised, boundVars, stored, mishap>>

Renew(i) ==
  /\ Holding(i) /\ ~compromised[i]
  /\ IF authLock = i
       THEN aged /\ aged' = FALSE /\ UNCHANGED compromised
       ELSE compromised' = [compromised EXCEPT ![i] = TRUE] /\ UNCHANGED aged
  /\ UNCHANGED <<authFile, authLock, providerVars, live, data, loadError, refresh, asked,
                 boundVars, stored, mishap>>

Expire(t) ==
  /\ t <= minted /\ t \notin expired
  /\ expired' = expired \union {t}
  /\ UNCHANGED <<authFile, lockVars, minted, spent, live, data, loadError, refresh, asked,
                 compromised, boundVars, stored, mishap>>

\* writeFileSync truncates before it writes: a writer can leave the file empty or torn.
Truncated == authFile' \in {Nothing, Torn} /\ mishap' = TRUE

\* The process ends, in a refresh, in a change or between; the lock directory stays,
\* and a token rotated for it is lost.
Crash(i) ==
  /\ i \in live /\ crashes < MaxCrashes
  /\ crashes' = crashes + 1
  /\ live' = live \ {i}
  /\ data' = [data EXCEPT ![i] = Nothing]
  /\ loadError' = [loadError EXCEPT ![i] = FALSE]
  /\ refresh' = [refresh EXCEPT ![i] = "no"]
  /\ asked' = [asked EXCEPT ![i] = 0]
  /\ compromised' = [compromised EXCEPT ![i] = FALSE]
  /\ \/ /\ mishap' = (mishap \/ refresh[i] = "rotated")
        /\ UNCHANGED <<authFile, lockVars>>
     \/ /\ refresh[i] = "rotated" /\ ~compromised[i]
        /\ Truncated
        /\ UNCHANGED lockVars
     \/ /\ SyncLockable /\ ~loadError[i]
        /\ Truncated
        /\ authLock' = i /\ aged' = FALSE
  /\ UNCHANGED <<providerVars, changes, stored>>

AuthNext ==
  \/ \E i \in Instance :
       \/ Launch(i) \/ SetKey(i) \/ Login(i) \/ Logout(i) \/ GetApiKey(i)
       \/ RefreshOAuthTokenWithLock(i) \/ LockFails(i) \/ ProviderRotates(i)
       \/ TokenAnswered(i) \/ RefreshFails(i) \/ ReloadAfterFailure(i)
       \/ Renew(i) \/ Crash(i)
  \/ Age
  \/ \E t \in Token : Expire(t)

\* PROPERTIES

\* Unless a lock was taken over or an answer lost, no refresh token is sent twice:
\* "prevent race conditions, multiple pi instances may try to refresh simultaneously".
NoTokenSentTwice == \A i \in Instance : refresh[i] # "refused"

\* The file never keeps a token that is used up, except while its successor is on
\* the way to the instance that holds the lock.
StoredTokenIsGood ==
  authFile # Torn /\ authFile.oauth \in spent =>
    authLock # NoOne /\ refresh[authLock] = "rotated"

\* A key that set wrote is not undone by another instance's refresh or change: keys
\* are numbered as they are set, and the file never goes back behind the last one.
KeyIsStored == authFile # Torn /\ authFile.key >= stored

\* The three together, while no lock was taken over from an instance at work, no
\* answer of the provider lost and no writer killed (what the code cannot mend); every
\* variable has its type.
CredentialsKept ==
  AuthTypeOK /\ (mishap \/ (NoTokenSentTwice /\ StoredTokenIsGood /\ KeyIsStored))
=============================================================================
