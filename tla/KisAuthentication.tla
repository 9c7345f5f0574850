------------------------- MODULE KisAuthentication -------------------------
\* The access tokens of the KIS API.  Every process of the system owns one
\* KISAuthManager; the managers of one account share a cache file and the
\* broker's limit on how often a token may be issued, and nothing else.
\*
\* A token is known by the moment it was issued and the moment it expires.
\* Issuing one takes two steps, because the manager holds the new token before
\* the cache file does, and another process may write the file in between.
EXTENDS Naturals

CONSTANTS Managers,      \* the processes that share the cache file
          Credentialed,  \* those that hold an app key and secret
          Lives,         \* the lifetimes the broker gives a token
          Buffer,        \* is_valid's buffer_seconds
          FirstCaches,   \* what an earlier run may have left in the file
          MaxTime        \* bound: the last moment of the model

Times == 0 .. MaxTime
Tokens == [at : Times, until : Nat, mock : BOOLEAN]

ASSUME AuthAssumption ==
    /\ Credentialed \subseteq Managers
    /\ Lives \subseteq Nat \ {0}
    /\ FirstCaches \subseteq Tokens
    /\ Buffer \in Nat
    /\ MaxTime \in Nat

VARIABLES now,      \* time.time()
          current,  \* manager |-> _current_token
          saving,   \* manager |-> the token it is writing to the file
          cache,    \* the file at cache_file_path
          answer    \* manager |-> what its last get_access_token returned

authVars == <<now, current, saving, cache, answer>>

Token(at, until, mock) == [at |-> at, until |-> until, mock |-> mock]

NoToken == Token(0, 0, FALSE)
Unreadable == Token(0, 0, TRUE)   \* a file that json.load refuses

ValidSlip(token) == token # NoToken /\ now + Buffer < token.until

\* A file left by an earlier run may hold a token with a MOCK_ prefix.
Valid(token) ==
    /\ token # NoToken
    /\ ~token.mock
    /\ now + Buffer < token.until

Silent == [how |-> "none", token |-> NoToken]
Pending == [how |-> "pending", token |-> NoToken]
Raised == [how |-> "error", token |-> NoToken]
Given(token) == [how |-> "token", token |-> token]

AuthInit ==
    /\ now = 0
    /\ cache \in FirstCaches
    /\ current = [m \in Managers |-> IF Valid(cache) THEN cache ELSE NoToken]
    /\ saving = [m \in Managers |-> NoToken]
    /\ answer = [m \in Managers |-> Silent]

-----------------------------------------------------------------------------
\* issue_token.  The broker answers with a token, refuses because one was
\* issued a moment ago (EGW00133), or fails in some other way; only the refusal
\* is forgiven, and only a manager whose own token still is valid forgives it.

Received(m, life) ==
    LET token == Token(now, now + life, FALSE) IN
    /\ current' = [current EXCEPT ![m] = token]
    /\ saving' = [saving EXCEPT ![m] = token]
    /\ answer' = [answer EXCEPT ![m] = Pending]

RefusedSlip(m) ==
    /\ answer' = [answer EXCEPT
            ![m] = IF current[m] # NoToken THEN Given(current[m]) ELSE Raised]
    /\ UNCHANGED <<current, saving>>

Refused(m) ==
    /\ answer' = [answer EXCEPT
            ![m] = IF Valid(current[m]) THEN Given(current[m]) ELSE Raised]
    /\ UNCHANGED <<current, saving>>

Failed(m) ==
    /\ answer' = [answer EXCEPT ![m] = Raised]
    /\ UNCHANGED <<current, saving>>

Issue(m) ==
    \/ m \in Credentialed /\ \E life \in Lives : Received(m, life)
    \/ m \in Credentialed /\ Refused(m)
    \/ Failed(m)

\* get_access_token: a token is issued when the caller insists or the one in
\* memory is absent or about to expire.
Ask(m, force) ==
    /\ saving[m] = NoToken
    /\ IF force \/ ~Valid(current[m])
       THEN Issue(m)
       ELSE /\ answer' = [answer EXCEPT ![m] = Given(current[m])]
            /\ UNCHANGED <<current, saving>>
    /\ UNCHANGED <<now, cache>>

\* _save_token_to_cache: the file is written, could not be opened, or was
\* emptied and not filled; the token in memory is returned in every case.
Save(m) ==
    /\ saving[m] # NoToken
    /\ cache' \in {saving[m], cache, Unreadable}
    /\ saving' = [saving EXCEPT ![m] = NoToken]
    /\ answer' = [answer EXCEPT ![m] = Given(current[m])]
    /\ UNCHANGED <<now, current>>

\* A process stops, possibly while it writes, and is started again: the
\* constructor takes the cached token if it still is valid.
Restart(m) ==
    /\ cache' \in {cache} \cup (IF saving[m] = NoToken THEN {} ELSE {Unreadable})
    /\ current' = [current EXCEPT ![m] = IF Valid(cache') THEN cache' ELSE NoToken]
    /\ saving' = [saving EXCEPT ![m] = NoToken]
    /\ answer' = [answer EXCEPT ![m] = Silent]
    /\ UNCHANGED now

TimePasses ==
    /\ now < MaxTime
    /\ now' = now + 1
    /\ UNCHANGED <<current, saving, cache, answer>>

-----------------------------------------------------------------------------
\* Every manager holds a token of the broker or none: never one of a test run
\* that the shared file happened to hold.
AuthTypeOK ==
    /\ now \in Times
    /\ cache \in Tokens
    /\ \A m \in Managers :
        /\ current[m] \in Tokens /\ ~current[m].mock
        /\ saving[m] \in {NoToken, current[m]}
        /\ answer[m].how \in {"none", "pending", "error", "token"}
        /\ answer[m].token \in Tokens
        /\ saving[m] # NoToken <=> answer[m].how = "pending"

\* A caller of get_access_token is handed a token that is valid at that moment
\* or one the broker has issued since the last call returned, whatever the
\* other processes, the cache file and the issue limit did (auth.py:242-247).
HandedUsable ==
    [][\A m \in Managers :
         answer'[m] # answer[m] /\ answer'[m].how = "token"
            => \/ Valid(answer'[m].token)
               \/ answer[m].how = "pending" /\ current[m] = answer'[m].token]_authVars

\* A manager gives up a token that still is valid only for a newer one: a
\* forced refresh that is refused or fails, a cache file that cannot be written
\* and what other processes do leave it as it is (auth.py:206-240).
KeepsWhatIsValid ==
    [][\A m \in Managers :
         /\ current'[m] # current[m]
         /\ answer'[m] # Silent
         => current'[m].at = now /\ answer'[m] = Pending]_authVars

\* No race of the processes over cache file and issue limit costs a caller a
\* usable token.
TokensUsable == HandedUsable /\ KeepsWhatIsValid
=============================================================================
