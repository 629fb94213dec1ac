------------------------------ MODULE Sessions ------------------------------
(***************************************************************************)
(* Fastcgi++'s map of sessions, in the process and in the visitors'        *)
(* browsers, as the library's example uses it: every request cleans up,    *)
(* finds the session that its cookie names, and renews it, ends it or, if  *)
(* there is none, may begin one.  A response, with its cookie, may be      *)
(* lost.  A browser's clock may be behind, so that it sends a cookie that  *)
(* has expired.  An id, twelve random bytes, is not drawn twice.           *)
(***************************************************************************)
EXTENDS Integers

CONSTANTS
  Visitors,
  keepAlive, cleanupFrequency,  \* in seconds
  MaxTime,                      \* bound: seconds
  MaxSessions                   \* bound: sessions that are begun

ASSUME SessionsAssumption ==
  keepAlive \in Nat /\ cleanupFrequency \in Nat \ {0} /\ {MaxTime, MaxSessions} \subseteq Nat

VARIABLES
  now,
  sessions,     \* of each id, when its session was last used, and its data
  cleanupTime,
  drawn,        \* the ids drawn so far are 1..drawn
  held,      \* of each visitor the cookie, or <<>>
  ended,        \* history: the sessions that were logged out
  answered      \* the last request: its time, visitor and cookie, and what was found

sessionVars == <<now, sessions, cleanupTime, drawn, held, ended, answered>>

NoId == 0
Session(data) == [timestamp |-> now, data |-> data]
getExpiry(session) == session.timestamp + keepAlive

AsOld(session)     == session.timestamp <= now - keepAlive
OlderThan(session) == session.timestamp < now - keepAlive

CleansUp == now >= cleanupTime
Kept     == IF CleansUp THEN [id \in {i \in DOMAIN sessions : ~OlderThan(sessions[i])} |->
                                sessions[id]]
            ELSE sessions

\* Of no cookie the text is empty, and the id all zeros.
findCookie(v) == IF held[v] = <<>> THEN NoId ELSE held[v][1].id

\* What every response begins with.
Begins(v) ==
  LET id == findCookie(v) IN
  /\ cleanupTime' = IF CleansUp THEN now + cleanupFrequency ELSE cleanupTime
  /\ answered' = <<[at |-> now, visitor |-> v, cookie |-> held[v],
                    found |-> IF id \in DOMAIN Kept THEN <<Kept[id]>> ELSE <<>>]>>
  /\ UNCHANGED now

SetCookieTo(v, cookie) == held' = [held EXCEPT ![v] = cookie] \/ UNCHANGED held
CookieOf(id) == <<[id |-> id, expires |-> getExpiry(sessions'[id])]>>

Logout(v) ==
  LET id == findCookie(v) IN
  /\ Begins(v) /\ id \in DOMAIN Kept
  /\ sessions' = [i \in DOMAIN Kept \ {id} |-> Kept[i]] /\ ended' = ended \cup {id}
  /\ SetCookieTo(v, <<>>)
  /\ UNCHANGED drawn

refresh(v) ==
  LET id == findCookie(v) IN
  /\ Begins(v) /\ id \in DOMAIN Kept
  /\ sessions' = [Kept EXCEPT ![id].timestamp = now]
  /\ SetCookieTo(v, CookieOf(id))
  /\ UNCHANGED <<drawn, ended>>

generate(v) ==
  /\ Begins(v) /\ findCookie(v) \notin DOMAIN Kept
  /\ drawn < MaxSessions /\ drawn' = drawn + 1
  /\ sessions' = [i \in DOMAIN Kept \cup {drawn + 1} |->
                    IF i = drawn + 1 THEN Session(v) ELSE Kept[i]]
  /\ SetCookieTo(v, CookieOf(drawn + 1))
  /\ UNCHANGED ended

NoSession(v) ==
  /\ Begins(v) /\ findCookie(v) \notin DOMAIN Kept
  /\ sessions' = Kept
  /\ UNCHANGED <<drawn, held, ended>>

Second ==
  /\ now < MaxTime /\ now' = now + 1
  /\ UNCHANGED <<sessions, cleanupTime, drawn, held, ended, answered>>

SessionsInit ==
  /\ now = 0 /\ sessions = [id \in {} |-> Session(id)] /\ cleanupTime = now + cleanupFrequency
  /\ drawn = 0 /\ held = [v \in Visitors |-> <<>>] /\ ended = {} /\ answered = <<>>

SessionsNext ==
  \/ Second
  \/ \E v \in Visitors : Logout(v) \/ refresh(v) \/ generate(v) \/ NoSession(v)

SessionsSpec == SessionsInit /\ [][SessionsNext]_sessionVars

-----------------------------------------------------------------------------
\* A visitor whose cookie has not expired finds the session, unless it was logged out;
\* whoever finds one finds their own; and no session is found that was not used for as
\* long as a session is kept and a clean-up may be put off (http.hpp 562-572).
SessionsFound ==
  \A k \in DOMAIN answered :
    LET a == answered[k] IN
    /\ a.cookie # <<>> /\ a.cookie[1].expires >= a.at /\ a.cookie[1].id \notin ended =>
         a.found # <<>>
    /\ a.found # <<>> => /\ a.found[1].data = a.visitor
                         /\ a.at - a.found[1].timestamp < keepAlive + cleanupFrequency
=============================================================================
