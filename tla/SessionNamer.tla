---------------------------- MODULE SessionNamer ----------------------------
(***************************************************************************)
(* When the daemon asks an agent for a session's name: the prompts it      *)
(* remembers per session, the attempts, and the namers that are running    *)
(* (packages/session/src/session-namer.ts, session-naming-policy.ts).      *)
(* What becomes of the answer in the session is SessionService's           *)
(* NameAutomatically.                                                      *)
(***************************************************************************)
EXTENDS Naturals, FiniteSets

CONSTANTS Sessions,
          MaxNamers,      \* MAX_CONCURRENT_NAMERS
          MaxAttempts,    \* MAX_FIRST_NAME_ATTEMPTS
          RefreshAfter,   \* REFRESH_AFTER_PROMPTS
          MaxPrompts      \* bound: prompts counted in one history

SessionNamerAssumption ==
  MaxAttempts \in Nat \ {0} /\ {MaxNamers, RefreshAfter, MaxPrompts} \subseteq Nat

VARIABLES
  naming,     \* "off" or "agent"
  origin,     \* [Sessions -> who named it, or "gone"]
  histories,  \* [Sessions -> NamingHistory, or NoHistory]
  asking,     \* [Sessions -> the history its running namer was started with]
  rested,     \* sessions whose last attempt is REFRESH_AFTER_MILLISECONDS old
  asked       \* history: namers started since the session rested, or naming
              \*  was configured

vars == <<naming, origin, histories, asking, rested, asked>>

NoHistory == [substantive |-> 0, failures |-> 0, last |-> 0, tried |-> FALSE, kept |-> FALSE]
EmptyHistory == [NoHistory EXCEPT !.kept = TRUE]
Idle == {}

\* NamingHistory; last is the count of prompts at the last attempt, if tried.
History == [substantive : 0..MaxPrompts, failures : 0..MaxAttempts, last : 0..MaxPrompts,
            tried : BOOLEAN, kept : BOOLEAN]

Init ==
  /\ naming = "agent"
  /\ origin \in [Sessions -> {"derived", "automatic"}]
  /\ histories = [s \in Sessions |-> NoHistory]
  /\ asking = [s \in Sessions |-> Idle]
  /\ rested = Sessions
  /\ asked = [s \in Sessions |-> 0]

InFlight == {s \in Sessions : asking[s] # Idle}
Accepts(s) == origin[s] \in {"derived", "automatic"}

-----------------------------------------------------------------------------
(* The policy *)

\* rememberPrompt, for a prompt that says something.
Remembered(h) == [h EXCEPT !.substantive = @ + 1]

\* recordAttempt: failures are counted up to the limit they are compared with.
Recorded(h, after, named) ==
  [h EXCEPT !.failures = IF named THEN 0 ELSE IF @ < MaxAttempts THEN @ + 1 ELSE @,
            !.last = after, !.tried = TRUE]

\* Mutation of namingDue: a name nobody found yet is asked for at each prompt.
NeverGivesUp(h, who, old) ==
  /\ who # "user" /\ h.substantive # 0
  /\ ~(h.tried /\ h.last = h.substantive)
  /\ who = "derived" \/ (h.substantive >= h.last + RefreshAfter /\ old)

\* namingDue
NamingDue(h, who, old) ==
  /\ who # "user" /\ h.substantive # 0
  /\ ~(h.tried /\ h.last = h.substantive)
  /\ \/ who = "derived" /\ (~h.tried \/ h.failures \in 1..MaxAttempts - 1)
     \/ h.substantive >= (IF h.tried THEN h.last ELSE 0) + RefreshAfter /\ (h.tried => old)

-----------------------------------------------------------------------------
(* The namer *)

\* forgetGone, then the session's own history with the prompt in it.
AfterForgetting == [s \in Sessions |-> IF Accepts(s) THEN histories[s] ELSE NoHistory]
WithPrompt(s, substantive) ==
  LET h == IF histories[s].kept THEN histories[s] ELSE EmptyHistory
  IN  IF substantive THEN Remembered(h) ELSE h

PromptSubmitted(s, substantive) ==
  /\ naming = "agent"
  /\ histories[s].substantive < MaxPrompts
  /\ LET h == WithPrompt(s, substantive)
         starts == /\ Accepts(s)
                   /\ NamingDue(h, origin[s], s \in rested)
                   /\ asking[s] = Idle
                   /\ Cardinality(InFlight) < MaxNamers
     IN  /\ histories' = IF Accepts(s) THEN [AfterForgetting EXCEPT ![s] = h]
                         ELSE AfterForgetting
         /\ asking' = IF starts THEN [asking EXCEPT ![s] = {h}] ELSE asking
         /\ rested' = IF starts THEN rested \ {s} ELSE rested
         /\ asked' = IF starts THEN [asked EXCEPT ![s] = @ + 1] ELSE asked
  /\ UNCHANGED <<naming, origin>>

\* The agent answered, or failed.  The attempt is recorded in the history there
\* is now, or in the one the namer was started with: with naming turned off in
\* the meantime that one comes back.
Answered(s, named) ==
  \E h \in asking[s] :
    LET latest == IF histories[s].kept THEN histories[s] ELSE h
    IN  /\ histories' = [histories EXCEPT ![s] = Recorded(latest, h.substantive, named)]
        /\ asking' = [asking EXCEPT ![s] = Idle]
        /\ \/ origin' = origin
           \/ named /\ Accepts(s) /\ origin' = [origin EXCEPT ![s] = "automatic"]
        /\ UNCHANGED <<naming, rested, asked>>

\* The setting was saved.
Configure(next) ==
  /\ naming' = next
  /\ histories' = IF next = "off" THEN [s \in Sessions |-> NoHistory] ELSE histories
  /\ asked' = [s \in Sessions |-> 0]
  /\ UNCHANGED <<origin, asking, rested>>

\* What others do: a person renames a session, or removes it; time passes.
Renamed(s) ==
  /\ origin[s] # "gone"
  /\ \E who \in {"user", "gone"} : origin' = [origin EXCEPT ![s] = who]
  /\ UNCHANGED <<naming, histories, asking, rested, asked>>

Rest(s) ==
  /\ asking[s] = Idle
  /\ rested' = rested \cup {s}
  /\ asked' = [asked EXCEPT ![s] = 0]
  /\ UNCHANGED <<naming, origin, histories, asking>>

Next ==
  \/ \E s \in Sessions, b \in BOOLEAN : PromptSubmitted(s, b) \/ Answered(s, b)
  \/ \E s \in Sessions : Renamed(s) \/ Rest(s)
  \/ \E next \in {"off", "agent"} : Configure(next)

Spec == Init /\ [][Next]_vars

-----------------------------------------------------------------------------
TypeOK ==
  /\ naming \in {"off", "agent"}
  /\ histories \in [Sessions -> History]
  /\ \A s \in Sessions : asking[s] \subseteq History

\* However many prompts come and however the agent fails, a session costs few
\* runs of the agent until ten minutes have passed since the last, and they are
\* never many at a time.
AsksAreRare ==
  /\ \A s \in Sessions : asked[s] <= MaxAttempts
  /\ Cardinality(InFlight) <= MaxNamers
=============================================================================
