------------------------------ MODULE FeedCache ------------------------------
(***************************************************************************)
(* The realtime feed of the user beside the click transactions and the     *)
(* rebuilds of ClickProfile: GET /newsletters/today in RECSYS_MODE=realtime*)
(* (backend/app/recsys/service.py, cache.py, pipeline.py).                 *)
(*                                                                         *)
(* What a list was computed from stands for the list: the profile row, the *)
(* recent clicks and the clicks whose newsletters were taken out.  The     *)
(* request thread waits for a worker of a pool, and answers from the       *)
(* fallback chain when the time budget is over; the worker goes on and     *)
(* still fills the cache.                                                  *)
(***************************************************************************)
EXTENDS ClickProfile

CONSTANTS
  Feeds,      \* requests to GET /newsletters/today
  NoClick,    \* last_click_id of a user without clicks
  NoList,     \* no cache entry, no answer yet
  Fallback    \* a list of the fallback chain, which reads no clicks

Lists == [profile : SUBSET Clicks, last : Nat, recent : SUBSET Clicks, clicked : SUBSET Clicks,
          features : BOOLEAN]

ASSUME FeedAssumption ==
  /\ NoClick \notin Clicks
  /\ {NoList, Fallback} \cap Lists = {} /\ NoList # Fallback

VARIABLES
  f_step,   \* where the worker of each request is
  now,      \* request time, taken before the work is submitted
  arrived,  \* history: the clicks that were stored when the request came in
  key,      \* last_click_id the worker read
  work,     \* what the worker has read so far
  answer,   \* what the request was answered with
  cache,    \* the result cache of the process, by last_click_id
  missed    \* history: the clicks that were ever stored without being added to the profile

feedVars == <<f_step, now, arrived, key, work, answer, cache>>
allVars == <<vars, feedVars, missed>>
profileVars == <<event, at, embedded, tableVars, holder, at_step, mine, jobVars>>

StoredClicks == {c \in log : event[c] = "click"}
Newest(S) == IF S = {} THEN NoClick ELSE CHOOSE c \in S : \A d \in S : at[d] <= at[c]
Nothing == [profile |-> {}, last |-> NoTime, recent |-> {}, clicked |-> {}, features |-> FALSE]

FeedInit ==
  /\ Init
  /\ f_step = [q \in Feeds |-> "idle"] /\ now = [q \in Feeds |-> NoTime]
  /\ arrived = [q \in Feeds |-> {}] /\ key = [q \in Feeds |-> NoClick]
  /\ work = [q \in Feeds |-> Nothing] /\ answer = [q \in Feeds |-> NoList]
  /\ cache = [k \in Clicks \cup {NoClick} |-> NoList]
  /\ missed = {}

FeedGoto(q, step) == f_step' = [f_step EXCEPT ![q] = step]
Finish(q) == /\ FeedGoto(q, "done") /\ now' = [now EXCEPT ![q] = NoTime]
             /\ work' = [work EXCEPT ![q] = Nothing] /\ key' = [key EXCEPT ![q] = NoClick]
Answer(q, list) == answer' = [answer EXCEPT ![q] = IF @ = NoList THEN list ELSE @]
Learn(q, reading) == work' = [work EXCEPT ![q] = reading]

\* recommend(): the time is taken, the work is submitted to the pool.
Arrive(q) ==
  /\ f_step[q] = "idle"
  /\ clock' = clock + 1 /\ now' = [now EXCEPT ![q] = clock + 1]
  /\ arrived' = [arrived EXCEPT ![q] = StoredClicks]
  /\ FeedGoto(q, "submitted")
  /\ UNCHANGED <<profileVars, key, work, answer, cache>>

\* repo.last_click_id and the look-up in the cache.
ReadKey(q) ==
  LET k == Newest(StoredClicks) IN
  /\ f_step[q] = "submitted"
  /\ IF cache[k] # NoList
     THEN Answer(q, cache[k]) /\ Finish(q)
     ELSE FeedGoto(q, "profile") /\ key' = [key EXCEPT ![q] = k] /\ UNCHANGED <<answer, work, now>>
  /\ UNCHANGED <<vars, arrived, cache>>

\* build_user_state: first the profile row, ...
ReadProfile(q) ==
  /\ f_step[q] = "profile"
  /\ Learn(q, [work[q] EXCEPT !.profile = {c \in Clicks : row.count[c] > 0}, !.last = row.last])
  /\ FeedGoto(q, "recent")
  /\ UNCHANGED <<vars, now, arrived, key, answer, cache>>

\* Mutant: the state is compared with nothing that is later than the request.
FeaturesIfNotBehind(state, t) == \A c \in state.recent : at[c] <= state.last

\* check_inputs: nothing of the features is later than the request, and the
\* state is not behind the log.
FeaturesIfConsistent(state, t) ==
  /\ state.profile # {} => state.last < t
  /\ \A c \in state.recent : at[c] < t /\ at[c] <= state.last

\* ... then the clicks before the request.
ReadRecent(q) ==
  LET recent == {c \in Events : at[c] < now[q]}
      state == [work[q] EXCEPT !.recent = recent] IN
  /\ f_step[q] = "recent"
  /\ Learn(q, [state EXCEPT !.features = FeaturesIfConsistent(state, now[q])])
  /\ FeedGoto(q, "exclusion")
  /\ UNCHANGED <<vars, now, arrived, key, answer, cache>>

\* clicked_among has no time limit.
ReadClicked(q) ==
  /\ f_step[q] = "exclusion"
  /\ Learn(q, [work[q] EXCEPT !.clicked = StoredClicks])
  /\ FeedGoto(q, "ranked")
  /\ UNCHANGED <<vars, now, arrived, key, answer, cache>>

\* Mutant: the list is stored under the click that is the newest by now.
PutUnderNewest(q) ==
  /\ f_step[q] = "ranked"
  /\ cache' = [cache EXCEPT ![Newest(StoredClicks)] = work[q]]
  /\ Answer(q, work[q]) /\ Finish(q)
  /\ UNCHANGED <<vars, arrived>>

\* Ranked: cached under the key that was read at the start, and answered.
Put(q) ==
  /\ f_step[q] = "ranked"
  /\ cache' = [cache EXCEPT ![key[q]] = work[q]]
  /\ Answer(q, work[q]) /\ Finish(q)
  /\ UNCHANGED <<vars, arrived>>

\* The ranking raises: nothing to recommend, a check of the deadline, an error.
RankFails(q) ==
  /\ f_step[q] \in {"submitted", "profile", "recent", "exclusion", "ranked"}
  /\ Answer(q, Fallback) /\ Finish(q)
  /\ UNCHANGED <<vars, arrived, cache>>

\* The request stops waiting; the worker does not.  A future that has not
\* started yet is cancelled.
Timeout(q) ==
  /\ f_step[q] \in {"submitted", "profile", "recent", "exclusion", "ranked"} /\ answer[q] = NoList
  /\ Answer(q, Fallback)
  /\ \/ f_step[q] = "submitted" /\ Finish(q)
     \/ UNCHANGED <<f_step, now, key, work>>
  /\ UNCHANGED <<vars, arrived, cache>>

\* TTL, the size limit of the cache, or the request reaches another process.
Forget(k) ==
  /\ cache[k] # NoList
  /\ cache' = [cache EXCEPT ![k] = NoList]
  /\ UNCHANGED <<vars, f_step, now, arrived, key, work, answer>>

FeedStep ==
  \/ \E q \in Feeds : Arrive(q) \/ ReadKey(q) \/ ReadProfile(q) \/ ReadRecent(q) \/ ReadClicked(q)
                      \/ Put(q) \/ RankFails(q) \/ Timeout(q)
  \/ \E k \in Clicks \cup {NoClick} : Forget(k)

FeedNext ==
  /\ (Next /\ UNCHANGED feedVars) \/ FeedStep
  /\ missed' = missed \cup excused'
FeedSpec == FeedInit /\ [][FeedNext]_allVars
---------------------------------------------------------------------------
(* Properties *)

Listed(q) == answer[q] \notin {NoList, Fallback}

\* Every variable keeps its shape, and a request that is over has its answer.
FeedTypeOK ==
  /\ \A q \in Feeds : f_step[q] = "done" => answer[q] # NoList
  /\ f_step \in [Feeds -> {"idle", "submitted", "profile", "recent", "exclusion", "ranked", "done"}]
  /\ now \in [Feeds -> Nat] /\ arrived \in [Feeds -> SUBSET Clicks]
  /\ key \in [Feeds -> Clicks \cup {NoClick}]
  /\ work \in [Feeds -> Lists]
  /\ answer \in [Feeds -> Lists \cup {NoList, Fallback}]
  /\ cache \in [Clicks \cup {NoClick} -> Lists \cup {NoList}]
  /\ missed \subseteq Clicks

\* The newsletter of the newest click that was stored when the request came
\* in is not in the list any more, cached or not; and the click counts in the
\* profile the list was ranked with, unless its update was missed.  (And the
\* types hold.)
NewestClickCounts ==
  /\ FeedTypeOK
  /\ \A q \in Feeds : Listed(q) /\ arrived[q] # {} =>
       LET c == Newest(arrived[q]) IN
       /\ c \in answer[q].clicked
       /\ c \in answer[q].profile \cup missed

\* Logged features were computed from clicks before the request only, also
\* when the clicks were committed in another order than they were created.
FeaturesAreOfTheirTime ==
  \A q \in Feeds : f_step[q] \in {"exclusion", "ranked"} /\ work[q].features =>
    \A c \in work[q].profile \cup work[q].recent : at[c] < now[q]

=============================================================================
