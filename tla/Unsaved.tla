------------------------------- MODULE Unsaved -------------------------------
(***************************************************************************)
(* The one judgement dl makes of its own: whether a clone is the only      *)
(* place some work exists (domain/workspace_state.rs, the questions it     *)
(* asks in clients/git.rs, the guard in lifecycle/delete_guard.rs).        *)
(*                                                                         *)
(* What a clone holds is asked of git in up to five questions, one after   *)
(* another and under no lock: the tree, the clone's tags, the cache's      *)
(* tags, the commits of every ref that no remote-tracking ref contains,    *)
(* and which of those only a local tag reaches.  The person in the clone,  *)
(* the forge and dl's own fetches go on between any two of them.           *)
(***************************************************************************)
EXTENDS Naturals, FiniteSets

CONSTANTS
    Commit,     \* the commits there may ever be
    Anc,        \* each commit's ancestors, itself among them
    Object,     \* what a tag may name: a commit, or a tag object made for one
    Of,         \* the commit of each
    Branch,     \* the names of branches, here and at the forge
    Side,       \* the refs of a clone that are no branch: its stash, worktree HEADs
    Tag,        \* the names of tags
    MaxMoves,   \* a bound: what the person, the forge and dl's fetches do
    MaxFaults   \* a bound: refusals of git, clones and caches half removed

\* What the constants have to satisfy: the modules that take instances assume it.
HistoryAssumption ==
    /\ Anc \in [Commit -> SUBSET Commit]
    /\ \A c \in Commit : c \in Anc[c]
    /\ \A c \in Commit : \A d \in Anc[c] : Anc[d] \subseteq Anc[c]
TagsAssumption == Of \in [Object -> Commit]
NamesAssumption == "none" \notin Commit \cup Object /\ Branch \cap Side = {}
BoundsAssumption == MaxMoves \in Nat /\ MaxFaults \in Nat

None == "none"
RefOr(S) == S \cup {None}
Ref  == Branch \cup Side
NoHeads == [b \in Branch |-> None]
NoRefs  == [r \in Ref |-> None]
NoTags  == [t \in Tag |-> None]

VARIABLES
    made,       \* the commits there are
    published,  \* history: the commits the forge has ever had
    forge,      \* its branches and tags
    bare,       \* the cache: whether git can read it, its branches and tags
    clone,      \* what is at the clone's path; its origin, refs, tracking refs,
                \* tags, and whether its tree has changes
    pc, my,     \* a removal: its step, and what it was told
    calm,       \* history: nobody has touched the clone since the first question
    pristine,   \* history: nobody has touched the clone since it was made
    strayed,    \* history: work was pushed into the cache
    moves, faults

world   == <<made, published, forge, bare, clone>>
history == <<calm, pristine, strayed>>
counts  == <<moves, faults>>
vars    == <<world, pc, my, history, counts>>

Removal == {"guarded", "insisted", "wedged"}
Verdict == {"nothing", "would lose", "could not tell"}
Untold  == [removal |-> "guarded", dirty |-> FALSE, here |-> NoTags, local |-> {},
            unpushed |-> {}, owed |-> {}, verdict |-> "could not tell"]
NoClone == [at |-> "none", origin |-> "forge", refs |-> NoRefs, remotes |-> NoHeads,
            tags |-> NoTags, dirty |-> FALSE]

Named(f)    == {f[x] : x \in DOMAIN f} \ {None}
Reach(S)    == UNION {Anc[c] : c \in S}
Tagged(f)   == {Of[o] : o \in Named(f)}
Held        == Reach(Named(clone.refs) \cup Tagged(clone.tags))
Known       == Held \cup Reach(Named(clone.remotes))

\* A forge with some history, of which the cache has just been made.
Init ==
    /\ published \in {S \in SUBSET Commit : S # {} /\ \A c \in S : Anc[c] \subseteq S}
    /\ made = published /\ strayed = FALSE
    /\ forge \in [heads : [Branch -> RefOr(published)],
                  tags : [Tag -> RefOr({o \in Object : Of[o] \in published})]]
    /\ bare = [ok |-> TRUE, heads |-> forge.heads, tags |-> forge.tags]
    /\ clone = NoClone
    /\ pc = "idle" /\ my = Untold /\ calm = TRUE /\ pristine = FALSE
    /\ moves = 0 /\ faults = 0

-----------------------------------------------------------------------------
(* The forge, and dl's fetches.                                            *)

Move  == moves < MaxMoves /\ moves' = moves + 1 /\ UNCHANGED faults
Fault == faults < MaxFaults /\ faults' = faults + 1

\* Somebody's commit, rewind or deletion of a branch at the forge.
ForgeMoves(b, c) ==
    /\ Move /\ c # forge.heads[b]
    /\ \/ c \in published \cup {None} /\ UNCHANGED <<made, published>>
       \/ /\ c \in Commit \ made /\ Anc[c] \ {c} \subseteq published
          /\ made' = made \cup {c} /\ published' = published \cup {c}
    /\ forge' = [forge EXCEPT !.heads[b] = c]
    /\ UNCHANGED <<bare, clone, pc, my, history>>

ForgeTags(t, o) ==
    /\ Move /\ o # forge.tags[t]
    /\ o # None => Of[o] \in published
    /\ forge' = [forge EXCEPT !.tags[t] = o]
    /\ UNCHANGED <<made, published, bare, clone, pc, my, history>>

\* fetch_all: every branch and tag, forced and pruned.
Sweep ==
    /\ bare.ok /\ Move
    /\ <<bare.heads, bare.tags>> # <<forge.heads, forge.tags>>
    /\ bare' = [bare EXCEPT !.heads = forge.heads, !.tags = forge.tags]
    /\ UNCHANGED <<made, published, forge, clone, pc, my, history>>

\* clone_from_cache, set_remote_url: the cache's branches become tracking refs and
\* its tags tags.  Killed between the two, the clone's origin is the cache.
MakeClone(b) ==
    /\ clone.at = "none" /\ pc = "idle" /\ bare.ok /\ bare.heads[b] # None
    /\ Move
    /\ \E origin \in {"forge", "cache"} :
          clone' = [at |-> "git", origin |-> origin,
                    refs |-> [NoRefs EXCEPT ![b] = bare.heads[b]],
                    remotes |-> bare.heads, tags |-> bare.tags, dirty |-> FALSE]
    /\ pristine' = TRUE
    /\ UNCHANGED <<made, published, forge, bare, pc, my, calm, strayed>>

\* A removal interrupted half way, a truncated gitfile; a cache that is no repository.
Spoil ==
    /\ Fault /\ UNCHANGED <<made, published, forge, pc, my, moves, strayed>>
    /\ \/ /\ clone.at = "git" /\ clone' = [clone EXCEPT !.at = "unreadable"]
          /\ calm' = FALSE /\ pristine' = FALSE /\ UNCHANGED bare
       \/ bare.ok /\ bare' = [bare EXCEPT !.ok = FALSE] /\ UNCHANGED <<clone, calm, pristine>>

-----------------------------------------------------------------------------
(* The person, or the agent, in the clone.                                 *)

Touch ==
    /\ clone.at = "git" /\ Move
    /\ calm' = FALSE /\ pristine' = FALSE
    /\ UNCHANGED <<pc, my>>

\* A commit on a branch, a stash, a worktree's detached HEAD.
Commits(r, c) ==
    /\ Touch /\ c \in Commit \ made /\ Anc[c] \ {c} \subseteq Known
    /\ made' = made \cup {c}
    /\ \E dirty \in {FALSE, clone.dirty} :
          clone' = [clone EXCEPT !.refs[r] = c, !.dirty = dirty]
    /\ UNCHANGED <<published, forge, bare, strayed>>

Edits ==
    /\ Touch /\ clone' = [clone EXCEPT !.dirty = ~clone.dirty]
    /\ UNCHANGED <<made, published, forge, bare, strayed>>

\* A reset, a rebase onto what is there, a branch cut or deleted, a stash dropped.
MovesRef(r, c) ==
    /\ Touch /\ c \in Known \cup {None} /\ c # clone.refs[r]
    /\ clone' = [clone EXCEPT !.refs[r] = c]
    /\ UNCHANGED <<made, published, forge, bare, strayed>>

Tags(t, o) ==
    /\ Touch /\ o # clone.tags[t] /\ (o # None => Of[o] \in Known)
    /\ clone' = [clone EXCEPT !.tags[t] = o]
    /\ UNCHANGED <<made, published, forge, bare, strayed>>

\* `git push`: the clone's tracking ref follows.
Pushes(b) ==
    /\ Touch /\ clone.refs[b] # None
    /\ clone' = [clone EXCEPT !.remotes[b] = clone.refs[b]]
    /\ IF clone.origin = "forge"
       THEN /\ forge' = [forge EXCEPT !.heads[b] = clone.refs[b]]
            /\ published' = published \cup Anc[clone.refs[b]]
            /\ UNCHANGED <<bare, strayed>>
       ELSE /\ bare.ok /\ bare' = [bare EXCEPT !.heads[b] = clone.refs[b]]
            /\ strayed' = TRUE /\ UNCHANGED <<forge, published>>
    /\ UNCHANGED made

\* `git push origin <tag>`: no ref of the clone remembers it.
PushesTag(t) ==
    /\ Touch /\ clone.tags[t] # None /\ clone.origin = "forge"
    /\ forge' = [forge EXCEPT !.tags[t] = clone.tags[t]]
    /\ published' = published \cup Anc[Of[clone.tags[t]]]
    /\ UNCHANGED <<made, bare, clone, strayed>>

\* `git fetch` in the clone: the branches there are, and the tags it has not.
Fetches ==
    /\ Touch /\ clone.origin = "forge"
    /\ clone' = [clone EXCEPT
          !.remotes = [b \in Branch |-> IF forge.heads[b] = None THEN @[b] ELSE forge.heads[b]],
          !.tags = [t \in Tag |-> IF @[t] = None THEN forge.tags[t] ELSE @[t]]]
    /\ UNCHANGED <<made, published, forge, bare, strayed>>

-----------------------------------------------------------------------------
(* read_clone, question by question, and the removal it is asked for.      *)

Go(from, to) == pc = from /\ pc' = to
Still == UNCHANGED <<world, pristine, strayed, moves>>
Answer(verdict) == my' = [my EXCEPT !.verdict = verdict]
\* A question git refuses, or one the file system does.
Refused == Fault /\ Answer("could not tell") /\ pc' = "decided"

\* `rm` and `kill` look, `rm --force` does not.  A workspace with no clone on disk
\* has nothing to lose.
BeginRemove(removal) ==
    /\ pc = "idle" /\ calm' = TRUE
    /\ IF removal = "insisted"
       THEN pc' = "removing" /\ my' = [Untold EXCEPT !.removal = removal] /\ UNCHANGED faults
       ELSE \/ /\ clone.at = "none" /\ pc' = "decided" /\ UNCHANGED faults
               /\ my' = [Untold EXCEPT !.removal = removal, !.verdict = "nothing"]
            \/ /\ clone.at # "none" /\ pc' = "status" /\ UNCHANGED faults
               /\ my' = [Untold EXCEPT !.removal = removal]
            \/ Fault /\ my' = [Untold EXCEPT !.removal = removal] /\ pc' = "decided"
    /\ Still

AskStatus ==
    /\ pc = "status" /\ Still /\ UNCHANGED calm
    /\ \/ Refused
       \/ /\ clone.at = "unreadable" /\ pc' = "decided"
          /\ Answer("could not tell") /\ UNCHANGED faults
       \/ /\ clone.at = "git" /\ pc' = "tags" /\ UNCHANGED faults
          /\ my' = [my EXCEPT !.dirty = clone.dirty]

AskTags ==
    /\ pc = "tags" /\ Still /\ UNCHANGED calm
    /\ \/ Refused
       \/ /\ clone.at # "git" /\ pc' = "decided"
          /\ Answer("could not tell") /\ UNCHANGED faults
       \/ /\ clone.at = "git" /\ UNCHANGED faults
          /\ my' = [my EXCEPT !.here = clone.tags]
          /\ pc' = IF Named(clone.tags) = {} THEN "unpushed" ELSE "vouch"

\* Mutant: a tag the cache has under that name is the remote's.
VouchedByName(fetched) == {t \in Tag : my.here[t] # None /\ fetched[t] = None}

\* vouched_for: under the same name and at the same object.
LocalTags(fetched) == {t \in Tag : my.here[t] # None /\ fetched[t] # my.here[t]}

\* A cache that refuses vouches for no tag.
AskCache ==
    /\ Go("vouch", "unpushed") /\ Still /\ UNCHANGED calm
    /\ \/ Fault /\ my' = [my EXCEPT !.local = LocalTags(NoTags)]
       \/ /\ UNCHANGED faults
          /\ my' = [my EXCEPT !.local = LocalTags(IF bare.ok THEN bare.tags ELSE NoTags)]

\* unpushed_commits: every ref but the tags, the local tags by name, less what a
\* remote-tracking ref reaches.
Unpushed(local) ==
    Reach(Named(clone.refs) \cup {Of[clone.tags[t]] : t \in local})
        \ Reach(Named(clone.remotes))

\* commits_only_tags_reach: the tags', less the remotes' and every other ref's.
OnlyTags(local) ==
    Reach({Of[clone.tags[t]] : t \in local})
        \ Reach(Named(clone.refs) \cup Named(clone.remotes))

\* A tag that has gone since it was listed is a revision git does not know.
Resolves(local) == clone.at = "git" /\ \A t \in local : clone.tags[t] # None

AskUnpushed ==
    /\ pc = "unpushed" /\ Still /\ UNCHANGED calm
    /\ \/ Refused
       \/ /\ ~Resolves(my.local) /\ pc' = "decided"
          /\ Answer("could not tell") /\ UNCHANGED faults
       \/ LET commits == Unpushed(my.local)
              losing  == my.dirty \/ commits # {}
          IN /\ Resolves(my.local) /\ UNCHANGED faults
             /\ my' = [my EXCEPT !.unpushed = commits,
                                 !.verdict = IF losing THEN "would lose" ELSE "nothing"]
             /\ pc' = IF commits # {} /\ my.local # {} THEN "owed" ELSE "decided"

\* owed_to_tags: what the sentence says of it, or the sentence without it.
AskOwed ==
    /\ Go("owed", "decided") /\ Still /\ UNCHANGED calm
    /\ \/ Fault /\ UNCHANGED my
       \/ ~Resolves(my.local) /\ UNCHANGED <<my, faults>>
       \/ Resolves(my.local) /\ my' = [my EXCEPT !.owed = OnlyTags(my.local)] /\ UNCHANGED faults

\* guard_removal: one arm is permission; `kill` says what it found and goes on.
Decide ==
    /\ pc = "decided" /\ Still /\ UNCHANGED <<my, calm, faults>>
    /\ pc' = IF my.verdict = "nothing" \/ my.removal = "wedged" THEN "removing" ELSE "idle"

\* workspace_delete: the clone's directory, once devpod has let go, or nothing.
Remove ==
    /\ Go("removing", "idle")
    /\ \/ clone' = NoClone /\ pristine' = FALSE
       \/ UNCHANGED <<clone, pristine>>
    /\ UNCHANGED <<made, published, forge, bare, my, calm, strayed, counts>>

-----------------------------------------------------------------------------
Others ==
    \/ \E b \in Branch, c \in Commit \cup {None} : ForgeMoves(b, c)
    \/ \E t \in Tag, o \in Object \cup {None} : ForgeTags(t, o)
    \/ Sweep \/ Spoil \/ Edits \/ Fetches
    \/ \E b \in Branch : MakeClone(b) \/ Pushes(b)
    \/ \E r \in Ref, c \in Commit \cup {None} : Commits(r, c) \/ MovesRef(r, c)
    \/ \E t \in Tag, o \in Object \cup {None} : Tags(t, o)
    \/ \E t \in Tag : PushesTag(t)

Removes ==
    \/ \E removal \in Removal : BeginRemove(removal)
    \/ AskStatus \/ AskTags \/ AskCache \/ AskUnpushed \/ AskOwed \/ Decide \/ Remove

Next == Others \/ Removes
Spec == Init /\ [][Next]_vars

-----------------------------------------------------------------------------
TypeOK ==
    /\ made \subseteq Commit /\ published \subseteq Commit
    /\ forge \in [heads : [Branch -> RefOr(Commit)], tags : [Tag -> RefOr(Object)]]
    /\ bare \in [ok : BOOLEAN, heads : [Branch -> RefOr(Commit)], tags : [Tag -> RefOr(Object)]]
    /\ clone \in [at : {"none", "unreadable", "git"}, origin : {"forge", "cache"},
                  refs : [Ref -> RefOr(Commit)], remotes : [Branch -> RefOr(Commit)],
                  tags : [Tag -> RefOr(Object)], dirty : BOOLEAN]
    /\ pc \in {"idle", "status", "tags", "vouch", "unpushed", "owed", "decided", "removing"}
    /\ my \in [removal : Removal, dirty : BOOLEAN, here : [Tag -> RefOr(Object)],
               local : SUBSET Tag, unpushed : SUBSET Commit, owed : SUBSET Commit,
               verdict : Verdict]
    /\ calm \in BOOLEAN /\ pristine \in BOOLEAN /\ strayed \in BOOLEAN
    /\ moves \in 0..MaxMoves /\ faults \in 0..MaxFaults

\* `rm` without --force takes no uncommitted change and no commit that the forge has
\* never had, whatever refs it is on and whatever the forge has done since, when
\* nobody touched the clone between the first question and the removal and nothing
\* was pushed into the cache in its place (unsaved, local_tags, unpushed_commits).
OnlyCopyIsKept ==
    pc = "removing" /\ my.verdict = "nothing" /\ my.removal = "guarded" /\ calm /\ ~strayed
        => ~clone.dirty /\ Held \subseteq published

\* A commit the cache can reach is one the forge has had, so that a worktree's HEAD
\* found there is somewhere else (in_the_cache, ask_elsewhere).
CacheIsPublished ==
    ~strayed => Reach(Named(bare.heads) \cup Tagged(bare.tags)) \subseteq published

\* A clone nobody has touched is refused, while git answers, only for tags the cache
\* no longer vouches for, and the refusal says so of every commit it counts: a guard
\* that fires on every clone teaches --force (unpushed_commits, devlaunch#485, #487).
UntouchedMayGo ==
    pc = "decided" /\ pristine /\ faults = 0 /\ my.verdict = "would lose"
        => ~my.dirty /\ my.local # {} /\ my.owed = my.unpushed

\* What the refusal says is owed to local tags is a share of what it counts, and is
\* reached by nothing else (ByLocalTags, commits_only_tags_reach).
OwedIsAShare ==
    pc = "decided" /\ calm
        => /\ my.owed \subseteq my.unpushed
           /\ my.owed \cap Reach(Named(clone.refs)) = {}

\* A removal that was not insisted on takes no work that exists nowhere else, by
\* whatever ref it hangs, a tag taken for the remote's among them; nobody's untouched
\* clone stops it but for its tags; and what it says is owed to tags is (read_clone,
\* unsaved, local_tags, guard_removal).
UnsavedSafe ==
    TypeOK /\ OnlyCopyIsKept /\ CacheIsPublished /\ UntouchedMayGo /\ OwedIsAShare
=============================================================================
