-------------------------- MODULE ExecutorsProofs --------------------------
(***************************************************************************)
(* Proofs about Platforms, for any number of deployments and any of the    *)
(* three targets, and then about Executors.                                *)
(***************************************************************************)
EXTENDS Executors, AgentLoopProofs, TLAPS

(* A deployment without a target has not begun; a clone needs no secret.   *)
FilesInv ==
    /\ PlatformTypeOK
    /\ FilesAreRemoved
    /\ \A r \in Run : platform[r] = "none" => ending[r] = "none" /\ command[r] = "none"
    /\ \A r \in secrets : Working(r) => command[r] # "clone"

LEMMA PlatformsStartWell == PlatformInit => FilesInv
<1> SUFFICES ASSUME PlatformInit PROVE FilesInv
  OBVIOUS
<1>1. config \in Config
  BY DEF PlatformInit, Config
<1>2. killed \in BOOLEAN
  BY DEF PlatformInit
<1>3. tries \in 0..2
  BY DEF PlatformInit
<1>4. PlatformTypeOK
  BY <1>1, <1>2, <1>3 DEF PlatformInit, PlatformTypeOK
<1> QED
  BY <1>4 DEF PlatformInit, FilesInv, FilesAreRemoved, Working

(* The place of a deployment that has begun is a place. *)
LEMMA PlaceIsPlace ==
  ASSUME PlatformTypeOK, NEW r \in Run, platform[r] # "none"
  PROVE  PlaceOf(r) \in Place
  BY DEF PlatformTypeOK, PlaceOf, Place

LEMMA WorldIsTyped ==
  ASSUME PlatformTypeOK, NEW r \in Run, platform[r] # "none", WorksOrNot(r)
  PROVE  created' \in SUBSET Run /\ serves' \in [Place -> Run \cup {0}]
  BY PlaceIsPlace DEF PlatformTypeOK, WorksOrNot, Works, worldVars

LEMMA StartedKeeps ==
  ASSUME FilesInv, NEW r \in Run, NEW t \in Platform, Begin(r, t) \/ Unfit(r, t)
  PROVE  FilesInv'
<1>1. /\ t # "none" /\ t \in Platform
      /\ platform' = [platform EXCEPT ![r] = t]
      /\ UNCHANGED <<killed, tries, secrets, orphans, worldVars>>
      /\ platform[r] = "none" /\ ending[r] = "none"
      /\ PlatformTypeOK
      /\ r \notin secrets
  BY PlatformAssumption DEF FilesInv, Begin, Unfit, Started, FilesAreRemoved, Working
<1>2. config' \in Config
  BY <1>1 DEF Begin, Unfit, Started, Config, Place, PlatformTypeOK
<1>3. config'.railway \in Run \cup {0}
  BY <1>2 DEF Config, Place
<1>4. CASE Begin(r, t)
  <2>1. /\ command' = [command EXCEPT ![r] = "clone"]
        /\ railway' = [railway EXCEPT ![r] = config'.railway]
        /\ dirs' = dirs \cup {r}
        /\ UNCHANGED ending
    BY <1>4 DEF Begin
  <2>2. PlatformTypeOK'
    BY <1>1, <1>2, <1>3, <2>1 DEF PlatformTypeOK, worldVars, Cli
  <2> QED
    BY <1>1, <2>1, <2>2 DEF FilesInv, FilesAreRemoved, Working, PlatformTypeOK
<1>5. CASE Unfit(r, t)
  <2>1. /\ ending' = [ending EXCEPT ![r] = "error"]
        /\ UNCHANGED <<command, railway, dirs>>
        /\ r \notin dirs
    BY <1>1, <1>5 DEF Unfit, FilesInv, FilesAreRemoved, Working
  <2>2. PlatformTypeOK'
    BY <1>1, <1>2, <2>1 DEF PlatformTypeOK, worldVars
  <2> QED
    BY <1>1, <2>1, <2>2 DEF FilesInv, FilesAreRemoved, Working, PlatformTypeOK
<1> QED
  BY <1>4, <1>5

(* Steps of a deployment that goes on. *)
LEMMA GoingOnKeeps ==
  ASSUME FilesInv, NEW r \in Run,
         Advance(r) \/ ListsDomains(r) \/ PagesBusy(r) \/ Kill(r)
  PROVE  FilesInv'
<1>1. Working(r) /\ PlatformTypeOK /\ UNCHANGED <<platform, ending, dirs, orphans, config>>
  BY DEF FilesInv, Advance, ListsDomains, PagesBusy, Kill, filesVars
<1>2. created' \in SUBSET Run /\ serves' \in [Place -> Run \cup {0}]
  BY <1>1, WorldIsTyped DEF Advance, ListsDomains, PagesBusy, Kill, worldVars, WorksOrNot,
     Working, PlatformTypeOK
<1>3. /\ command' \in [Run -> Cli \cup Request \cup {"none"}]
      /\ \A q \in Run \ {r} : command'[q] = command[q]
      /\ command[r] # "clone" => command'[r] # "clone"
      /\ r \in secrets' => r \in secrets \/ command'[r] # "clone"
      /\ secrets' \subseteq secrets \cup {r}
      /\ killed' \in BOOLEAN /\ tries' \in 0..2
      /\ railway' \in [Run -> Run \cup {0}]
  <2>1. CASE Advance(r)
    <3>1. PICK next \in Cli \cup Request :
             /\ Follows(r, next)
             /\ command' = [command EXCEPT ![r] = next]
             /\ secrets' = IF NeedsSecret(r, next) THEN secrets \cup {r} ELSE secrets
      BY <2>1 DEF Advance
    <3>2. next # "clone"
      BY <3>1 DEF Follows
    <3>3. killed' = killed /\ tries' = 0
          /\ railway' = IF command[r] = "init" THEN [railway EXCEPT ![r] = r] ELSE railway
      BY <2>1 DEF Advance
    <3> QED
      BY <1>1, <3>1, <3>2, <3>3 DEF PlatformTypeOK
  <2>2. CASE ListsDomains(r)
    BY <1>1, <2>2 DEF ListsDomains, PlatformTypeOK, filesVars, Cli
  <2>3. CASE PagesBusy(r)
    BY <1>1, <2>3 DEF PagesBusy, PlatformTypeOK, filesVars
  <2>4. CASE Kill(r)
    BY <1>1, <2>4 DEF Kill, PlatformTypeOK, filesVars
  <2> QED
    BY <2>1, <2>2, <2>3, <2>4
<1>4. PlatformTypeOK'
  BY <1>1, <1>2, <1>3 DEF PlatformTypeOK
<1>5. \A q \in Run : Working(q)' <=> Working(q)
  BY <1>1 DEF Working
<1>6. FilesAreRemoved'
  BY <1>1, <1>3, <1>5 DEF FilesAreRemoved, FilesInv, PlatformTypeOK, Working
<1>7. \A q \in Run : platform'[q] = "none" => ending'[q] = "none" /\ command'[q] = "none"
  BY <1>1, <1>3 DEF FilesInv, Working
<1>8. \A q \in secrets' : Working(q)' => command'[q] # "clone"
  BY <1>1, <1>3, <1>5 DEF FilesInv, PlatformTypeOK
<1> QED
  BY <1>4, <1>6, <1>7, <1>8 DEF FilesInv

(* Steps that end a deployment. *)
LEMMA EndingKeeps ==
  ASSUME FilesInv, NEW r \in Run,
         Succeeds(r) \/ Fails(r) \/ Drained(r) \/ Cancel(r) \/ PlatformRestart(r)
  PROVE  FilesInv'
<1>1. PICK how \in {"ok", "error", "timeout", "cancelled", "lost"} :
         /\ Ended(r, how)
         /\ \/ Removes(r)
            \/ how = "timeout" /\ command[r] = "clone" /\ UNCHANGED <<dirs, secrets>>
            \/ /\ how = "cancelled" /\ command[r] \in {"clone", "build"}
               /\ secrets' = secrets \ {r} /\ UNCHANGED dirs
            \/ how = "lost" /\ UNCHANGED <<dirs, secrets>>
  <2>1. CASE Succeeds(r)
    BY <2>1 DEF Succeeds
  <2>2. CASE Fails(r)
    BY <2>2 DEF Fails
  <2>3. CASE Drained(r)
    BY <2>3 DEF Drained
  <2>4. CASE Cancel(r)
    BY <2>4 DEF Cancel
  <2>5. CASE PlatformRestart(r)
    BY <2>5 DEF PlatformRestart
  <2> QED
    BY <2>1, <2>2, <2>3, <2>4, <2>5
<1>2. /\ Working(r) /\ PlatformTypeOK
      /\ ending' = [ending EXCEPT ![r] = how]
      /\ command' = IF how \in {"ok", "error"} THEN [command EXCEPT ![r] = "none"] ELSE command
      /\ killed' = FALSE /\ tries' = 0
      /\ UNCHANGED <<platform, railway>>
  BY <1>1 DEF Ended, FilesInv
<1>3. created' \in SUBSET Run /\ serves' \in [Place -> Run \cup {0}]
  BY <1>2, WorldIsTyped DEF Succeeds, Fails, Drained, Cancel, PlatformRestart, WorksOrNot,
     worldVars, Working, PlatformTypeOK
<1>4. config' \in Config
  BY <1>2, PlaceIsPlace DEF Succeeds, Fails, Drained, Cancel, PlatformRestart, ConfigAfter,
     Config, Working, PlatformTypeOK
<1>5. orphans' \in SUBSET Run
  BY <1>2 DEF Succeeds, Fails, Drained, Cancel, PlatformRestart, Abandoned, PlatformTypeOK
<1>6. dirs' \in SUBSET Run /\ secrets' \in SUBSET Run /\ dirs' \subseteq dirs
      /\ secrets' \subseteq secrets
  BY <1>1, <1>2 DEF Removes, PlatformTypeOK
<1>7. PlatformTypeOK'
  <2>1. command' \in [Run -> Cli \cup Request \cup {"none"}]
    BY <1>2 DEF PlatformTypeOK
  <2>2. ending' \in [Run -> {"none", "ok", "error", "timeout", "cancelled", "lost"}]
    BY <1>2 DEF PlatformTypeOK
  <2>3. killed' \in BOOLEAN
    BY <1>2
  <2>4. tries' \in 0..2
    BY <1>2
  <2> QED
    BY <1>2, <1>3, <1>4, <1>5, <1>6, <2>1, <2>2, <2>3, <2>4 DEF PlatformTypeOK
<1>8. \A q \in Run \ {r} : (Working(q)' <=> Working(q)) /\ ending'[q] = ending[q]
                           /\ command'[q] = command[q]
  BY <1>2 DEF Working, PlatformTypeOK
<1>9. r \in secrets' => how = "lost"
  <2>1. command[r] = "clone" => r \notin secrets
    BY <1>2 DEF FilesInv
  <2> QED
    BY <1>1, <2>1 DEF Removes
<1>10. r \in dirs' => \/ how = "lost"
                      \/ how = "timeout" /\ command'[r] = "clone"
                      \/ how = "cancelled" /\ command'[r] \in {"clone", "build"}
  BY <1>1, <1>2 DEF Removes
<1>11. ending'[r] = how /\ ~Working(r)'
  BY <1>2 DEF PlatformTypeOK, Working
<1>12. FilesAreRemoved'
  BY <1>6, <1>8, <1>9, <1>10, <1>11 DEF FilesAreRemoved, FilesInv, PlatformTypeOK
<1>13. \A q \in Run : platform'[q] = "none" => ending'[q] = "none" /\ command'[q] = "none"
  BY <1>2, <1>8 DEF FilesInv, Working
<1>14. \A q \in secrets' : Working(q)' => command'[q] # "clone"
  BY <1>6, <1>8, <1>11 DEF FilesInv, PlatformTypeOK
<1> QED
  BY <1>7, <1>12, <1>13, <1>14 DEF FilesInv

LEMMA OrphanKeeps ==
  ASSUME FilesInv, NEW r \in Run, OrphanEnds(r)
  PROVE  FilesInv'
<1>1. /\ UNCHANGED <<platform, command, ending, killed, tries, railway, dirs, secrets, config>>
      /\ orphans' = orphans \ {r} /\ WorksOrNot(r) /\ PlatformTypeOK
  BY DEF OrphanEnds, FilesInv
<1>2. created' \in SUBSET Run /\ serves' \in [Place -> Run \cup {0}]
  <2>1. CASE platform[r] = "none"
    <3>1. command[r] = "none"
      BY <2>1 DEF FilesInv
    <3> QED
      BY <1>1, <3>1 DEF WorksOrNot, Works, worldVars, Publishing, PlatformTypeOK
  <2>2. CASE platform[r] # "none"
    BY <1>1, <2>2, WorldIsTyped
  <2> QED
    BY <2>1, <2>2
<1>3. PlatformTypeOK'
  BY <1>1, <1>2 DEF PlatformTypeOK
<1> QED
  BY <1>1, <1>3 DEF FilesInv, FilesAreRemoved, Working

LEMMA FilesStep == FilesInv /\ [PlatformNext]_platformVars => FilesInv'
<1> SUFFICES ASSUME FilesInv, [PlatformNext]_platformVars PROVE FilesInv'
  OBVIOUS
<1>1. CASE UNCHANGED platformVars
  BY <1>1 DEF platformVars, FilesInv, PlatformTypeOK, FilesAreRemoved, Working
<1>2. CASE PlatformNext
  <2> PICK r \in Run :
        \/ \E t \in Platform : Begin(r, t) \/ Unfit(r, t)
        \/ Responds(r) \/ DomainTimesOut(r) \/ Drained(r) \/ Cancel(r)
        \/ OrphanEnds(r) \/ PlatformRestart(r)
    BY <1>2 DEF PlatformNext
  <2>1. ASSUME NEW t \in Platform, Begin(r, t) \/ Unfit(r, t) PROVE FilesInv'
    BY <2>1, StartedKeeps
  <2>2. CASE Advance(r) \/ DomainExists(r) \/ DomainTimesOut(r) \/ PagesBusy(r) \/ Kill(r)
    BY <2>2, GoingOnKeeps DEF DomainExists, DomainTimesOut
  <2>3. CASE Succeeds(r) \/ Fails(r) \/ Drained(r) \/ Cancel(r) \/ PlatformRestart(r)
    BY <2>3, EndingKeeps
  <2>4. CASE OrphanEnds(r)
    BY <2>4, OrphanKeeps
  <2> QED
    BY <2>1, <2>2, <2>3, <2>4 DEF Responds
<1> QED
  BY <1>1, <1>2

(* However deployments to the platforms overlap with the commands of those *)
(* that were cancelled, no credentials stay on this machine but what a     *)
(* dying process leaves, and no directory but those of clones and builds   *)
(* that were cut short.                                                    *)
THEOREM FilesAreRemovedAlways == PlatformSafety => []FilesAreRemoved
<1>1. PlatformInit => FilesInv
  BY PlatformsStartWell
<1>2. FilesInv /\ [PlatformNext]_platformVars => FilesInv'
  BY FilesStep
<1>3. FilesInv => FilesAreRemoved
  BY DEF FilesInv
<1> QED
  BY <1>1, <1>2, <1>3, PTL DEF PlatformSafety
----------------------------------------------------------------------------
(* Once one of these is waited for, the deployment has been published. *)
Published == {"domain", "domain_list", "pages_get", "pages_put", "pages_url"}

Shows(r) ==
    LET q == serves[PlaceOf(r)] IN
    q # 0 /\ (q < r => CutShort(q) /\ command[q] \in Publishing)

(* What SuccessIsServedHere rests on: deployments come one after the       *)
(* other, what goes on without one was cut short, and a Railway project    *)
(* that has a number has been created.                                     *)
InTurn ==
    \A p, q \in Run : p < q /\ platform[q] # "none" => platform[p] # "none" /\ ~Working(p)

PlacesInv ==
    /\ FilesInv
    /\ InTurn
    /\ \A r \in orphans : CutShort(r)
    /\ config.railway # 0 => config.railway \in created
    /\ \A r \in Run : railway[r] # 0 => railway[r] \in created
    /\ \A r \in Run : Working(r) /\ platform[r] = "railway" /\ command[r] \notin {"clone", "init"}
                   => railway[r] # 0
    /\ \A r \in Run : Working(r) /\ command[r] \in Published => Shows(r)
    /\ SuccessIsServedHere

LEMMA PlacesStartWell == PlatformInit => PlacesInv
<1> SUFFICES ASSUME PlatformInit PROVE PlacesInv
  OBVIOUS
<1>1. FilesInv
  BY PlatformsStartWell
<1> QED
  BY <1>1 DEF PlatformInit, PlacesInv, InTurn, Working, SuccessIsServedHere

(* A command changes only what is served at the place of its deployment. *)
LEMMA WorldGrows ==
  ASSUME FilesInv, NEW r \in Run, WorksOrNot(r)
  PROVE  /\ created \subseteq created'
         /\ created' \subseteq created \cup {r}
         /\ r \in created' => r \in created \/ command[r] = "init"
         /\ \A x \in Place :
                serves'[x] = serves[x] \/ (serves'[x] = r /\ command[r] \in Publishing)
         /\ Works(r) /\ command[r] \in Publishing => serves'[PlaceOf(r)] = r
<1>1. PlatformTypeOK /\ (command[r] \in Publishing => PlaceOf(r) \in Place)
  <2>1. command[r] \in Publishing => platform[r] # "none"
    BY DEF FilesInv, Publishing
  <2> QED
    BY <2>1, PlaceIsPlace DEF FilesInv
<1>2. serves \in [Place -> Run \cup {0}]
  BY <1>1 DEF PlatformTypeOK
<1>3. CASE Works(r) /\ command[r] \in Publishing
  <2>1. serves' = [serves EXCEPT ![PlaceOf(r)] = r] /\ created' = created
    BY <1>3 DEF Works, Publishing
  <2> QED
    BY <1>1, <1>2, <1>3, <2>1
<1>4. CASE Works(r) /\ command[r] \notin Publishing
  BY <1>4 DEF Works
<1>5. CASE UNCHANGED worldVars /\ ~Works(r)
  BY <1>5 DEF worldVars
<1> QED
  BY <1>3, <1>4, <1>5 DEF WorksOrNot

(* What has been shown stays shown, or is replaced by something as good. *)
LEMMA ShowsStays ==
  ASSUME FilesInv, NEW r \in Run, platform[r] # "none", Shows(r), NEW w \in Run,
         platform'[r] = platform[r], railway'[r] = railway[r],
         \A x \in Place : serves'[x] = serves[x] \/ serves'[x] = w,
         \A q \in Run : CutShort(q) => CutShort(q)' /\ command'[q] = command[q],
         (w < r /\ serves'[PlaceOf(r)] = w)
             => CutShort(w)' /\ command'[w] \in Publishing
  PROVE  Shows(r)'
<1>1. PlaceOf(r) \in Place /\ PlaceOf(r)' = PlaceOf(r)
  BY PlaceIsPlace DEF FilesInv, PlaceOf
<1>2. serves[PlaceOf(r)] \in Run \cup {0} /\ 0 \notin Run
  BY <1>1, PlatformAssumption DEF FilesInv, PlatformTypeOK, Run
<1>3. CASE serves'[PlaceOf(r)] = serves[PlaceOf(r)]
  <2>1. PICK q \in Run \cup {0} : q = serves[PlaceOf(r)] /\ q = (serves[PlaceOf(r)])'
    BY <1>1, <1>2, <1>3
  <2>2. q # 0 /\ (q < r => CutShort(q) /\ command[q] \in Publishing)
    BY <2>1 DEF Shows
  <2>3. q < r => CutShort(q)' /\ command'[q] \in Publishing
    BY <2>2
  <2> QED
    BY <2>1, <2>2, <2>3 DEF Shows
<1>4. CASE serves'[PlaceOf(r)] = w
  BY <1>1, <1>2, <1>4 DEF Shows
<1> QED
  BY <1>1, <1>3, <1>4

(* No two deployments are at work. *)
LEMMA OneWorks ==
  ASSUME PlacesInv, NEW p \in Run, NEW q \in Run, Working(p), Working(q)
  PROVE  p = q
<1>1. platform[p] # "none" /\ platform[q] # "none" /\ p \in Nat /\ q \in Nat
  BY PlatformAssumption DEF Working, Run
<1> QED
  BY <1>1 DEF PlacesInv, InTurn

(* Every deployment that succeeded still shows when deployment w, which is *)
(* at work, or an orphan, has changed the world.                           *)
LEMMA SuccessesStay ==
  ASSUME PlacesInv, NEW r \in Run, ending[r] = "ok", platform[r] # "none", NEW w \in Run,
         Working(w) \/ (w \in orphans /\ UNCHANGED <<ending, command>>),
         WorksOrNot(w), UNCHANGED platform, railway'[r] = railway[r],
         \A q \in Run : CutShort(q) => CutShort(q)' /\ command'[q] = command[q]
  PROVE  Shows(r)' /\ (platform'[r] = "railway" => railway'[r] \in created')
<1>1. /\ created \subseteq created'
      /\ \A x \in Place :
             serves'[x] = serves[x] \/ (serves'[x] = w /\ command[w] \in Publishing)
  BY WorldGrows DEF PlacesInv
<1>2. Shows(r) /\ (platform[r] = "railway" => railway[r] \in created)
  BY DEF PlacesInv, SuccessIsServedHere, Shows
<1>3. PlaceOf(r) \in Place /\ PlaceOf(r)' = PlaceOf(r)
  BY PlaceIsPlace DEF PlacesInv, FilesInv, PlaceOf
<1>4. CASE Working(w)
  <2>1. ~(w < r)
    BY <1>4 DEF PlacesInv, InTurn
  <2> QED
    BY <1>1, <1>2, <2>1, ShowsStays DEF PlacesInv
<1>5. CASE w \in orphans /\ UNCHANGED <<ending, command>> /\ command[w] \in Publishing
  <2>1. CutShort(w)' /\ command'[w] \in Publishing
    BY <1>5 DEF PlacesInv, CutShort
  <2> QED
    BY <1>1, <1>2, <2>1, ShowsStays DEF PlacesInv
<1>6. CASE w \in orphans /\ UNCHANGED <<ending, command>> /\ command[w] \notin Publishing
  <2>1. serves'[PlaceOf(r)] = serves[PlaceOf(r)]
    BY <1>1, <1>3, <1>6
  <2>2. Shows(r)'
    BY <1>2, <1>3, <1>6, <2>1 DEF Shows, CutShort
  <2> QED
    BY <1>1, <1>2, <2>2
<1> QED
  BY <1>4, <1>5, <1>6

LEMMA StartedKeepsPlaces ==
  ASSUME PlacesInv, NEW r \in Run, NEW t \in Platform, Begin(r, t) \/ Unfit(r, t)
  PROVE  PlacesInv'
<1>1. FilesInv'
  BY StartedKeeps DEF PlacesInv
<1>2. /\ platform' = [platform EXCEPT ![r] = t]
      /\ UNCHANGED <<orphans, created, serves>>
      /\ platform[r] = "none" /\ ending[r] = "none" /\ t # "none"
      /\ \A q \in Run : ~Working(q) /\ (q < r => platform[q] # "none")
      /\ PlatformTypeOK
      /\ config'.railway # 0 => config'.railway \in created
  BY PlatformAssumption DEF Begin, Unfit, Started, PlacesInv, FilesInv, worldVars
<1>3. /\ \A q \in Run \ {r} : /\ platform'[q] = platform[q] /\ ending'[q] = ending[q]
                              /\ command'[q] = command[q] /\ railway'[q] = railway[q]
      /\ platform'[r] = t /\ ending'[r] \in {"none", "error"}
      /\ ending'[r] = "none" => command'[r] = "clone"
      /\ railway'[r] \in {railway[r], config'.railway}
  BY <1>2 DEF Begin, Unfit, PlatformTypeOK
<1>4. InTurn'
  <2> SUFFICES ASSUME NEW p \in Run, NEW q \in Run, p < q, platform'[q] # "none"
               PROVE  platform'[p] # "none" /\ ~Working(p)'
    BY DEF InTurn
  <2>1. p # r
    <3>1. q # r => platform[q] # "none" /\ (p = r => platform[r] # "none")
      BY <1>3 DEF PlacesInv, InTurn
    <3> QED
      BY <1>2, <3>1 DEF Run
  <2>2. ~Working(p)'
    BY <1>2, <1>3, <2>1 DEF Working
  <2>3. q = r => platform[p] # "none"
    BY <1>2
  <2>4. q # r => platform[p] # "none"
    BY <1>3 DEF PlacesInv, InTurn
  <2> QED
    BY <1>2, <1>3, <2>1, <2>2, <2>3, <2>4
<1>5. \A q \in Run : CutShort(q) => CutShort(q)' /\ command'[q] = command[q] /\ q # r
  BY <1>2, <1>3 DEF CutShort
<1>6. \A o \in orphans' : CutShort(o)'
  BY <1>2, <1>5 DEF PlacesInv, FilesInv, PlatformTypeOK
<1>7. \A q \in Run : Working(q)' => q = r /\ command'[q] = "clone"
  BY <1>2, <1>3 DEF Working
<1>8. \A q \in Run : railway'[q] # 0 => railway'[q] \in created'
  BY <1>2, <1>3 DEF PlacesInv
<1>9. SuccessIsServedHere'
  <2> SUFFICES ASSUME NEW q \in Run, ending'[q] = "ok"
               PROVE  Shows(q)' /\ (platform'[q] = "railway" => railway'[q] \in created')
    BY DEF SuccessIsServedHere, Shows
  <2>1. q # r /\ ending[q] = "ok"
    BY <1>3
  <2>2. platform[q] # "none"
    BY <2>1 DEF PlacesInv, FilesInv
  <2>3. Shows(q) /\ (platform[q] = "railway" => railway[q] \in created)
    BY <2>1 DEF PlacesInv, SuccessIsServedHere, Shows
  <2>4. Shows(q)'
    BY <1>2, <1>3, <1>5, <2>1, <2>2, <2>3, ShowsStays, PlaceIsPlace DEF PlacesInv, FilesInv
  <2> QED
    BY <1>2, <1>3, <2>1, <2>3, <2>4
<1>10. \A q \in Run : Working(q)' => command'[q] \notin Published
  BY <1>7 DEF Published
<1> QED
  BY <1>1, <1>2, <1>4, <1>6, <1>7, <1>8, <1>9, <1>10 DEF PlacesInv

LEMMA GoingOnKeepsPlaces ==
  ASSUME PlacesInv, NEW w \in Run,
         Advance(w) \/ ListsDomains(w) \/ PagesBusy(w) \/ Kill(w)
  PROVE  PlacesInv'
<1>1. FilesInv'
  BY GoingOnKeeps DEF PlacesInv
<1>2. /\ Working(w) /\ UNCHANGED <<platform, ending, orphans, config>> /\ WorksOrNot(w)
      /\ PlatformTypeOK
  BY DEF Advance, ListsDomains, PagesBusy, Kill, filesVars, WorksOrNot, worldVars, PlacesInv,
     FilesInv
<1>3. \A q \in Run : Working(q)' => q = w
  BY <1>2, OneWorks DEF Working
<1>4. platform[w] # "none" /\ platform[w] \in Platform /\ PlaceOf(w) \in Place
  BY <1>2, PlaceIsPlace DEF Working, PlatformTypeOK
<1>5. /\ created \subseteq created'
      /\ \A x \in Place :
             serves'[x] = serves[x] \/ (serves'[x] = w /\ command[w] \in Publishing)
      /\ Works(w) /\ command[w] \in Publishing => serves'[PlaceOf(w)] = w
  BY <1>2, WorldGrows DEF PlacesInv
<1>6. \A q \in Run \ {w} : railway'[q] = railway[q] /\ command'[q] = command[q]
  BY <1>2 DEF Advance, ListsDomains, PagesBusy, Kill, PlatformTypeOK
<1>7. \/ railway'[w] = railway[w]
      \/ railway'[w] = w /\ w \in created' /\ w # 0 /\ command[w] = "init"
  BY <1>2, PlatformAssumption DEF Advance, ListsDomains, PagesBusy, Kill, PlatformTypeOK, Works, Run
<1>8. InTurn' /\ \A q \in Run : CutShort(q) => CutShort(q)' /\ command'[q] = command[q]
  <2>1. \A q \in Run : CutShort(q) => CutShort(q)' /\ q # w
    BY <1>2 DEF CutShort, Working
  <2> QED
    BY <1>2, <1>6, <2>1 DEF PlacesInv, InTurn, Working
<1>9. platform'[w] = "railway" /\ command'[w] \notin {"clone", "init"} => railway'[w] # 0
  <2> SUFFICES ASSUME platform[w] = "railway", command'[w] \notin {"clone", "init"}
               PROVE  railway'[w] # 0
    BY <1>2
  <2>1. CASE command[w] \notin {"clone", "init"}
    BY <1>2, <1>7, <2>1 DEF PlacesInv
  <2>2. CASE command[w] = "clone"
    BY <1>2, <1>7, <2>2 DEF Advance, Follows, ListsDomains, PagesBusy, Kill, PlatformTypeOK
  <2>3. CASE command[w] = "init"
    <3>1. Advance(w)
      BY <2>3 DEF ListsDomains, PagesBusy, Kill
    <3> QED
      BY <1>2, <2>3, <3>1, PlatformAssumption DEF Advance, PlatformTypeOK, Run
  <2> QED
    BY <2>1, <2>2, <2>3
<1>10. command'[w] \in Published => Shows(w)'
  <2> SUFFICES ASSUME command'[w] \in Published PROVE Shows(w)'
    OBVIOUS
  <2>1. CASE command[w] \in Published
    <3>1. Shows(w) /\ railway'[w] = railway[w]
      BY <1>2, <1>7, <2>1 DEF PlacesInv, Published
    <3>2. ~(w < w) /\ platform'[w] = platform[w] /\ FilesInv
      BY <1>2 DEF Run, PlacesInv
    <3>3. \A x \in Place : serves'[x] = serves[x] \/ serves'[x] = w
      BY <1>5
    <3> QED
      BY <1>4, <1>8, <3>1, <3>2, <3>3, ShowsStays
  <2>2. CASE command[w] \notin Published
    <3>1. Works(w) /\ command[w] \in Publishing
      <4>1. Advance(w)
        BY <1>2, <2>2 DEF ListsDomains, PagesBusy, Kill, Published
      <4>2. PICK next \in Cli \cup Request :
              Follows(w, next) /\ command' = [command EXCEPT ![w] = next]
        BY <4>1 DEF Advance
      <4>3. next \in Published
        BY <1>2, <4>2 DEF PlatformTypeOK
      <4>4. command[w] \in {"up", "push"}
        BY <2>2, <4>2, <4>3 DEF Follows, Published
      <4> QED
        BY <4>1, <4>4 DEF Advance, Publishing
    <3>2. serves'[PlaceOf(w)] = w /\ PlaceOf(w)' = PlaceOf(w)
      BY <1>2, <1>5, <1>7, <3>1 DEF PlaceOf, Publishing
    <3> QED
      BY <3>2, PlatformAssumption DEF Shows, Run
  <2> QED
    BY <2>1, <2>2
<1>11. \A q \in Run : railway'[q] # 0 => railway'[q] \in created'
  BY <1>5, <1>6, <1>7 DEF PlacesInv
<1>12. SuccessIsServedHere'
  <2> SUFFICES ASSUME NEW q \in Run, ending'[q] = "ok"
               PROVE  Shows(q)' /\ (platform'[q] = "railway" => railway'[q] \in created')
    BY DEF SuccessIsServedHere, Shows
  <2>1. ending[q] = "ok" /\ q # w /\ platform[q] # "none"
    BY <1>2 DEF Working, PlacesInv, FilesInv
  <2>2. UNCHANGED platform /\ railway'[q] = railway[q]
    BY <1>2, <1>6, <2>1
  <2> QED
    BY <1>2, <1>8, <2>1, <2>2, SuccessesStay
<1>13. (\A o \in orphans' : CutShort(o)') /\ (config'.railway # 0 => config'.railway \in created')
  BY <1>2, <1>5 DEF PlacesInv, CutShort
<1> QED
  BY <1>1, <1>3, <1>8, <1>9, <1>10, <1>11, <1>12, <1>13 DEF PlacesInv

LEMMA EndingKeepsPlaces ==
  ASSUME PlacesInv, NEW w \in Run,
         Succeeds(w) \/ Fails(w) \/ Drained(w) \/ Cancel(w) \/ PlatformRestart(w)
  PROVE  PlacesInv'
<1>1. FilesInv'
  BY EndingKeeps DEF PlacesInv
<1>2. PICK how \in {"ok", "error", "timeout", "cancelled", "lost"} :
         /\ Ended(w, how)
         /\ WorksOrNot(w)
         /\ how = "ok" => Succeeds(w)
         /\ how # "ok" => config' = config
         /\ orphans' \subseteq orphans \cup (IF how \in {"cancelled", "lost"} THEN {w} ELSE {})
  <2>1. CASE Succeeds(w)
    BY <2>1 DEF Succeeds, WorksOrNot
  <2>2. CASE Fails(w)
    BY <2>2 DEF Fails
  <2>3. CASE Drained(w)
    BY <2>3 DEF Drained, WorksOrNot
  <2>4. CASE Cancel(w)
    BY <2>4 DEF Cancel, WorksOrNot, Abandoned
  <2>5. CASE PlatformRestart(w)
    BY <2>5 DEF PlatformRestart, WorksOrNot, Abandoned
  <2> QED
    BY <2>1, <2>2, <2>3, <2>4, <2>5
<1>3. /\ Working(w) /\ PlatformTypeOK
      /\ ending' = [ending EXCEPT ![w] = how]
      /\ command' = IF how \in {"ok", "error"} THEN [command EXCEPT ![w] = "none"] ELSE command
      /\ UNCHANGED <<platform, railway>>
  BY <1>2 DEF Ended, PlacesInv, FilesInv
<1>4. platform[w] # "none" /\ platform[w] \in Platform /\ PlaceOf(w) \in Place
  BY <1>3, PlaceIsPlace DEF Working, PlatformTypeOK
<1>5. /\ created \subseteq created'
      /\ \A x \in Place :
             serves'[x] = serves[x] \/ (serves'[x] = w /\ command[w] \in Publishing)
      /\ Works(w) /\ command[w] \in Publishing => serves'[PlaceOf(w)] = w
  BY <1>2, WorldGrows DEF PlacesInv
<1>6. \A q \in Run \ {w} : ending'[q] = ending[q] /\ command'[q] = command[q]
  BY <1>3 DEF PlatformTypeOK
<1>7. ending'[w] = how
  BY <1>3 DEF PlatformTypeOK
<1>8. \A q \in Run : ~Working(q)'
  BY <1>3, <1>6, <1>7, OneWorks DEF Working
<1>9. \A q \in Run : CutShort(q) => CutShort(q)' /\ command'[q] = command[q] /\ q # w
  BY <1>3, <1>6 DEF CutShort, Working
<1>10. InTurn'
  BY <1>3, <1>8 DEF PlacesInv, InTurn
<1>11. \A o \in orphans' : CutShort(o)'
  BY <1>2, <1>7, <1>9 DEF PlacesInv, CutShort, FilesInv, PlatformTypeOK
<1>12. how = "ok" /\ platform[w] = "railway" => railway[w] # 0
  BY <1>2, <1>3 DEF Succeeds, PlacesInv
<1>13. \A q \in Run : railway'[q] # 0 => railway'[q] \in created'
  BY <1>3, <1>5 DEF PlacesInv
<1>14. config'.railway # 0 => config'.railway \in created'
  <2>1. CASE how = "ok"
    BY <1>2, <1>3, <1>13, <2>1 DEF Succeeds, ConfigAfter, PlaceOf
  <2>2. CASE how # "ok"
    BY <1>2, <1>5, <2>2 DEF PlacesInv
  <2> QED
    BY <2>1, <2>2
<1>15. how = "ok" => Shows(w)'
  <2> SUFFICES ASSUME how = "ok" PROVE Shows(w)'
    OBVIOUS
  <2>1. Works(w) /\ command[w] \in {"domain", "domain_list", "firebase_deploy", "pages_url"}
    BY <1>2 DEF Succeeds
  <2>2. CASE command[w] = "firebase_deploy"
    <3>1. serves'[PlaceOf(w)] = w /\ PlaceOf(w)' = PlaceOf(w)
      BY <1>3, <1>5, <2>1, <2>2 DEF PlaceOf, Publishing
    <3> QED
      BY <3>1, PlatformAssumption DEF Shows, Run
  <2>3. CASE command[w] # "firebase_deploy"
    <3>1. Shows(w)
      BY <1>3, <2>1, <2>3 DEF PlacesInv, Published
    <3>2. ~(w < w) /\ platform'[w] = platform[w] /\ railway'[w] = railway[w] /\ FilesInv
      BY <1>3 DEF Run, PlacesInv
    <3>3. \A x \in Place : serves'[x] = serves[x] \/ serves'[x] = w
      BY <1>5
    <3> QED
      BY <1>4, <1>9, <3>1, <3>2, <3>3, ShowsStays
  <2> QED
    BY <2>2, <2>3
<1>16. SuccessIsServedHere'
  <2> SUFFICES ASSUME NEW q \in Run, ending'[q] = "ok"
               PROVE  Shows(q)' /\ (platform'[q] = "railway" => railway'[q] \in created')
    BY DEF SuccessIsServedHere, Shows
  <2>1. CASE q = w
    BY <1>3, <1>7, <1>12, <1>13, <1>15, <2>1
  <2>2. CASE q # w
    <3>1. ending[q] = "ok" /\ platform[q] # "none"
      BY <1>6, <2>2 DEF PlacesInv, FilesInv
    <3>2. UNCHANGED platform /\ railway'[q] = railway[q] /\ Working(w) /\ WorksOrNot(w)
      BY <1>2, <1>3
    <3> QED
      BY <1>9, <3>1, <3>2, SuccessesStay
  <2> QED
    BY <2>1, <2>2
<1> QED
  BY <1>1, <1>8, <1>10, <1>11, <1>13, <1>14, <1>16 DEF PlacesInv

LEMMA OrphanKeepsPlaces ==
  ASSUME PlacesInv, NEW w \in Run, OrphanEnds(w)
  PROVE  PlacesInv'
<1>1. /\ UNCHANGED <<platform, command, ending, killed, tries, railway, dirs, secrets, config>>
      /\ w \in orphans /\ orphans' = orphans \ {w} /\ WorksOrNot(w)
  BY DEF OrphanEnds
<1>2. FilesInv'
  BY OrphanKeeps DEF PlacesInv
<1>3. /\ created \subseteq created'
      /\ \A x \in Place :
             serves'[x] = serves[x] \/ (serves'[x] = w /\ command[w] \in Publishing)
  BY <1>1, WorldGrows DEF PlacesInv
<1>4. \A q \in Run : CutShort(q) => CutShort(q)' /\ command'[q] = command[q]
  BY <1>1 DEF CutShort
<1>5. \A q \in Run : Working(q)' /\ command'[q] \in Published => Shows(q)'
  <2> SUFFICES ASSUME NEW q \in Run, Working(q), command[q] \in Published PROVE Shows(q)'
    BY <1>1 DEF Working
  <2>1. Shows(q) /\ platform[q] # "none"
    BY DEF PlacesInv, Working
  <2>2. CASE command[w] \in Publishing
    BY <1>1, <1>3, <1>4, <2>1, <2>2, ShowsStays DEF PlacesInv, CutShort
  <2>3. CASE command[w] \notin Publishing
    <3>1. serves'[PlaceOf(q)] = serves[PlaceOf(q)] /\ PlaceOf(q)' = PlaceOf(q)
      BY <1>1, <1>3, <2>1, <2>3, PlaceIsPlace DEF PlacesInv, FilesInv, PlaceOf
    <3> QED
      BY <1>1, <2>1, <3>1 DEF Shows, CutShort
  <2> QED
    BY <2>2, <2>3
<1>6. SuccessIsServedHere'
  <2> SUFFICES ASSUME NEW q \in Run, ending'[q] = "ok"
               PROVE  Shows(q)' /\ (platform'[q] = "railway" => railway'[q] \in created')
    BY DEF SuccessIsServedHere, Shows
  <2>1. ending[q] = "ok" /\ platform[q] # "none"
    BY <1>1 DEF PlacesInv, FilesInv
  <2> QED
    BY <1>1, <1>4, <2>1, SuccessesStay
<1> QED
  BY <1>1, <1>2, <1>3, <1>5, <1>6 DEF PlacesInv, InTurn, Working, CutShort

LEMMA PlacesStep == PlacesInv /\ [PlatformNext]_platformVars => PlacesInv'
<1> SUFFICES ASSUME PlacesInv, [PlatformNext]_platformVars PROVE PlacesInv'
  OBVIOUS
<1>1. CASE UNCHANGED platformVars
  <2>1. FilesInv'
    BY FilesStep DEF PlacesInv
  <2> QED
    BY <1>1, <2>1 DEF platformVars, PlacesInv, InTurn, Working, CutShort, Shows, PlaceOf,
       SuccessIsServedHere
<1>2. CASE PlatformNext
  <2> PICK r \in Run :
        \/ \E t \in Platform : Begin(r, t) \/ Unfit(r, t)
        \/ Responds(r) \/ DomainTimesOut(r) \/ Drained(r) \/ Cancel(r)
        \/ OrphanEnds(r) \/ PlatformRestart(r)
    BY <1>2 DEF PlatformNext
  <2>1. ASSUME NEW t \in Platform, Begin(r, t) \/ Unfit(r, t) PROVE PlacesInv'
    BY <2>1, StartedKeepsPlaces
  <2>2. CASE Advance(r) \/ DomainExists(r) \/ DomainTimesOut(r) \/ PagesBusy(r) \/ Kill(r)
    BY <2>2, GoingOnKeepsPlaces DEF DomainExists, DomainTimesOut
  <2>3. CASE Succeeds(r) \/ Fails(r) \/ Drained(r) \/ Cancel(r) \/ PlatformRestart(r)
    BY <2>3, EndingKeepsPlaces
  <2>4. CASE OrphanEnds(r)
    BY <2>4, OrphanKeepsPlaces
  <2> QED
    BY <2>1, <2>2, <2>3, <2>4 DEF Responds
<1> QED
  BY <1>1, <1>2

(* A deployment that reports success is served where it says, or a later   *)
(* one is; an earlier one shows there only if it was cut short while it    *)
(* was publishing, since its command goes on.                              *)
THEOREM SuccessIsServedHereAlways == PlatformSafety => []SuccessIsServedHere
<1>1. PlatformInit => PlacesInv
  BY PlacesStartWell
<1>2. PlacesInv /\ [PlatformNext]_platformVars => PlacesInv'
  BY PlacesStep
<1>3. PlacesInv => SuccessIsServedHere
  BY DEF PlacesInv
<1> QED
  BY <1>1, <1>2, <1>3, PTL DEF PlatformSafety
----------------------------------------------------------------------------
(* What RailwayProjectsAreReused rests on: after a success with Railway    *)
(* target_config holds its project, until a deployment goes elsewhere; and *)
(* who has none, or has made one, comes after such a detour.               *)
ConfigRemembers ==
    \A p \in Run : ending[p] = "ok" /\ platform[p] = "railway" =>
        \/ config.platform = "railway" /\ config.railway # 0
        \/ \E q \in Run : p < q /\ platform[q] \notin {"none", "railway"}

DetourBetween(p, r) == \E q \in Run : p < q /\ q < r /\ platform[q] # "railway"

(* A deployment to Railway that has created its project, or will. *)
Anew(r) ==
    /\ platform[r] = "railway" /\ railway[r] \in {0, r}
    /\ command[r] # "none" \/ r \in created

ReuseInv ==
    /\ PlacesInv
    /\ \A r \in Run : command[r] = "init" => platform[r] = "railway" /\ railway[r] = 0
    /\ \A r \in created : platform[r] = "railway" /\ railway[r] \in {0, r}
    /\ ConfigRemembers
    /\ \A p, r \in Run : /\ p < r /\ Anew(r)
                         /\ ending[p] = "ok" /\ platform[p] = "railway"
                         => DetourBetween(p, r)

LEMMA ReuseStartsWell == PlatformInit => ReuseInv
<1> SUFFICES ASSUME PlatformInit PROVE ReuseInv
  OBVIOUS
<1>1. PlacesInv
  BY PlacesStartWell
<1> QED
  BY <1>1 DEF PlatformInit, ReuseInv, ConfigRemembers, Anew

LEMMA StartedReuses ==
  ASSUME ReuseInv, NEW r \in Run, NEW t \in Platform, Begin(r, t) \/ Unfit(r, t)
  PROVE  ReuseInv'
<1>1. PlacesInv' /\ PlacesInv
  BY StartedKeepsPlaces DEF ReuseInv
<1>2. /\ platform' = [platform EXCEPT ![r] = t]
      /\ UNCHANGED created
      /\ platform[r] = "none" /\ ending[r] = "none" /\ command[r] = "none"
      /\ t \notin {"none"} /\ r \notin created
      /\ PlatformTypeOK
      /\ config' = IF config.platform = t THEN config ELSE [platform |-> t, railway |-> 0]
  BY PlatformAssumption DEF Begin, Unfit, Started, ReuseInv, PlacesInv, FilesInv, worldVars
<1>3. /\ \A q \in Run \ {r} : /\ platform'[q] = platform[q] /\ ending'[q] = ending[q]
                              /\ command'[q] = command[q] /\ railway'[q] = railway[q]
      /\ platform'[r] = t /\ ending'[r] \in {"none", "error"} /\ command'[r] # "init"
  BY <1>2 DEF Begin, Unfit, PlatformTypeOK
<1>4. \A q \in Run : platform[q] # "none" => q < r
  <2> SUFFICES ASSUME NEW q \in Run, platform[q] # "none" PROVE q < r
    OBVIOUS
  <2>1. q # r /\ (r < q => platform[r] # "none")
    BY <1>1, <1>2 DEF PlacesInv, InTurn
  <2>2. q \in Nat /\ r \in Nat /\ ~(r < q) /\ q # r
    BY <1>2, <2>1 DEF Run
  <2> QED
    BY <2>2
<1>5. ConfigRemembers'
  <2> SUFFICES ASSUME NEW p \in Run, ending'[p] = "ok", platform'[p] = "railway"
               PROVE  \/ config'.platform = "railway" /\ config'.railway # 0
                      \/ \E q \in Run : p < q /\ platform'[q] \notin {"none", "railway"}
    BY DEF ConfigRemembers
  <2>1. p # r /\ ending[p] = "ok" /\ platform[p] = "railway" /\ p < r
    BY <1>3, <1>4
  <2>2. CASE t = "railway"
    BY <1>2, <1>3, <2>1, <2>2 DEF ReuseInv, ConfigRemembers
  <2>3. CASE t # "railway"
    BY <1>2, <1>3, <2>1, <2>3
  <2> QED
    BY <2>2, <2>3
<1>6. ASSUME NEW p \in Run, NEW s \in Run, p < s, ending'[p] = "ok", platform'[p] = "railway",
             Anew(s)'
      PROVE  DetourBetween(p, s)'
  <2>1. p # r /\ ending[p] = "ok" /\ platform[p] = "railway"
    BY <1>3, <1>6
  <2>2. CASE s # r
    <3>1. PICK q \in Run : p < q /\ q < s /\ platform[q] # "railway"
      BY <1>2, <1>3, <1>6, <2>1, <2>2 DEF ReuseInv, DetourBetween, Anew
    <3>2. q # r
      <4>1. s < r
        BY <1>3, <1>4, <1>6, <2>2 DEF Anew
      <4> QED
        BY <3>1, <4>1 DEF Run
    <3> QED
      BY <1>3, <3>1, <3>2 DEF DetourBetween
  <2>3. CASE s = r
    <3>1. t = "railway" /\ railway'[r] \in {0, r} /\ command'[r] # "none"
      BY <1>2, <1>3, <1>6, <2>3 DEF Anew
    <3>2. ~(config.platform = "railway" /\ config.railway # 0)
      <4> SUFFICES ASSUME config.platform = "railway", config.railway # 0 PROVE FALSE
        OBVIOUS
      <4>1. Begin(r, t)
        BY <1>2, <3>1 DEF Unfit
      <4>2. config' = config /\ railway' = [railway EXCEPT ![r] = config'.railway]
        BY <1>2, <3>1, <4>1 DEF Begin
      <4>3. railway'[r] = config.railway
        BY <1>2, <4>2 DEF PlatformTypeOK
      <4>4. config.railway \in created
        BY <1>1 DEF PlacesInv
      <4> QED
        BY <1>2, <3>1, <4>3, <4>4
    <3>3. PICK q \in Run : p < q /\ platform[q] \notin {"none", "railway"}
      BY <2>1, <3>2 DEF ReuseInv, ConfigRemembers
    <3>4. q < r /\ q # r
      BY <1>2, <1>4, <3>3
    <3> QED
      BY <1>3, <2>3, <3>3, <3>4 DEF DetourBetween
  <2> QED
    BY <2>2, <2>3
<1>7. \A q \in Run : command'[q] = "init" => platform'[q] = "railway" /\ railway'[q] = 0
  BY <1>3 DEF ReuseInv
<1>8. \A q \in created' : platform'[q] = "railway" /\ railway'[q] \in {0, q}
  BY <1>2, <1>3 DEF ReuseInv, PlatformTypeOK
<1> QED
  BY <1>1, <1>5, <1>6, <1>7, <1>8 DEF ReuseInv

(* A step of deployment w, or of its orphan, that keeps to these rules. *)
LEMMA LaterReuses ==
  ASSUME ReuseInv, PlacesInv', NEW w \in Run, UNCHANGED platform, WorksOrNot(w),
         \A q \in Run : \/ railway'[q] = railway[q]
                       \/ /\ command[q] = "init" /\ command'[q] # "init"
                          /\ railway'[q] = q,
         \A q \in Run : command'[q] # "none" => command[q] # "none",
         \A q \in Run : command'[q] = "init" => platform[q] = "railway" /\ railway[q] = 0,
         \A q \in Run : ending'[q] = "ok" => ending[q] = "ok" \/ (q = w /\ config' = PlaceOf(w)),
         \/ /\ config' = config
            /\ \A q \in Run : ending'[q] = "ok" => ending[q] = "ok"
         \/ /\ config' = PlaceOf(w) /\ Working(w)
            /\ platform[w] = "railway" => railway[w] # 0
  PROVE  ReuseInv'
<1>1. PlacesInv /\ FilesInv
  BY DEF ReuseInv, PlacesInv
<1>2. \A q \in created' : q \in created \/ command[q] = "init"
  BY <1>1, WorldGrows
<1>3. \A q \in Run : command'[q] = "init" => platform'[q] = "railway" /\ railway'[q] = 0
  OBVIOUS
<1>4. created' \subseteq Run
  BY DEF PlacesInv, FilesInv, PlatformTypeOK
<1>5. \A q \in created' : platform'[q] = "railway" /\ railway'[q] \in {0, q}
  BY <1>2, <1>4 DEF ReuseInv
<1>6. \A p, q \in Run : p < q /\ platform[q] # "none" => ~Working(p)
  BY <1>1 DEF PlacesInv, InTurn
<1>7. ConfigRemembers'
  <2> SUFFICES ASSUME NEW p \in Run, ending'[p] = "ok", platform[p] = "railway"
               PROVE  \/ config'.platform = "railway" /\ config'.railway # 0
                      \/ \E q \in Run : p < q /\ platform[q] \notin {"none", "railway"}
    BY DEF ConfigRemembers
  <2>1. CASE /\ config' = PlaceOf(w) /\ Working(w)
             /\ platform[w] = "railway" => railway[w] # 0
    <3>1. platform[w] = "railway" => config'.platform = "railway" /\ config'.railway # 0
      BY <2>1 DEF PlaceOf
    <3>2. Working(w) /\ platform[w] # "none"
      BY <2>1 DEF Working
    <3>3. CASE platform[w] # "railway"
      <4>1. ~(w < p) /\ w # p
        BY <1>6, <3>2, <3>3
      <4>2. p < w
        BY <4>1 DEF Run
      <4> QED
        BY <3>2, <3>3, <4>2
    <3> QED
      BY <3>1, <3>3
  <2>2. CASE config' = config /\ ending[p] = "ok"
    BY <2>2 DEF ReuseInv, ConfigRemembers
  <2> QED
    BY <2>1, <2>2
<1>8. ASSUME NEW p \in Run, NEW s \in Run, p < s, Anew(s)',
             ending'[p] = "ok", platform'[p] = "railway"
      PROVE  DetourBetween(p, s)'
  <2>1. Anew(s)
    BY <1>2, <1>8 DEF Anew, ReuseInv
  <2>2. ending[p] = "ok"
    BY <1>6, <1>8, <2>1 DEF Anew
  <2> QED
    BY <1>8, <2>1, <2>2 DEF ReuseInv, DetourBetween
<1> QED
  BY <1>3, <1>5, <1>7, <1>8 DEF ReuseInv

LEMMA GoingOnReuses ==
  ASSUME ReuseInv, NEW w \in Run,
         Advance(w) \/ ListsDomains(w) \/ PagesBusy(w) \/ Kill(w) \/ OrphanEnds(w)
  PROVE  ReuseInv'
<1>1. PlacesInv' /\ PlatformTypeOK
  BY GoingOnKeepsPlaces, OrphanKeepsPlaces DEF ReuseInv, PlacesInv, FilesInv
<1>2. UNCHANGED <<platform, ending, config>> /\ WorksOrNot(w)
  BY DEF Advance, ListsDomains, PagesBusy, Kill, OrphanEnds, WorksOrNot
<1>3. \A q \in Run : \/ railway'[q] = railway[q]
                    \/ /\ command[q] = "init" /\ command'[q] # "init"
                       /\ railway'[q] = q
  <2>1. CASE Advance(w)
    <3>1. PICK next \in Cli \cup Request :
              Follows(w, next) /\ command' = [command EXCEPT ![w] = next]
      BY <2>1 DEF Advance
    <3>2. command[w] = "init" => next = "up"
      BY <3>1 DEF Follows
    <3> QED
      BY <1>1, <2>1, <3>1, <3>2 DEF Advance, PlatformTypeOK
  <2>2. CASE ~Advance(w)
    BY <2>2 DEF ListsDomains, PagesBusy, Kill, OrphanEnds
  <2> QED
    BY <2>1, <2>2
<1>4. \A q \in Run : command'[q] # "none" => command[q] # "none"
  <2>1. CASE Advance(w)
    BY <1>1, <2>1 DEF Advance, Follows, PlatformTypeOK
  <2>2. CASE ~Advance(w)
    BY <1>1, <2>2 DEF ListsDomains, PagesBusy, Kill, OrphanEnds, PlatformTypeOK
  <2> QED
    BY <2>1, <2>2
<1>5. \A q \in Run : command'[q] = "init" => platform[q] = "railway" /\ railway[q] = 0
  <2>1. CASE Advance(w)
    <3>1. PICK next \in Cli \cup Request :
              Follows(w, next) /\ command' = [command EXCEPT ![w] = next]
      BY <2>1 DEF Advance
    <3>2. next = "init" => platform[w] = "railway" /\ railway[w] = 0
      BY <3>1 DEF Follows
    <3> QED
      BY <1>1, <3>1, <3>2 DEF ReuseInv, PlatformTypeOK
  <2>2. CASE ~Advance(w)
    BY <1>1, <2>2 DEF ListsDomains, PagesBusy, Kill, OrphanEnds, PlatformTypeOK, ReuseInv
  <2> QED
    BY <2>1, <2>2
<1> QED
  BY <1>1, <1>2, <1>3, <1>4, <1>5, LaterReuses

LEMMA EndingReuses ==
  ASSUME ReuseInv, NEW w \in Run,
         Succeeds(w) \/ Fails(w) \/ Drained(w) \/ Cancel(w) \/ PlatformRestart(w)
  PROVE  ReuseInv'
<1>1. PlacesInv' /\ PlacesInv /\ PlatformTypeOK
  BY EndingKeepsPlaces DEF ReuseInv, PlacesInv, FilesInv
<1>2. PICK how \in {"ok", "error", "timeout", "cancelled", "lost"} :
         /\ Ended(w, how)
         /\ WorksOrNot(w)
         /\ how = "ok" <=> Succeeds(w)
         /\ how # "ok" => config' = config
  BY DEF Succeeds, Fails, Drained, Cancel, PlatformRestart, WorksOrNot, Ended, PlatformTypeOK
<1>3. /\ UNCHANGED <<platform, railway>> /\ Working(w)
      /\ \A q \in Run : command'[q] = command[q] \/ command'[q] = "none"
      /\ \A q \in Run : ending'[q] = IF q = w THEN how ELSE ending[q]
  BY <1>1, <1>2 DEF Ended, PlatformTypeOK
<1>4. \A q \in Run : command'[q] = "init" => platform[q] = "railway" /\ railway[q] = 0
  BY <1>3 DEF ReuseInv
<1>5. CASE how = "ok"
  <2>1. config' = PlaceOf(w)
    BY <1>2, <1>5 DEF Succeeds, ConfigAfter
  <2>2. platform[w] = "railway" => railway[w] # 0
    <3>1. command[w] \notin {"clone", "init"}
      BY <1>2, <1>5 DEF Succeeds
    <3> QED
      BY <1>1, <1>3, <3>1 DEF PlacesInv
  <2> QED
    BY <1>1, <1>2, <1>3, <1>4, <2>1, <2>2, LaterReuses
<1>6. CASE how # "ok"
  <2>1. config' = config /\ \A q \in Run : ending'[q] = "ok" => ending[q] = "ok"
    BY <1>2, <1>3, <1>6
  <2> QED
    BY <1>1, <1>2, <1>3, <1>4, <2>1, LaterReuses
<1> QED
  BY <1>5, <1>6

LEMMA ReuseStep == ReuseInv /\ [PlatformNext]_platformVars => ReuseInv'
<1> SUFFICES ASSUME ReuseInv, [PlatformNext]_platformVars PROVE ReuseInv'
  OBVIOUS
<1>1. CASE UNCHANGED platformVars
  <2>1. PlacesInv'
    BY PlacesStep DEF ReuseInv
  <2> QED
    BY <1>1, <2>1 DEF platformVars, ReuseInv, ConfigRemembers, Anew, DetourBetween
<1>2. CASE PlatformNext
  <2> PICK r \in Run :
        \/ \E t \in Platform : Begin(r, t) \/ Unfit(r, t)
        \/ Responds(r) \/ DomainTimesOut(r) \/ Drained(r) \/ Cancel(r)
        \/ OrphanEnds(r) \/ PlatformRestart(r)
    BY <1>2 DEF PlatformNext
  <2>1. ASSUME NEW t \in Platform, Begin(r, t) \/ Unfit(r, t) PROVE ReuseInv'
    BY <2>1, StartedReuses
  <2>2. CASE Advance(r) \/ DomainExists(r) \/ DomainTimesOut(r) \/ PagesBusy(r)
             \/ Kill(r) \/ OrphanEnds(r)
    BY <2>2, GoingOnReuses DEF DomainExists, DomainTimesOut
  <2>3. CASE Succeeds(r) \/ Fails(r) \/ Drained(r) \/ Cancel(r) \/ PlatformRestart(r)
    BY <2>3, EndingReuses
  <2> QED
    BY <2>1, <2>2, <2>3 DEF Responds
<1> QED
  BY <1>1, <1>2

(* A first success is remembered until a target in between. *)
LEMMA ReusedMeansReused == ReuseInv => RailwayProjectsAreReused
<1> SUFFICES ASSUME ReuseInv, NEW p \in created, NEW r \in created, p < r, ending[p] = "ok"
             PROVE  \E q \in p..r : platform[q] # "railway"
  BY DEF RailwayProjectsAreReused
<1>1. p \in Run /\ r \in Run
  BY DEF ReuseInv, PlacesInv, FilesInv, PlatformTypeOK
<1>2. PICK q \in Run : p < q /\ q < r /\ platform[q] # "railway"
  BY <1>1 DEF ReuseInv, Anew, DetourBetween
<1>3. q \in p..r
  BY <1>1, <1>2 DEF Run
<1> QED
  BY <1>2, <1>3

(* A project gets a second Railway project only because the deployment     *)
(* that created the first one failed after it had, or because its target   *)
(* was changed in between.                                                 *)
THEOREM RailwayProjectsAreReusedAlways == PlatformSafety => []RailwayProjectsAreReused
<1>1. PlatformInit => ReuseInv
  BY ReuseStartsWell
<1>2. ReuseInv /\ [PlatformNext]_platformVars => ReuseInv'
  BY ReuseStep
<1>3. ReuseInv => RailwayProjectsAreReused
  BY ReusedMeansReused
<1> QED
  BY <1>1, <1>2, <1>3, PTL DEF PlatformSafety

----------------------------------------------------------------------------
(* The Railway project that is remembered, or that a deployment uploads    *)
(* to, is its own or that of a deployment that has ended.                  *)
RememberedInv ==
    /\ ReuseInv
    /\ \A r \in Run : platform[r] # "railway" => railway[r] = 0
    /\ \A r \in Run : railway[r] \in {0, r} \/ ending[railway[r]] # "none"
    /\ config.railway # 0 => /\ config.platform = "railway"
                             /\ ending[config.railway] # "none"

LEMMA RememberedStartsWell == PlatformInit => RememberedInv
<1> SUFFICES ASSUME PlatformInit PROVE RememberedInv
  OBVIOUS
<1>1. config.railway = 0 /\ \A r \in Run : railway[r] = 0
  BY DEF PlatformInit
<1> QED
  BY <1>1, ReuseStartsWell DEF RememberedInv

LEMMA RememberedStep == RememberedInv /\ [PlatformNext]_platformVars => RememberedInv'
<1> SUFFICES ASSUME RememberedInv, [PlatformNext]_platformVars PROVE RememberedInv'
  OBVIOUS
<1>1. ReuseInv' /\ ReuseInv /\ PlatformTypeOK
  BY ReuseStep DEF RememberedInv, ReuseInv, PlacesInv, FilesInv
<1>2. ASSUME UNCHANGED <<platform, railway, ending, config>> PROVE RememberedInv'
  BY <1>1, <1>2 DEF RememberedInv
<1>3. ASSUME NEW r \in Run, NEW t \in Platform, Begin(r, t) \/ Unfit(r, t)
      PROVE  RememberedInv'
  <2>1. /\ platform[r] = "none" /\ platform' = [platform EXCEPT ![r] = t]
        /\ config' = IF config.platform = t THEN config ELSE [platform |-> t, railway |-> 0]
        /\ railway[r] = 0
    BY <1>1, <1>3 DEF Begin, Unfit, Started, RememberedInv
  <2>2. /\ railway' \in {railway, [railway EXCEPT ![r] = config'.railway]}
        /\ ending' \in {ending, [ending EXCEPT ![r] = "error"]}
    BY <1>3 DEF Begin, Unfit
  <2>3. \A q \in Run : ending[q] # "none" => ending'[q] # "none"
    BY <1>1, <2>2 DEF PlatformTypeOK
  <2>4. config'.railway # 0 => /\ config' = config /\ t = "railway"
                               /\ config.railway \in Run /\ ending[config.railway] # "none"
    BY <1>1, <2>1 DEF RememberedInv, PlatformTypeOK, Config, Place
  <2>5. \A q \in Run : /\ q # r => railway'[q] = railway[q] /\ platform'[q] = platform[q]
                       /\ railway[q] \in Run \cup {0}
    BY <1>1, <2>1, <2>2 DEF PlatformTypeOK
  <2>6. platform'[r] = t /\ railway'[r] \in {0, config'.railway}
    BY <1>1, <2>1, <2>2 DEF PlatformTypeOK
  <2>7. \A q \in Run : platform'[q] # "railway" => railway'[q] = 0
    BY <2>4, <2>5, <2>6 DEF RememberedInv
  <2>8. \A q \in Run : railway'[q] \in {0, q} \/ ending'[railway'[q]] # "none"
    BY <2>3, <2>4, <2>5, <2>6 DEF RememberedInv
  <2>9. config'.railway # 0 => /\ config'.platform = "railway"
                               /\ ending'[config'.railway] # "none"
    BY <2>3, <2>4 DEF RememberedInv
  <2> QED
    BY <1>1, <2>7, <2>8, <2>9 DEF RememberedInv
<1>4. ASSUME NEW r \in Run, Advance(r) PROVE RememberedInv'
  <2>1. CASE command[r] = "init"
    <3>1. /\ UNCHANGED <<platform, ending, config>> /\ platform[r] = "railway"
          /\ \A q \in Run : railway'[q] = IF q = r THEN r ELSE railway[q]
      BY <1>1, <1>4, <2>1 DEF Advance, ReuseInv, PlatformTypeOK
    <3> QED
      BY <1>1, <3>1 DEF RememberedInv
  <2>2. CASE command[r] # "init"
    BY <1>2, <1>4, <2>2 DEF Advance
  <2> QED
    BY <2>1, <2>2
<1>5. ASSUME NEW r \in Run, ListsDomains(r) \/ PagesBusy(r) \/ Kill(r) \/ OrphanEnds(r)
      PROVE  RememberedInv'
  BY <1>2, <1>5 DEF ListsDomains, PagesBusy, Kill, OrphanEnds
<1>6. ASSUME NEW r \in Run, Succeeds(r) \/ Fails(r) \/ Drained(r) \/ Cancel(r) \/ PlatformRestart(r)
      PROVE  RememberedInv'
  <2>1. PICK how \in {"ok", "error", "timeout", "cancelled", "lost"} :
           Ended(r, how) /\ config' \in {config, PlaceOf(r)}
    BY <1>6 DEF Succeeds, Fails, Drained, Cancel, PlatformRestart, ConfigAfter
  <2>2. /\ UNCHANGED <<platform, railway>>
        /\ \A q \in Run : ending'[q] = IF q = r THEN how ELSE ending[q]
    BY <1>1, <2>1 DEF Ended, PlatformTypeOK
  <2>4. \A q \in Run : railway[q] \in Run \cup {0}
    BY <1>1 DEF PlatformTypeOK
  <2>5. config.railway \in Run \cup {0}
    BY <1>1 DEF PlatformTypeOK, Config, Place
  <2>6. \A q \in Run : railway'[q] \in {0, q} \/ ending'[railway'[q]] # "none"
    BY <2>2, <2>4 DEF RememberedInv
  <2>7. config'.railway # 0 => /\ config'.platform = "railway"
                               /\ ending'[config'.railway] # "none"
    <3>1. CASE config' = config
      BY <2>2, <2>5, <3>1 DEF RememberedInv
    <3>2. CASE config' = PlaceOf(r)
      <4>1. config'.platform = platform[r] /\ config'.railway = railway[r]
        BY <3>2 DEF PlaceOf
      <4>2. railway[r] # 0 => platform[r] = "railway" /\ ending'[railway[r]] # "none"
        BY <2>2, <2>4 DEF RememberedInv
      <4> QED
        BY <4>1, <4>2
    <3> QED
      BY <2>1, <3>1, <3>2
  <2> QED
    BY <1>1, <2>2, <2>6, <2>7 DEF RememberedInv
<1>7. CASE UNCHANGED platformVars
  BY <1>2, <1>7 DEF platformVars
<1> QED
  BY <1>3, <1>4, <1>5, <1>6, <1>7 DEF PlatformNext, Responds, DomainExists, DomainTimesOut

(* The three together, with the types, and that target_config names a      *)
(* Railway project only of a deployment that is over, so that no running   *)
(* deployment's project can be handed to another one.                      *)
THEOREM PlatformInvariant == PlatformSafety => []PlatformInv
<1>1. RememberedInv => PlatformInv
  <2> SUFFICES ASSUME RememberedInv PROVE PlatformInv
    OBVIOUS
  <2>1. PlatformTypeOK /\ FilesAreRemoved /\ SuccessIsServedHere /\ ReuseInv
    BY DEF RememberedInv, ReuseInv, PlacesInv, FilesInv
  <2>2. RailwayProjectsAreReused
    BY <2>1, ReusedMeansReused
  <2> QED
    BY <2>1, <2>2 DEF PlatformInv, RememberedInv
<1> QED
  BY <1>1, RememberedStartsWell, RememberedStep, PTL DEF PlatformSafety

----------------------------------------------------------------------------
(* Which executor a deployment gets.                                       *)

(* A step of either kind is one of its module, and none of the other's.    *)
LEMMA EitherWorks ==
  ASSUME [ExecutorsNext]_executorsVars
  PROVE  [AgentNext]_agentVars /\ [PlatformNext]_platformVars
BY DEF ExecutorsNext, AgentStep, PlatformStep, executorsVars

(* Whatever deploy() hands to an agent or to the executor of a platform    *)
(* goes as the two modules say: neither is disturbed by the other.         *)
THEOREM EachExecutorRuns == ExecutorsSpec => AgentSafety /\ PlatformSafety
<1>1. ExecutorsInit => AgentInit /\ PlatformInit
  BY DEF ExecutorsInit
<1>2. [ExecutorsNext]_executorsVars => [AgentNext]_agentVars /\ [PlatformNext]_platformVars
  BY EitherWorks
<1> QED
  BY <1>1, <1>2, PTL DEF ExecutorsSpec, AgentSafety, PlatformSafety

(* An agent keeps within its limits, and its requests are conversations    *)
(* that end with the answers the model waits for, in every deployment.     *)
THEOREM AgentsConverse ==
  ExecutorsSpec => [](AgentInv /\ RequestsAreConversations /\ AnswersAreSeen)
BY EachExecutorRuns, AgentInvariant, RequestsConverse, AnswersAreSeenAlways, PTL

(* A platform's executor cleans up behind itself, serves what it says, and *)
(* reuses what the project has.                                            *)
THEOREM PlatformsDeliver ==
  ExecutorsSpec => [](FilesAreRemoved /\ SuccessIsServedHere /\ RailwayProjectsAreReused)
BY EachExecutorRuns, FilesAreRemovedAlways, SuccessIsServedHereAlways,
   RailwayProjectsAreReusedAlways, PTL
=============================================================================
