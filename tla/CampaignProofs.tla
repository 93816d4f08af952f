-------------------------- MODULE CampaignProofs --------------------------
(***************************************************************************)
(* What holds of campaigns of any size and number, whatever dies or is     *)
(* killed when, on whichever tables they work.                             *)
(***************************************************************************)
EXTENDS Campaign, TLAPS

USE SizesAssumption

\* The copies of a row are counted.  A row r is the r[3]-th result of the child
\* <<r[1], r[2]>>.
One(c) == IF c THEN 1 ELSE 0
Writer(r) == <<r[1], r[2]>>

Alive(k) == child[k] \in {"started", "running", "stuck"}

\* Where the script is among the slots.
AtInv ==
    /\ pc # "idle" => campaign \in Campaigns
    /\ pc = "collect" => at <= pnum[campaign]
    /\ pc = "remove" => at < pnum[campaign]

\* Scripts are killed while they wait, and no more than once.
KilledInv ==
    /\ \A c \in killed : c <= campaign
    /\ pc # "idle" => campaign \notin killed
    /\ ~failed => killed = {}

\* A child has a slot of its campaign, and outlives none but a killed script.
ChildInv ==
    \A k \in Children :
        /\ child[k] # "none" => k[1] <= campaign /\ k[2] < pnum[k[1]]
        /\ Alive(k) => Attended(k) \/ k[1] \in killed
        /\ logged[k] <= Quota(k)
        /\ child[k] \in {"none", "started"} => logged[k] = 0
        /\ opened[k] <= removals[k[2]]

\* Where a child writes: into recdb-i, which has its table and all that it has
\* flushed, or into a file that the script of a later campaign has removed.
FileInv ==
    \A k \in Children : child[k] = "running" =>
        /\ Attended(k) => Linked(k)
        /\ Linked(k) => etable[k[1]] \in tables[k[2]]
        /\ Linked(k) => \A r \in recorded : Writer(r) = k => r \in rows[k[2]]
        /\ Linked(k) /\ logged[k] % Buffer = 0 =>
              \A m \in 1 .. logged[k] : <<k[1], k[2], m>> \in rows[k[2]]
        /\ ~Linked(k) => \E c \in k[1] + 1 .. campaign : k[2] < pnum[c]

\* A slot's file and the main database have rows that children have committed.
RowsInv ==
    /\ \A i \in Slots : \A r \in rows[i] : r \in recorded /\ r[2] = i
    /\ \A r \in Rows : main[r] > 0 => r \in recorded
    /\ \A r \in recorded : child[Writer(r)] \in {"running", "stuck", "ended"}
    /\ \A r \in orphaned : r[1] \in killed

\* What the open transaction has copied, and that the files that are being
\* removed have been, but for the rows of orphans.
CopiedInv ==
    /\ pc = "collect" => \A r \in Rows :
         /\ work[r] = main[r] \/ (work[r] = main[r] + 1 /\ r[2] < at /\ r \in rows[r[2]])
         /\ r[2] < at /\ r \in rows[r[2]] /\ Asks(r) /\ r \notin orphaned => work[r] = main[r] + 1
    /\ pc = "remove" => \A i \in Slots : Slot(i) =>
         \A r \in rows[i] : Asks(r) /\ r \notin orphaned => main[r] > 0

\* A row that is in a file that is yet to be collected has been copied once
\* for every interrupted removal at most.
CopiesInv ==
    \A r \in Rows :
        r \in rows[r[2]] /\ ~(pc = "remove" /\ at <= r[2] /\ Slot(r[2])) => main[r] <= interrupted

\* Where the results are while nothing has died: in the main database, but for
\* those of the campaign that is under way, which are in its slots.
QuietMain ==
    ~failed => \A r \in Rows :
        /\ pc \in {"idle", "remove"} => main[r] = One(r \in Asked)
        /\ pc \in {"pool", "collect"} => main[r] = One(r \in Asked /\ r[1] # campaign)

Clean(i) == pc = "idle" \/ ~Slot(i) \/ (pc = "remove" /\ i < at)
Delivered(i) == (pc = "collect" \/ (pc = "pool" /\ child[<<campaign, i>>] = "ended")) /\ Slot(i)

QuietSlots ==
    ~failed => \A i \in Slots :
        /\ Clean(i) => tables[i] = {} /\ rows[i] = {}
        /\ pc \in {"pool", "collect"} => \A r \in rows[i] : r[1] = campaign
        /\ Delivered(i) =>
             /\ etable[campaign] \in tables[i]
             /\ \A r \in Asked : r[1] = campaign /\ r[2] = i => r \in rows[i]

IInv ==
    /\ TypeOK /\ AtInv /\ KilledInv /\ ChildInv /\ FileInv /\ RowsInv /\ CopiedInv /\ CopiesInv
    /\ LossExplained /\ CopiesBounded /\ CollisionNeedsOrphan /\ QuietMain /\ QuietSlots

----------------------------------------------------------------------------

\* No child is asked for more results than the campaign.
LEMMA SimulationsBounded == ASSUME NEW p \in Nat \ {0} PROVE simulations(p) \in 0 .. Samples
<1> DEFINE q == Samples \div p
           rest == Samples % p
<1>1. q \in Nat /\ rest \in 0 .. p - 1 /\ Samples = p * q + rest
  BY SizesAssumption
<1> HIDE DEF q, rest
<1>2. p * q >= q /\ (p >= 2 => p * q >= 2 * q)
  BY <1>1
<1>3. q = Samples \div p /\ rest = Samples % p
  BY DEF q, rest
<1>4. CASE p = 1
  BY <1>1, <1>2, <1>3, <1>4, SizesAssumption DEF simulations
<1>5. CASE p >= 2
  BY <1>1, <1>2, <1>3, <1>5, SizesAssumption DEF simulations
<1> QED BY <1>4, <1>5

LEMMA Parts ==
    /\ \A k \in Children : k[1] \in Campaigns /\ k[2] \in Slots /\ k = <<k[1], k[2]>>
    /\ \A r \in Rows :
         /\ r[1] \in Campaigns /\ r[2] \in Slots /\ r[3] \in 1 .. Samples /\ r = <<r[1], r[2], r[3]>>
         /\ Writer(r) \in Children /\ Writer(r)[1] = r[1] /\ Writer(r)[2] = r[2]
    /\ \A c \in Campaigns, i \in Slots :
         /\ <<c, i>> \in Children /\ <<c, i>>[1] = c /\ <<c, i>>[2] = i
         /\ \A m \in 1 .. Samples : <<c, i, m>> \in Rows
  BY DEF Rows, Children, Writer

LEMMA Numbers ==
    /\ Slots \subseteq Nat /\ \A i \in Slots : i < MaxSlots
    /\ Campaigns \subseteq Nat /\ \A c \in Campaigns : 1 <= c /\ c <= MaxCampaigns
  BY DEF Slots, Campaigns

LEMMA QuotaBounded ==
    ASSUME TypeOK, NEW k \in Children
    PROVE  Quota(k) \in 0 .. Samples /\ pnum[k[1]] \in 1 .. MaxSlots
<1>1. pnum[k[1]] \in 1 .. MaxSlots
  BY Parts DEF TypeOK
<1> QED BY <1>1, SimulationsBounded DEF Quota

----------------------------------------------------------------------------

LEMMA InitInv == ASSUME Init PROVE IInv
<1>1. TypeOK
  <2>1. main \in [Rows -> Nat] /\ work \in [Rows -> Nat]
    BY DEF Init
  <2>2. tables \in [Slots -> SUBSET Tables] /\ rows \in [Slots -> SUBSET Rows] /\ removals \in [Slots -> Nat]
    BY DEF Init
  <2>3. opened \in [Children -> Nat] /\ logged \in [Children -> 0 .. Samples]
    BY DEF Init
  <2>4. child \in [Children -> {"none", "started", "running", "stuck", "ended"}]
    BY DEF Init
  <2>5. at \in 0 .. MaxSlots /\ campaign \in 0 .. MaxCampaigns /\ interrupted \in Nat
    BY DEF Init
  <2>6. pc \in {"idle", "pool", "collect", "remove"} /\ failed \in BOOLEAN
    BY DEF Init
  <2>7. recorded \subseteq Asked /\ orphaned \subseteq recorded /\ killed \subseteq Campaigns
    BY DEF Init
  <2>8. pnum \in [Campaigns -> 1 .. MaxSlots] /\ etable \in [Campaigns -> Tables]
    BY DEF Init
  <2> QED BY <2>1, <2>2, <2>3, <2>4, <2>5, <2>6, <2>7, <2>8 DEF TypeOK
<1>2. ChildInv
  <2> SUFFICES ASSUME NEW k \in Children
               PROVE  child[k] = "none" /\ logged[k] = 0 /\ opened[k] = 0 /\ removals[k[2]] = 0
    BY <1>1, QuotaBounded DEF ChildInv, Alive
  <2> QED BY Parts DEF Init
<1>3. FileInv /\ CollisionNeedsOrphan
  BY DEF Init, FileInv, CollisionNeedsOrphan
<1>4. AtInv /\ KilledInv /\ RowsInv /\ CopiedInv
  BY DEF Init, AtInv, KilledInv, RowsInv, CopiedInv
<1>5. CopiesInv /\ LossExplained /\ CopiesBounded
  BY Parts DEF Init, CopiesInv, LossExplained, CopiesBounded
<1>6. QuietMain /\ QuietSlots
  <2>1. \A r \in Rows : r \notin Asked
    BY Parts, Numbers DEF Init, Asked
  <2> QED BY <2>1 DEF Init, QuietMain, QuietSlots, Delivered, One
<1> QED BY <1>1, <1>2, <1>3, <1>4, <1>5, <1>6 DEF IInv

LEMMA StutterInv == ASSUME IInv, UNCHANGED vars PROVE IInv'
<1> USE DEF vars, arguments, files, children, script, history
<1>1. Asked' = Asked /\ (TypeOK => TypeOK')
  BY DEF Asked, Quota, TypeOK
<1>2. (AtInv => AtInv') /\ (KilledInv => KilledInv') /\ (RowsInv => RowsInv')
  BY DEF AtInv, KilledInv, RowsInv
<1>3. (ChildInv => ChildInv') /\ (FileInv => FileInv') /\ (CollisionNeedsOrphan => CollisionNeedsOrphan')
  BY DEF ChildInv, FileInv, CollisionNeedsOrphan, Alive, Attended, Quota, Linked
<1>4. (CopiedInv => CopiedInv') /\ (CopiesInv => CopiesInv') /\ (CopiesBounded => CopiesBounded')
  BY DEF CopiedInv, CopiesInv, CopiesBounded, Slot, Asks
<1>5. LossExplained => LossExplained'
  BY DEF LossExplained, Overwritten
<1>6. (QuietMain => QuietMain') /\ (QuietSlots => QuietSlots')
  BY <1>1 DEF QuietMain, QuietSlots, Clean, Delivered, Slot
<1> QED BY <1>1, <1>2, <1>3, <1>4, <1>5, <1>6 DEF IInv

----------------------------------------------------------------------------

\* Until something fails, the children at work are those that the script waits
\* for, and none is stuck.
LEMMA QuietChildren ==
    ASSUME IInv, ~failed, NEW k \in Children
    PROVE  Alive(k) => Attended(k) /\ Slot(k[2]) /\ k = <<campaign, k[2]>> /\ child[k] # "stuck"
<1> SUFFICES ASSUME Alive(k) PROVE Attended(k) /\ Slot(k[2]) /\ k = <<campaign, k[2]>> /\ child[k] # "stuck"
  OBVIOUS
<1>1. killed = {}
  BY DEF IInv, KilledInv
<1>2. Attended(k) /\ k[2] < pnum[k[1]]
  BY <1>1 DEF IInv, ChildInv, Alive
<1>3. child[k] # "stuck"
  BY <1>1 DEF IInv, CollisionNeedsOrphan
<1> QED BY <1>2, <1>3, Parts DEF Attended, Slot

LEMMA ConnectInv == ASSUME IInv, NEW k \in Children, connect(k) PROVE IInv'
<1>1. /\ child[k] = "started"
      /\ child' = [child EXCEPT ![k] = "running"]
      /\ opened' = [opened EXCEPT ![k] = removals[k[2]]]
      /\ tables' = [tables EXCEPT ![k[2]] = @ \cup {etable[k[1]]}]
  BY DEF connect
<1>2. UNCHANGED <<pnum, etable, main, rows, removals, logged, pc, at, work, campaign,
                  recorded, orphaned, killed, failed, interrupted>>
  BY DEF connect, arguments, script, history
<1>3. k[1] \in Campaigns /\ k[2] \in Slots
  BY Parts
<1>4. TypeOK' /\ Asked' = Asked
  <2>1. Asked' = Asked
    BY <1>2 DEF Asked, Quota
  <2> QED BY <1>1, <1>2, <1>3, <2>1 DEF IInv, TypeOK
<1>5. AtInv' /\ KilledInv' /\ CopiesInv' /\ CopiesBounded'
  BY <1>2 DEF IInv, AtInv, KilledInv, CopiesInv, CopiesBounded, Slot
<1>6. CopiedInv' /\ LossExplained'
  BY <1>2 DEF IInv, CopiedInv, LossExplained, Overwritten, Slot, Asks
<1>7. \A l \in Children : child[l] \in {"none", "started", "running", "stuck", "ended"}
  BY DEF IInv, TypeOK
<1>8. \A l \in Children : child'[l] = IF l = k THEN "running" ELSE child[l]
  BY <1>1 DEF IInv, TypeOK
<1>9. \A l \in Children : opened'[l] = IF l = k THEN removals[k[2]] ELSE opened[l]
  BY <1>1 DEF IInv, TypeOK
<1>10. \A i \in Slots : tables'[i] = IF i = k[2] THEN tables[i] \cup {etable[k[1]]} ELSE tables[i]
  BY <1>1 DEF IInv, TypeOK
<1>11. RowsInv'
  <2>1. \A r \in recorded : Writer(r) \in Children
    BY Parts DEF IInv, TypeOK, Asked
  <2> QED BY <1>1, <1>2, <1>8, <2>1 DEF IInv, RowsInv, Writer
<1>12. ChildInv'
  <2> SUFFICES ASSUME NEW l \in Children
               PROVE  /\ child'[l] # "none" => l[1] <= campaign /\ l[2] < pnum[l[1]]
                      /\ child'[l] \in {"started", "running", "stuck"} => Attended(l) \/ l[1] \in killed
                      /\ logged[l] <= Quota(l)
                      /\ child'[l] \in {"none", "started"} => logged[l] = 0
                      /\ opened'[l] <= removals[l[2]]
    BY <1>2 DEF ChildInv, Alive, Attended, Quota
  <2>1. removals[k[2]] \in Nat
    BY <1>3 DEF IInv, TypeOK
  <2> QED BY <1>1, <1>8, <1>9, <2>1 DEF IInv, ChildInv, Alive
<1>13. FileInv'
  <2> SUFFICES ASSUME NEW l \in Children, child'[l] = "running"
               PROVE  /\ Attended(l) => Linked(l)'
                      /\ Linked(l)' => etable[l[1]] \in tables'[l[2]]
                      /\ Linked(l)' => \A r \in recorded : Writer(r) = l => r \in rows[l[2]]
                      /\ Linked(l)' /\ logged[l] % Buffer = 0 =>
                            \A m \in 1 .. logged[l] : <<l[1], l[2], m>> \in rows[l[2]]
                      /\ ~Linked(l)' => \E c \in l[1] + 1 .. campaign : l[2] < pnum[c]
    BY <1>2 DEF FileInv, Attended, Writer
  <2>1. CASE l = k
    <3>1. Linked(l)' /\ etable[l[1]] \in tables'[l[2]]
      BY <1>2, <1>3, <1>9, <1>10, <2>1 DEF Linked
    <3>2. \A r \in recorded : Writer(r) # l
      BY <1>1, <2>1 DEF IInv, RowsInv
    <3>3. logged[l] = 0
      BY <1>1, <2>1 DEF IInv, ChildInv
    <3> QED BY <3>1, <3>2, <3>3
  <2>2. CASE l # k
    <3>1. child[l] = "running" /\ Linked(l)' = Linked(l)
      BY <1>2, <1>8, <1>9, <2>2 DEF Linked
    <3>2. tables[l[2]] \subseteq tables'[l[2]]
      BY <1>10, Parts
    <3> QED BY <3>1, <3>2 DEF IInv, FileInv
  <2> QED BY <2>1, <2>2
<1>14. CollisionNeedsOrphan'
  BY <1>1, <1>2, <1>8 DEF IInv, CollisionNeedsOrphan
<1>15. QuietMain'
  BY <1>2, <1>4 DEF IInv, QuietMain
<1>16. QuietSlots'
  <2> SUFFICES ASSUME ~failed, NEW i \in Slots
               PROVE  /\ Clean(i)' => tables'[i] = {} /\ rows[i] = {}
                      /\ pc \in {"pool", "collect"} => \A r \in rows[i] : r[1] = campaign
                      /\ Delivered(i)' =>
                           /\ etable[campaign] \in tables'[i]
                           /\ \A r \in Asked : r[1] = campaign /\ r[2] = i => r \in rows[i]
    BY <1>2, <1>4 DEF QuietSlots
  <2>1. pc = "pool" /\ Slot(k[2]) /\ k = <<campaign, k[2]>>
    BY <1>1, QuietChildren DEF Alive, Attended
  <2>2. (i # k[2] => tables'[i] = tables[i]) /\ tables[i] \subseteq tables'[i]
    BY <1>10
  <2>3. child'[<<campaign, i>>] = "ended" => child[<<campaign, i>>] = "ended"
    BY <1>3, <1>8, <2>1, Parts
  <2>4. (Clean(i)' => Clean(i) /\ i # k[2]) /\ (Delivered(i)' => Delivered(i))
    BY <1>2, <2>1, <2>3 DEF Clean, Delivered, Slot
  <2> QED BY <2>2, <2>4 DEF IInv, QuietSlots
<1> QED BY <1>4, <1>5, <1>6, <1>11, <1>12, <1>13, <1>14, <1>15, <1>16 DEF IInv

LEMMA DieInv == ASSUME IInv, NEW k \in Children, die(k) PROVE IInv'
<1>1. Alive(k) /\ child' = [child EXCEPT ![k] = "ended"] /\ failed'
  BY DEF die, Alive
<1>2. UNCHANGED <<pnum, etable, main, tables, rows, removals, logged, opened, pc, at, work,
                  campaign, recorded, orphaned, killed, interrupted>>
  BY DEF die, arguments, files, script
<1>3. \A l \in Children : child'[l] = IF l = k THEN "ended" ELSE child[l]
  BY <1>1 DEF IInv, TypeOK
<1>4. TypeOK'
  <2>1. Asked' = Asked
    BY <1>2 DEF Asked, Quota
  <2>2. child' \in [Children -> {"none", "started", "running", "stuck", "ended"}]
    BY <1>1 DEF IInv, TypeOK
  <2>3. failed' \in BOOLEAN
    BY DEF die
  <2> QED BY <1>2, <2>1, <2>2, <2>3 DEF IInv, TypeOK
<1>5. AtInv' /\ KilledInv' /\ CopiesInv' /\ CopiesBounded'
  BY <1>1, <1>2 DEF IInv, AtInv, KilledInv, CopiesInv, CopiesBounded, Slot
<1>6. CopiedInv' /\ LossExplained'
  BY <1>2 DEF IInv, CopiedInv, LossExplained, Overwritten, Slot, Asks
<1>7. RowsInv'
  <2>1. \A r \in recorded : Writer(r) \in Children
    BY Parts DEF IInv, TypeOK, Asked
  <2> QED BY <1>2, <1>3, <2>1 DEF IInv, RowsInv, Writer
<1>8. ChildInv'
  BY <1>1, <1>2, <1>3 DEF IInv, ChildInv, Alive, Attended, Quota
<1>9. FileInv' /\ CollisionNeedsOrphan'
  BY <1>2, <1>3 DEF IInv, FileInv, CollisionNeedsOrphan, Attended, Linked, Writer
<1>10. QuietMain' /\ QuietSlots'
  BY <1>1 DEF QuietMain, QuietSlots
<1> QED BY <1>4, <1>5, <1>6, <1>7, <1>8, <1>9, <1>10 DEF IInv

\* A child publishes its first l results and may end with them.
LEMMA PublishInv ==
    ASSUME IInv, NEW k \in Children, child[k] = "running",
           NEW l \in 0 .. Quota(k), logged' = [logged EXCEPT ![k] = l], Publish(k),
           NEW label \in {"running", "ended"}, label = "ended" => l = Quota(k),
           child' = [child EXCEPT ![k] = label],
           UNCHANGED <<arguments, main, tables, removals, opened, script, killed, failed, interrupted>>
    PROVE  IInv'
<1> DEFINE results == {<<k[1], k[2], m>> : m \in 1 .. l}
<1>1. UNCHANGED <<pnum, etable, main, tables, removals, opened, pc, at, work, campaign,
                  killed, failed, interrupted>>
  BY DEF arguments, script
<1>2. /\ k[1] \in Campaigns /\ k[2] \in Slots /\ k = <<k[1], k[2]>>
      /\ Quota(k) \in 0 .. Samples /\ l \in Nat
      /\ k[1] <= campaign /\ k[2] < pnum[k[1]]
  BY Parts, QuotaBounded DEF IInv, ChildInv
<1>3. \A r \in results : r \in Asked /\ Writer(r) = k /\ r[2] = k[2] /\ r[1] = k[1]
  <2> TAKE r \in results
  <2>1. PICK m \in 1 .. l : r = <<k[1], k[2], m>>
    OBVIOUS
  <2>2. m \in 1 .. Samples /\ m <= Quota(k)
    BY <1>2
  <2>3. r \in Rows /\ r[1] = k[1] /\ r[2] = k[2] /\ r[3] = m
    BY <1>2, <2>1, <2>2, Parts
  <2> QED BY <1>2, <2>2, <2>3 DEF Asked, Quota, Writer
<1>4. \A r \in Asked : l = Quota(k) /\ Writer(r) = k => r \in results
  <2> SUFFICES ASSUME NEW r \in Asked, l = Quota(k), Writer(r) = k PROVE r \in results
    OBVIOUS
  <2>1. r \in Rows /\ r[3] <= Quota(r)
    BY DEF Asked
  <2>2. r[1] = k[1] /\ r[2] = k[2] /\ r[3] \in 1 .. Samples /\ r = <<k[1], k[2], r[3]>>
    BY <2>1, Parts
  <2>3. r[3] \in 1 .. l
    BY <1>2, <2>1, <2>2 DEF Quota
  <2> QED BY <2>2, <2>3
<1>5. \A m \in 1 .. l : <<k[1], k[2], m>> \in results
  OBVIOUS
<1>6. \A j \in Children : /\ logged'[j] = IF j = k THEN l ELSE logged[j]
                          /\ child'[j] = IF j = k THEN label ELSE child[j]
  BY DEF IInv, TypeOK
<1>7. /\ rows' = IF Linked(k) THEN [rows EXCEPT ![k[2]] = @ \cup results] ELSE rows
      /\ recorded' = recorded \cup results
      /\ orphaned' = IF Attended(k) THEN orphaned ELSE orphaned \cup (results \ recorded)
  BY <1>6 DEF Publish
<1> HIDE DEF results
<1>8. \A i \in Slots : rows'[i] = IF Linked(k) /\ i = k[2] THEN rows[i] \cup results ELSE rows[i]
  BY <1>7 DEF IInv, TypeOK
<1>9. \A r \in results : /\ r \in Rows
                         /\ r \notin recorded => main[r] = 0 /\ (Attended(k) \/ r \in orphaned')
                         /\ r \in recorded /\ Linked(k) => r \in rows[k[2]]
  <2> TAKE r \in results
  <2>1. r \in Rows /\ main[r] \in Nat
    BY <1>3 DEF Asked, IInv, TypeOK
  <2> QED BY <1>3, <1>7, <2>1 DEF IInv, RowsInv, FileInv
<1>10. (Attended(k) => Linked(k)) /\ (~Attended(k) => k[1] \in killed)
  BY DEF IInv, FileInv, ChildInv, Alive
<1>11. Asked' = Asked
  BY <1>1 DEF Asked, Quota
<1>12. TypeOK'
  <2>1. rows' \in [Slots -> SUBSET Rows]
    BY <1>7, <1>9 DEF IInv, TypeOK
  <2>2. recorded' \subseteq Asked' /\ orphaned' \subseteq recorded'
    BY <1>3, <1>7, <1>11 DEF IInv, TypeOK
  <2>3. child' \in [Children -> {"none", "started", "running", "stuck", "ended"}]
    BY DEF IInv, TypeOK
  <2>4. logged' \in [Children -> 0 .. Samples]
    BY <1>2 DEF IInv, TypeOK
  <2> QED BY <1>1, <2>1, <2>2, <2>3, <2>4 DEF IInv, TypeOK
<1>13. AtInv' /\ KilledInv' /\ CopiesBounded'
  BY <1>1 DEF IInv, AtInv, KilledInv, CopiesBounded
<1>14. RowsInv'
  <2>1. \A r \in recorded : Writer(r) \in Children
    BY Parts DEF IInv, TypeOK, Asked
  <2>2. \A r \in recorded' : child'[Writer(r)] \in {"running", "stuck", "ended"}
    BY <1>3, <1>6, <1>7, <2>1 DEF IInv, RowsInv
  <2>3. \A i \in Slots : \A r \in rows'[i] : r \in recorded' /\ r[2] = i
    BY <1>3, <1>7, <1>8 DEF IInv, RowsInv
  <2>4. \A r \in orphaned' : r[1] \in killed
    BY <1>3, <1>7, <1>10 DEF IInv, RowsInv
  <2> QED BY <1>1, <1>7, <2>2, <2>3, <2>4 DEF IInv, RowsInv, Writer
<1>15. ChildInv'
  BY <1>1, <1>2, <1>6 DEF IInv, ChildInv, Alive, Attended, Quota
<1>16. FileInv'
  <2> SUFFICES ASSUME NEW j \in Children, child'[j] = "running"
               PROVE  /\ Attended(j) => Linked(j)
                      /\ Linked(j) => etable[j[1]] \in tables[j[2]]
                      /\ Linked(j) => \A r \in recorded' : Writer(r) = j => r \in rows'[j[2]]
                      /\ Linked(j) /\ logged'[j] % Buffer = 0 =>
                            \A m \in 1 .. logged'[j] : <<j[1], j[2], m>> \in rows'[j[2]]
                      /\ ~Linked(j) => \E c \in j[1] + 1 .. campaign : j[2] < pnum[c]
    BY <1>1 DEF FileInv, Attended, Linked, Writer
  <2>1. child[j] = "running" /\ j[2] \in Slots
    BY <1>6, Parts
  <2>2. CASE j = k
    <3>1. logged'[j] = l /\ (Linked(j) => rows'[j[2]] = rows[j[2]] \cup results)
      BY <1>6, <1>8, <2>1, <2>2
    <3>2. Linked(j) => \A r \in recorded : Writer(r) = j => r \in rows[j[2]]
      BY <2>1 DEF IInv, FileInv
    <3>3. \A m \in 1 .. l : <<j[1], j[2], m>> \in results
      BY <1>5, <2>2
    <3> QED BY <1>7, <2>1, <3>1, <3>2, <3>3 DEF IInv, FileInv
  <2>3. CASE j # k
    <3>1. \A r \in results : Writer(r) # j
      BY <1>3, <2>3
    <3>2. rows[j[2]] \subseteq rows'[j[2]] /\ logged'[j] = logged[j]
      BY <1>6, <1>8, <2>1, <2>3
    <3> QED BY <1>7, <2>1, <3>1, <3>2 DEF IInv, FileInv
  <2> QED BY <2>2, <2>3
<1>17. \A r \in Rows : r \in rows'[r[2]] /\ r \notin rows[r[2]] =>
         r \in results /\ r \notin recorded /\ main[r] = 0 /\ (Attended(k) \/ r \in orphaned')
  BY <1>8, <1>9, <1>3, Parts
<1>18. CopiedInv'
  <2>1. orphaned \subseteq orphaned' /\ \A r \in Rows : r \in rows[r[2]] => r \in rows'[r[2]]
    BY <1>7, <1>8, Parts
  <2>2. CASE pc = "collect"
    BY <1>1, <1>17, <2>1, <2>2 DEF IInv, CopiedInv, Asks, Attended
  <2>3. CASE pc = "remove"
    <3> SUFFICES ASSUME NEW i \in Slots, Slot(i), NEW r \in rows'[i], Asks(r), r \notin orphaned'
                 PROVE  main[r] > 0
      BY <1>1, <2>3 DEF CopiedInv, Slot, Asks
    <3>1. r[2] = i /\ r \in Rows
      BY <1>12, <1>14 DEF RowsInv, TypeOK
    <3>2. r \in rows[i] /\ r \notin orphaned
      BY <1>17, <2>1, <2>3, <3>1 DEF Attended
    <3> QED BY <2>3, <3>2 DEF IInv, CopiedInv
  <2> QED BY <1>1, <2>2, <2>3 DEF CopiedInv
<1>19. CopiesInv'
  <2>1. interrupted \in Nat
    BY DEF IInv, TypeOK
  <2> QED BY <1>1, <1>17, <2>1 DEF IInv, CopiesInv, Slot
<1>20. LossExplained'
  <2> SUFFICES ASSUME NEW r \in recorded' PROVE main[r] > 0 \/ r \in rows'[r[2]] \/ Overwritten(r)'
    BY <1>1 DEF LossExplained
  <2>1. r \in Rows /\ r[2] \in Slots
    BY <1>3, <1>7, Parts DEF IInv, TypeOK, Asked
  <2>2. CASE r \in recorded
    <3>1. orphaned \subseteq orphaned' /\ rows[r[2]] \subseteq rows'[r[2]]
      BY <1>7, <1>8, <2>1
    <3>2. Overwritten(r) => Overwritten(r)'
      BY <1>1, <3>1 DEF Overwritten
    <3> QED BY <2>2, <3>1, <3>2 DEF IInv, LossExplained
  <2>3. CASE r \in results /\ r \notin recorded
    <3>1. CASE Linked(k)
      BY <1>3, <1>8, <2>1, <2>3, <3>1
    <3>2. CASE ~Linked(k)
      <4>1. r \in orphaned' /\ r[1] = k[1] /\ r[2] = k[2]
        BY <1>3, <1>9, <1>10, <2>3, <3>2
      <4>2. \E c \in k[1] + 1 .. campaign : k[2] < pnum[c]
        BY <3>2 DEF IInv, FileInv
      <4> QED BY <1>1, <4>1, <4>2 DEF Overwritten
    <3> QED BY <3>1, <3>2
  <2> QED BY <1>7, <2>2, <2>3
<1>21. CollisionNeedsOrphan'
  BY <1>1, <1>6 DEF IInv, CollisionNeedsOrphan
<1>22. QuietMain'
  BY <1>1, <1>11 DEF IInv, QuietMain
<1>23. QuietSlots'
  <2> SUFFICES ASSUME ~failed, NEW i \in Slots
               PROVE  /\ Clean(i)' => tables[i] = {} /\ rows'[i] = {}
                      /\ pc \in {"pool", "collect"} => \A r \in rows'[i] : r[1] = campaign
                      /\ Delivered(i)' =>
                           /\ etable[campaign] \in tables[i]
                           /\ \A r \in Asked : r[1] = campaign /\ r[2] = i => r \in rows'[i]
    BY <1>1, <1>11 DEF QuietSlots
  <2>1. Attended(k) /\ pc = "pool" /\ k[1] = campaign /\ Slot(k[2]) /\ Linked(k)
    BY <1>10, QuietChildren DEF Alive, Attended
  <2>2. CASE i = k[2]
    <3>1. k = <<campaign, i>> /\ ~Clean(i)' /\ (Delivered(i)' => label = "ended")
      BY <1>1, <1>2, <1>6, <2>1, <2>2 DEF Clean, Delivered, Slot
    <3>2. etable[campaign] \in tables[i]
      BY <2>1, <2>2 DEF IInv, FileInv
    <3>3. \A r \in rows'[i] : r[1] = campaign
      BY <1>3, <1>8, <2>1 DEF IInv, QuietSlots
    <3>4. label = "ended" => \A r \in Asked : r[1] = campaign /\ r[2] = i => r \in rows'[i]
      BY <1>4, <1>8, <2>1, <2>2, <3>1 DEF Writer
    <3> QED BY <3>1, <3>2, <3>3, <3>4
  <2>3. CASE i # k[2]
    <3>1. child'[<<campaign, i>>] = child[<<campaign, i>>] /\ rows'[i] = rows[i]
      <4>1. <<campaign, i>> \in Children /\ <<campaign, i>> # k
        BY <1>2, <2>1, <2>3, Parts
      <4> QED BY <1>6, <1>8, <2>3, <4>1
    <3>2. Clean(i)' = Clean(i) /\ Delivered(i)' = Delivered(i)
      BY <1>1, <3>1 DEF Clean, Delivered, Slot
    <3> QED BY <3>1, <3>2 DEF IInv, QuietSlots
  <2> QED BY <2>2, <2>3
<1> QED BY <1>12, <1>13, <1>14, <1>15, <1>16, <1>18, <1>19, <1>20, <1>21, <1>22, <1>23 DEF IInv

\* Of two processes on one file, one is an orphan.
LEMMA SharedWithOrphan ==
    ASSUME IInv, NEW k \in Children, child[k] = "running", Shared(k)
    PROVE  \E c \in killed : k[2] < pnum[c]
<1>1. k[2] < pnum[k[1]] /\ (Attended(k) \/ k[1] \in killed)
  BY DEF IInv, ChildInv, Alive
<1>2. ASSUME NEW l \in Children \ {k}, l[2] = k[2], Alive(l) PROVE \E c \in killed : k[2] < pnum[c]
  <2>1. l[2] < pnum[l[1]] /\ (Attended(l) \/ l[1] \in killed)
    BY <1>2 DEF IInv, ChildInv, Alive
  <2>2. ~(Attended(k) /\ Attended(l))
    BY <1>2, Parts DEF Attended
  <2> QED BY <1>1, <1>2, <2>1, <2>2
<1>3. CASE pc = "collect"
  BY <1>1, <1>3 DEF Attended
<1> QED BY <1>2, <1>3 DEF Shared, Alive

\* A child that publishes nothing: its buffer is not full, or it is empty at the
\* end, or its COMMIT is refused.
LEMMA BufferInv ==
    ASSUME IInv, NEW k \in Children, child[k] = "running",
           NEW l \in 0 .. Quota(k), logged' = [logged EXCEPT ![k] = l],
           NEW label \in {"running", "stuck", "ended"}, child' = [child EXCEPT ![k] = label],
           label = "running" => l % Buffer # 0,
           label = "stuck" => Shared(k),
           label = "ended" => l = logged[k] /\ l = Quota(k) /\ l % Buffer = 0,
           UNCHANGED <<rows, recorded, orphaned>>,
           UNCHANGED <<arguments, main, tables, removals, opened, script, killed, failed, interrupted>>
    PROVE  IInv'
<1>1. UNCHANGED <<pnum, etable, main, tables, rows, removals, opened, pc, at, work, campaign,
                  recorded, orphaned, killed, failed, interrupted>>
  BY DEF arguments, script
<1>2. /\ k[1] \in Campaigns /\ k[2] \in Slots /\ k = <<k[1], k[2]>>
      /\ Quota(k) \in 0 .. Samples /\ l \in Nat
  BY Parts, QuotaBounded DEF IInv
<1>3. \A j \in Children : /\ logged'[j] = IF j = k THEN l ELSE logged[j]
                          /\ child'[j] = IF j = k THEN label ELSE child[j]
  BY DEF IInv, TypeOK
<1>4. TypeOK' /\ Asked' = Asked
  <2>1. Asked' = Asked
    BY <1>1 DEF Asked, Quota
  <2>2. child' \in [Children -> {"none", "started", "running", "stuck", "ended"}]
    BY DEF IInv, TypeOK
  <2>3. logged' \in [Children -> 0 .. Samples]
    BY <1>2 DEF IInv, TypeOK
  <2> QED BY <1>1, <2>1, <2>2, <2>3 DEF IInv, TypeOK
<1>5. AtInv' /\ KilledInv' /\ CopiesInv' /\ CopiesBounded'
  BY <1>1 DEF IInv, AtInv, KilledInv, CopiesInv, CopiesBounded, Slot
<1>6. CopiedInv' /\ LossExplained'
  BY <1>1 DEF IInv, CopiedInv, LossExplained, Overwritten, Slot, Asks
<1>7. RowsInv'
  <2>1. \A r \in recorded : Writer(r) \in Children
    BY Parts DEF IInv, TypeOK, Asked
  <2> QED BY <1>1, <1>3, <2>1 DEF IInv, RowsInv, Writer
<1>8. ChildInv'
  BY <1>1, <1>2, <1>3 DEF IInv, ChildInv, Alive, Attended, Quota
<1>9. FileInv'
  BY <1>1, <1>3 DEF IInv, FileInv, Attended, Linked, Writer
<1>10. CollisionNeedsOrphan'
  BY <1>1, <1>3, SharedWithOrphan DEF IInv, CollisionNeedsOrphan
<1>11. QuietMain'
  BY <1>1, <1>4 DEF IInv, QuietMain
<1>12. QuietSlots'
  <2> SUFFICES ASSUME ~failed, NEW i \in Slots, Delivered(i)'
               PROVE  /\ etable[campaign] \in tables[i]
                      /\ \A r \in Asked : r[1] = campaign /\ r[2] = i => r \in rows[i]
    BY <1>1, <1>4 DEF IInv, QuietSlots, Clean, Slot
  <2>1. Attended(k) /\ pc = "pool" /\ k[1] = campaign
    BY QuietChildren DEF Alive, Attended
  <2>2. CASE i = k[2]
    <3>1. label = "ended"
      BY <1>1, <1>2, <1>3, <2>1, <2>2 DEF Delivered
    <3>2. /\ etable[campaign] \in tables[i]
          /\ \A m \in 1 .. l : <<campaign, i, m>> \in rows[i]
      BY <2>1, <2>2, <3>1 DEF IInv, FileInv
    <3>3. ASSUME NEW r \in Asked, r[1] = campaign, r[2] = i PROVE r \in rows[i]
      <4>1. r \in Rows /\ r[3] <= Quota(r)
        BY DEF Asked
      <4>2. r[3] \in 1 .. l
        BY <1>2, <2>1, <3>1, <3>3, <4>1, Parts DEF Quota
      <4> QED BY <3>2, <3>3, <4>1, <4>2, Parts
    <3> QED BY <3>2, <3>3
  <2>3. CASE i # k[2]
    <3>1. <<campaign, i>> \in Children /\ <<campaign, i>> # k
      BY <1>2, <2>1, <2>3, Parts
    <3>2. Delivered(i)
      BY <1>1, <1>3, <3>1 DEF Delivered, Slot
    <3> QED BY <3>2 DEF IInv, QuietSlots
  <2> QED BY <2>2, <2>3
<1> QED BY <1>4, <1>5, <1>6, <1>7, <1>8, <1>9, <1>10, <1>11, <1>12 DEF IInv

LEMMA LogTrialInv == ASSUME IInv, NEW k \in Children, log_trial(k) PROVE IInv'
<1>1. /\ child[k] = "running" /\ logged' = [logged EXCEPT ![k] = logged[k] + 1]
      /\ UNCHANGED <<arguments, main, tables, removals, opened, script, killed, failed, interrupted>>
  BY DEF log_trial
<1> DEFINE l == logged[k] + 1
<1>2. l \in 0 .. Quota(k) /\ logged'[k] = l
  BY <1>1, QuotaBounded DEF IInv, TypeOK, log_trial
<1>3. logged' = [logged EXCEPT ![k] = l]
  BY <1>1
<1> HIDE DEF l
<1>4. CASE Full(k) /\ Publish(k) /\ child' = [child EXCEPT ![k] = "running"]
  BY <1>1, <1>2, <1>3, <1>4, PublishInv
<1>5. CASE Shared(k) /\ child' = [child EXCEPT ![k] = "stuck"] /\ UNCHANGED <<rows, recorded, orphaned>>
  BY <1>1, <1>2, <1>3, <1>5, BufferInv
<1>6. CASE ~Full(k) /\ child' = child /\ UNCHANGED <<rows, recorded, orphaned>>
  <2>1. child' = [child EXCEPT ![k] = "running"] /\ l % Buffer # 0
    BY <1>1, <1>2, <1>6 DEF IInv, TypeOK, Full
  <2> QED BY <1>1, <1>2, <1>3, <1>6, <2>1, BufferInv
<1> QED BY <1>4, <1>5, <1>6 DEF log_trial, flush

LEMMA EndInv == ASSUME IInv, NEW k \in Children, end(k) PROVE IInv'
<1> DEFINE l == logged[k]
<1>1. /\ child[k] = "running" /\ l = Quota(k) /\ logged'[k] = l
      /\ UNCHANGED <<arguments, main, tables, removals, opened, script, killed, failed, interrupted>>
  BY DEF end
<1>2. l \in 0 .. Quota(k) /\ logged' = [logged EXCEPT ![k] = l]
  BY <1>1, QuotaBounded DEF IInv, TypeOK, end
<1>3. CASE Publish(k) /\ child' = [child EXCEPT ![k] = "ended"]
  <2> HIDE DEF l
  <2> QED BY <1>1, <1>2, <1>3, PublishInv
<1>4. CASE Shared(k) /\ child' = [child EXCEPT ![k] = "stuck"] /\ UNCHANGED <<rows, recorded, orphaned>>
  BY <1>1, <1>2, <1>4, BufferInv
<1>5. CASE Full(k) /\ child' = [child EXCEPT ![k] = "ended"] /\ UNCHANGED <<rows, recorded, orphaned>>
  <2>1. l % Buffer = 0
    BY <1>1, <1>5 DEF Full
  <2> QED BY <1>1, <1>2, <1>5, <2>1, BufferInv
<1> QED BY <1>3, <1>4, <1>5 DEF end, flush

----------------------------------------------------------------------------

LEMMA StartInv == ASSUME IInv, start PROVE IInv'
<1>1. /\ pc = "idle" /\ pc' = "pool" /\ at' = 0
      /\ campaign \in 0 .. MaxCampaigns /\ campaign < MaxCampaigns /\ campaign' = campaign + 1
      /\ UNCHANGED <<pnum, etable, main, tables, rows, removals, logged, opened, work,
                     recorded, orphaned, killed, failed, interrupted>>
  BY DEF IInv, TypeOK, start, arguments, files, history
<1>2. campaign' \in Campaigns /\ campaign \in Nat
  BY <1>1 DEF Campaigns
<1>3. \A k \in Children :
         child'[k] = IF k[1] = campaign' /\ k[2] < pnum[k[1]] THEN "started" ELSE child[k]
  BY DEF start
<1>4. \A r \in Rows : /\ r \in Asked => r \in Asked' /\ r[1] <= campaign /\ r[1] # campaign'
                      /\ r \in Asked' /\ r[1] # campaign' => r \in Asked
  <2> TAKE r \in Rows
  <2>1. r[1] \in Nat /\ Quota(r)' = Quota(r)
    BY <1>1, Parts, Numbers DEF Quota
  <2> QED BY <1>1, <1>2, <2>1 DEF Asked
<1>5. \A k \in Children : child[k] # "none" => k[1] <= campaign /\ k[1] # campaign' /\ child'[k] = child[k]
  BY <1>1, <1>2, <1>3, Parts, Numbers DEF IInv, ChildInv
<1>6. TypeOK'
  <2>1. child' \in [Children -> {"none", "started", "running", "stuck", "ended"}]
    BY DEF start, IInv, TypeOK
  <2>2. recorded \subseteq Asked'
    BY <1>4 DEF IInv, TypeOK, Asked
  <2>3. campaign' \in 0 .. MaxCampaigns /\ at' \in 0 .. MaxSlots
    BY <1>1
  <2> QED BY <1>1, <2>1, <2>2, <2>3 DEF IInv, TypeOK
<1>7. AtInv' /\ KilledInv'
  <2>1. \A c \in killed : c <= campaign /\ c \in Nat
    BY Numbers DEF IInv, TypeOK, KilledInv
  <2>2. \A c \in killed : c <= campaign' /\ c # campaign'
    BY <1>1, <1>2, <2>1
  <2> QED BY <1>1, <1>2, <2>2 DEF IInv, AtInv, KilledInv
<1>8. RowsInv'
  <2>1. \A r \in recorded : Writer(r) \in Children /\ child[Writer(r)] # "none"
    BY Parts DEF IInv, TypeOK, Asked, RowsInv
  <2> QED BY <1>1, <1>5, <2>1 DEF IInv, RowsInv, Writer
<1>9. ChildInv'
  <2> SUFFICES ASSUME NEW k \in Children
               PROVE  /\ child'[k] # "none" => k[1] <= campaign' /\ k[2] < pnum[k[1]]
                      /\ Alive(k)' => Attended(k)' \/ k[1] \in killed
                      /\ logged[k] <= Quota(k)
                      /\ child'[k] \in {"none", "started"} => logged[k] = 0
                      /\ opened[k] <= removals[k[2]]
    BY <1>1 DEF ChildInv, Quota
  <2>1. k[1] \in Nat
    BY Parts, Numbers
  <2>2. child[k] \in {"none", "started", "running", "stuck", "ended"}
    BY DEF IInv, TypeOK
  <2>3. CASE child[k] # "none"
    BY <1>1, <1>2, <1>5, <2>1, <2>3 DEF IInv, ChildInv, Alive, Attended
  <2>4. CASE child[k] = "none"
    BY <1>1, <1>2, <1>3, <2>1, <2>4 DEF IInv, ChildInv, Alive, Attended
  <2> QED BY <2>3, <2>4
<1>10. FileInv'
  <2> SUFFICES ASSUME NEW k \in Children, child'[k] = "running"
               PROVE  /\ Attended(k)' => Linked(k)
                      /\ Linked(k) => etable[k[1]] \in tables[k[2]]
                      /\ Linked(k) => \A r \in recorded : Writer(r) = k => r \in rows[k[2]]
                      /\ Linked(k) /\ logged[k] % Buffer = 0 =>
                            \A m \in 1 .. logged[k] : <<k[1], k[2], m>> \in rows[k[2]]
                      /\ ~Linked(k) => \E c \in k[1] + 1 .. campaign' : k[2] < pnum[c]
    BY <1>1 DEF FileInv, Linked, Writer
  <2>1. child[k] = "running" /\ k[1] # campaign'
    BY <1>3, <1>5
  <2>2. k[1] + 1 .. campaign \subseteq k[1] + 1 .. campaign'
    BY <1>1, <1>2
  <2> QED BY <2>1, <2>2 DEF IInv, FileInv, Attended
<1>11. CopiedInv' /\ CopiesInv' /\ CopiesBounded'
  BY <1>1 DEF IInv, CopiedInv, CopiesInv, CopiesBounded
<1>12. LossExplained'
  <2> SUFFICES ASSUME NEW r \in recorded PROVE Overwritten(r) => Overwritten(r)'
    BY <1>1 DEF IInv, LossExplained
  <2>1. r[1] + 1 .. campaign \subseteq r[1] + 1 .. campaign'
    BY <1>1, <1>2
  <2> QED BY <1>1, <2>1 DEF Overwritten
<1>13. CollisionNeedsOrphan'
  BY <1>1, <1>3 DEF IInv, CollisionNeedsOrphan
<1>14. QuietMain'
  BY <1>1, <1>4 DEF IInv, QuietMain, One
<1>15. QuietSlots'
  <2> SUFFICES ASSUME ~failed, NEW i \in Slots PROVE tables[i] = {} /\ rows[i] = {} /\ ~Delivered(i)'
    BY <1>1 DEF QuietSlots
  <2>1. tables[i] = {} /\ rows[i] = {}
    BY <1>1 DEF IInv, QuietSlots, Clean
  <2>2. Slot(i)' => child'[<<campaign', i>>] = "started"
    BY <1>1, <1>2, <1>3, Parts DEF Slot
  <2> QED BY <1>1, <2>1, <2>2 DEF Delivered
<1> QED BY <1>6, <1>7, <1>8, <1>9, <1>10, <1>11, <1>12, <1>13, <1>14, <1>15 DEF IInv

\* A step of the script in a campaign, with the script's own variables: the files
\* and the children stay, and so does whatever does not look at the script.
LEMMA ScriptFrame ==
    ASSUME IInv, UNCHANGED <<arguments, files, children, campaign, recorded, orphaned>>
    PROVE  /\ Asked' = Asked
           /\ \A k \in Children : Alive(k)' = Alive(k) /\ Linked(k)' = Linked(k) /\ Quota(k)' = Quota(k)
           /\ \A i \in Slots : Slot(i)' = Slot(i)
           /\ \A r \in Rows : Overwritten(r)' = Overwritten(r) /\ Asks(r)' = Asks(r)
           /\ (\A k \in Children : Attended(k)' => Attended(k)) => FileInv'
           /\ /\ killed \subseteq killed'
              /\ \A k \in Children : Alive(k) /\ Attended(k) => Attended(k)' \/ k[1] \in killed'
              => ChildInv'
<1>1. UNCHANGED <<pnum, etable, tables, rows, removals, child, logged, opened, campaign, recorded, orphaned>>
  BY DEF arguments, files, children
<1>2. \A k : Alive(k)' = Alive(k) /\ Linked(k)' = Linked(k) /\ Quota(k)' = Quota(k)
  BY <1>1 DEF Alive, Linked, Quota
<1>3. Asked' = Asked
  BY <1>1, <1>2 DEF Asked
<1>4. \A i : Slot(i)' = Slot(i)
  BY <1>1 DEF Slot
<1>5. \A r : Overwritten(r)' = Overwritten(r) /\ Asks(r)' = Asks(r)
  BY <1>1 DEF Overwritten, Asks
<1>6. ASSUME \A k \in Children : Attended(k)' => Attended(k) PROVE FileInv'
  BY <1>1, <1>2, <1>6 DEF IInv, FileInv, Writer
<1>7. ASSUME killed \subseteq killed',
             \A k \in Children : Alive(k) /\ Attended(k) => Attended(k)' \/ k[1] \in killed'
      PROVE  ChildInv'
  BY <1>1, <1>2, <1>7 DEF IInv, ChildInv
<1> QED BY <1>2, <1>3, <1>4, <1>5, <1>6, <1>7

LEMMA JoinInv == ASSUME IInv, join PROVE IInv'
<1>1. /\ pc = "pool" /\ pc' = "collect" /\ at' = 0 /\ work' = main
      /\ UNCHANGED <<arguments, main, files, children, campaign, recorded, orphaned, killed, failed, interrupted>>
  BY DEF join, history
<1>2. \A i \in Slots : Slot(i) => child[<<campaign, i>>] = "ended"
  BY DEF join
<1>3. UNCHANGED <<tables, rows, removals, child, logged, opened, pnum, etable>>
  BY <1>1 DEF files, children, arguments
<1> USE ScriptFrame
<1>5. TypeOK'
  BY <1>1, <1>3 DEF IInv, TypeOK
<1>6. AtInv' /\ KilledInv' /\ RowsInv' /\ CopiesBounded'
  BY <1>1, <1>3 DEF IInv, TypeOK, AtInv, KilledInv, RowsInv, CopiesBounded, Writer
<1>7. \A k \in Children : ~Attended(k)' /\ ~(Alive(k) /\ Attended(k))
  <2> SUFFICES ASSUME NEW k \in Children, Alive(k), Attended(k) PROVE FALSE
    BY <1>1 DEF Attended
  <2>1. k = <<campaign, k[2]>> /\ k[2] \in Slots /\ Slot(k[2])
    BY Parts DEF IInv, ChildInv, Alive, Attended, Slot
  <2> QED BY <1>2, <2>1 DEF Alive
<1>8. ChildInv' /\ FileInv'
  BY <1>1, <1>7
<1>9. CopiedInv'
  BY <1>1, Parts, Numbers DEF CopiedInv
<1>10. CopiesInv' /\ LossExplained' /\ CollisionNeedsOrphan'
  <2>1. LossExplained'
    BY <1>1, <1>3 DEF IInv, TypeOK, Asked, LossExplained
  <2> QED BY <1>1, <1>3, <2>1 DEF IInv, CopiesInv, CollisionNeedsOrphan
<1>11. QuietMain' /\ QuietSlots'
  <2>1. \A i \in Slots : (Clean(i)' => Clean(i)) /\ (Delivered(i)' => Delivered(i))
    BY <1>1, <1>2 DEF Clean, Delivered
  <2> QED BY <1>1, <1>3, <2>1 DEF IInv, QuietMain, QuietSlots
<1> QED BY <1>5, <1>6, <1>8, <1>9, <1>10, <1>11 DEF IInv

LEMMA CollectInv == ASSUME IInv, collect PROVE IInv'
<1>1. /\ pc = "collect" /\ pc' = pc /\ at' = at + 1 /\ work' = Copied /\ Slot(at)
      /\ UNCHANGED <<arguments, main, files, children, campaign, recorded, orphaned, killed, failed, interrupted>>
  BY DEF collect, history
<1>2. UNCHANGED <<tables, rows, removals, child, logged, opened, pnum, etable>>
  BY <1>1 DEF files, children, arguments
<1> USE ScriptFrame
<1>3. campaign \in Campaigns /\ pnum[campaign] \in 1 .. MaxSlots /\ at \in Slots /\ at \in Nat
  BY <1>1 DEF IInv, TypeOK, AtInv, Slot, Slots
<1>4. \A r \in Rows : work'[r] = work[r] + (IF r \in rows[at] /\ Asks(r) THEN 1 ELSE 0)
  BY <1>1 DEF Copied
<1>5. TypeOK'
  <2>1. work' \in [Rows -> Nat]
    BY <1>1 DEF IInv, TypeOK, Copied
  <2>2. at' \in 0 .. MaxSlots
    BY <1>1, <1>3, Numbers
  <2> QED BY <1>1, <1>2, <2>1, <2>2 DEF IInv, TypeOK
<1>6. AtInv' /\ KilledInv' /\ RowsInv' /\ CopiesBounded'
  BY <1>1, <1>2, <1>3 DEF IInv, AtInv, KilledInv, RowsInv, CopiesBounded, Writer, Slot
<1>7. ChildInv' /\ FileInv'
  BY <1>1 DEF Attended
<1>8. CopiedInv'
  <2> SUFFICES ASSUME NEW r \in Rows
               PROVE  /\ work'[r] = main[r] \/ (work'[r] = main[r] + 1 /\ r[2] < at + 1 /\ r \in rows[r[2]])
                      /\ r[2] < at + 1 /\ r \in rows[r[2]] /\ Asks(r) /\ r \notin orphaned =>
                            work'[r] = main[r] + 1
    BY <1>1, <1>2 DEF CopiedInv
  <2>1. /\ work[r] = main[r] \/ (work[r] = main[r] + 1 /\ r[2] < at /\ r \in rows[r[2]])
        /\ r[2] < at /\ r \in rows[r[2]] /\ Asks(r) /\ r \notin orphaned => work[r] = main[r] + 1
    BY <1>1 DEF IInv, CopiedInv
  <2>2. main[r] \in Nat /\ work[r] \in Nat /\ r[2] \in Nat
    BY Parts, Numbers DEF IInv, TypeOK
  <2>3. r \in rows[at] => r[2] = at
    BY <1>3 DEF IInv, RowsInv
  <2> QED BY <1>3, <1>4, <2>1, <2>2, <2>3
<1>9. CopiesInv' /\ LossExplained' /\ CollisionNeedsOrphan'
  <2>1. LossExplained'
    BY <1>1, <1>2 DEF IInv, TypeOK, Asked, LossExplained
  <2> QED BY <1>1, <1>2, <2>1 DEF IInv, CopiesInv, CollisionNeedsOrphan
<1>10. QuietMain' /\ QuietSlots'
  <2>1. \A i \in Slots : Clean(i)' = Clean(i) /\ Delivered(i)' = Delivered(i)
    BY <1>1, <1>2 DEF Clean, Delivered
  <2> QED BY <1>1, <1>2, <2>1 DEF IInv, QuietMain, QuietSlots
<1> QED BY <1>5, <1>6, <1>7, <1>8, <1>9, <1>10 DEF IInv

LEMMA CollectRaisesInv == ASSUME IInv, collect_raises PROVE IInv'
<1>1. /\ pc = "collect" /\ pc' = "idle" /\ Slot(at) /\ etable[campaign] \notin tables[at]
      /\ UNCHANGED <<arguments, main, files, children, at, work, campaign, recorded, orphaned,
                     killed, failed, interrupted>>
  BY DEF collect_raises, history
<1>2. UNCHANGED <<tables, rows, removals, child, logged, opened, pnum, etable>>
  BY <1>1 DEF files, children, arguments
<1> USE ScriptFrame
<1>3. at \in Slots
  BY <1>1 DEF IInv, TypeOK, AtInv, Slot, Slots
<1>4. failed
  BY <1>1, <1>3 DEF IInv, QuietSlots, Delivered
<1>5. TypeOK'
  BY <1>1, <1>2 DEF IInv, TypeOK
<1>6. AtInv' /\ KilledInv' /\ RowsInv' /\ CopiedInv' /\ CopiesBounded'
  BY <1>1, <1>2, <1>4 DEF IInv, AtInv, KilledInv, RowsInv, CopiedInv, CopiesBounded, Writer
<1>7. ChildInv' /\ FileInv'
  BY <1>1 DEF Attended
<1>8. CopiesInv' /\ LossExplained' /\ CollisionNeedsOrphan'
  <2>1. LossExplained'
    BY <1>1, <1>2 DEF IInv, TypeOK, Asked, LossExplained
  <2> QED BY <1>1, <1>2, <2>1 DEF IInv, CopiesInv, CollisionNeedsOrphan
<1>9. QuietMain' /\ QuietSlots'
  BY <1>1, <1>4 DEF QuietMain, QuietSlots
<1> QED BY <1>5, <1>6, <1>7, <1>8, <1>9 DEF IInv

\* What the transaction has when every slot has been read.
LEMMA AllCopied ==
    ASSUME IInv, commit, NEW r \in Rows
    PROVE  /\ main[r] \in Nat /\ main'[r] = work[r]
           /\ main'[r] = main[r] \/ (main'[r] = main[r] + 1 /\ Slot(r[2]) /\ r \in rows[r[2]])
           /\ Slot(r[2]) /\ r \in rows[r[2]] /\ Asks(r) /\ r \notin orphaned => main'[r] = main[r] + 1
<1>1. pc = "collect" /\ at = pnum[campaign]
  BY DEF IInv, TypeOK, AtInv, commit, Slot
<1> QED BY <1>1 DEF IInv, TypeOK, CopiedInv, commit, Slot

LEMMA CommitInv == ASSUME IInv, commit PROVE IInv'
<1>1. /\ pc = "collect" /\ pc' = "remove" /\ at' = 0
      /\ UNCHANGED <<arguments, files, children, work, campaign, recorded, orphaned, killed, failed, interrupted>>
  BY DEF commit, history
<1>2. UNCHANGED <<tables, rows, removals, child, logged, opened, pnum, etable>>
  BY <1>1 DEF files, children, arguments
<1> USE ScriptFrame, AllCopied
<1>3. campaign \in Campaigns /\ pnum[campaign] \in 1 .. MaxSlots
  BY <1>1 DEF IInv, TypeOK, AtInv
<1>4. TypeOK'
  <2>1. main' \in [Rows -> Nat]
    BY DEF IInv, TypeOK, commit
  <2> QED BY <1>1, <1>2, <2>1 DEF IInv, TypeOK
<1>5. AtInv' /\ KilledInv'
  BY <1>1, <1>2, <1>3 DEF IInv, AtInv, KilledInv
<1>6. RowsInv'
  <2>1. \A r \in Rows : r \in rows[r[2]] => r \in recorded
    BY Parts DEF IInv, RowsInv
  <2> QED BY <1>1, <1>2, <2>1 DEF IInv, RowsInv, Writer
<1>7. ChildInv' /\ FileInv'
  BY <1>1 DEF Attended
<1>8. CopiedInv'
  <2> SUFFICES ASSUME NEW i \in Slots, Slot(i), NEW r \in rows[i], Asks(r), r \notin orphaned
               PROVE  main'[r] > 0
    BY <1>1, <1>2 DEF CopiedInv, Slot, Asks
  <2>1. r \in Rows /\ r[2] = i
    BY DEF IInv, TypeOK, RowsInv
  <2> QED BY <2>1
<1>9. LossExplained'
  BY <1>1, <1>2 DEF IInv, TypeOK, Asked, LossExplained
<1>10. CopiesInv' /\ CopiesBounded'
  <2> SUFFICES ASSUME NEW r \in Rows
               PROVE  /\ r \in rows[r[2]] /\ ~Slot(r[2]) => main'[r] <= interrupted
                      /\ main'[r] <= 1 + interrupted
    BY <1>1, <1>2, Parts, Numbers DEF CopiesInv, CopiesBounded
  <2>1. interrupted \in Nat /\ main[r] <= 1 + interrupted /\ (r \in rows[r[2]] => main[r] <= interrupted)
    BY <1>1 DEF IInv, TypeOK, CopiesInv, CopiesBounded
  <2> QED BY <2>1
<1>11. CollisionNeedsOrphan'
  BY <1>1, <1>2 DEF IInv, CollisionNeedsOrphan
<1>12. QuietMain'
  <2> SUFFICES ASSUME ~failed, NEW r \in Rows PROVE main'[r] = One(r \in Asked)
    BY <1>1 DEF QuietMain
  <2>1. main[r] = One(r \in Asked /\ r[1] # campaign) /\ orphaned = {}
    BY <1>1 DEF IInv, QuietMain, KilledInv, RowsInv
  <2>2. r \in rows[r[2]] => r \in Asked /\ r[1] = campaign
    BY <1>1, Parts DEF IInv, TypeOK, QuietSlots, RowsInv
  <2>3. r \in Asked /\ r[1] = campaign => Slot(r[2]) /\ r \in rows[r[2]] /\ Asks(r)
    BY <1>1, Parts DEF IInv, QuietSlots, Delivered, Asked, Slot, Asks
  <2> QED BY <2>1, <2>2, <2>3 DEF One
<1>13. QuietSlots'
  <2>1. \A i \in Slots : Clean(i)' = Clean(i) /\ ~Delivered(i)'
    BY <1>1, Numbers DEF Clean, Delivered
  <2> QED BY <1>1, <1>2, <2>1 DEF IInv, QuietSlots
<1> QED BY <1>4, <1>5, <1>6, <1>7, <1>8, <1>9, <1>10, <1>11, <1>12, <1>13 DEF IInv

LEMMA RemoveInv == ASSUME IInv, remove PROVE IInv'
<1>1. /\ pc = "remove" /\ at' = at + 1
      /\ pc' = IF at + 1 = pnum[campaign] THEN "idle" ELSE "remove"
      /\ UNCHANGED <<pnum, etable, main, child, logged, opened, work, campaign, recorded, orphaned,
                     killed, failed, interrupted>>
  BY DEF remove, arguments, children, history, LastSlot
<1>2. /\ campaign \in Campaigns /\ campaign \in Nat /\ pnum[campaign] \in 1 .. MaxSlots
      /\ at \in Slots /\ at \in Nat /\ at < pnum[campaign] /\ campaign \notin killed
  BY <1>1, Numbers DEF IInv, TypeOK, AtInv, KilledInv, Slots
<1>3. \A i \in Slots : /\ tables'[i] = IF i = at THEN {} ELSE tables[i]
                       /\ rows'[i] = IF i = at THEN {} ELSE rows[i]
                       /\ removals'[i] = IF i = at THEN removals[i] + 1 ELSE removals[i]
  BY DEF remove, IInv, TypeOK
<1>4. TypeOK' /\ Asked' = Asked
  <2>1. Asked' = Asked
    BY <1>1 DEF Asked, Quota
  <2>2. tables' \in [Slots -> SUBSET Tables] /\ rows' \in [Slots -> SUBSET Rows]
    BY DEF remove, IInv, TypeOK
  <2>3. removals' \in [Slots -> Nat]
    <3>1. removals \in [Slots -> Nat] /\ removals[at] + 1 \in Nat
      BY <1>2 DEF IInv, TypeOK
    <3>2. removals' = [removals EXCEPT ![at] = removals[at] + 1]
      BY DEF remove
    <3> QED BY <3>1, <3>2
  <2>4. at' \in 0 .. MaxSlots
    BY <1>1, <1>2
  <2> QED BY <1>1, <2>1, <2>2, <2>3, <2>4 DEF IInv, TypeOK
<1>5. AtInv' /\ KilledInv' /\ CopiesBounded'
  BY <1>1, <1>2 DEF IInv, AtInv, KilledInv, CopiesBounded
<1>6. \A k \in Children : ~Attended(k) /\ ~Attended(k)'
  BY <1>1 DEF Attended
<1>7. RowsInv'
  BY <1>1, <1>3 DEF IInv, RowsInv, Writer
<1>8. ChildInv'
  <2> SUFFICES ASSUME NEW k \in Children PROVE opened[k] <= removals'[k[2]]
    BY <1>1, <1>6 DEF IInv, ChildInv, Alive, Quota
  <2>1. k[2] \in Slots /\ removals[k[2]] \in Nat /\ opened[k] \in Nat /\ opened[k] <= removals[k[2]]
    BY Parts DEF IInv, TypeOK, ChildInv
  <2> QED BY <1>3, <2>1
<1>9. FileInv'
  <2> SUFFICES ASSUME NEW k \in Children, child[k] = "running"
               PROVE  /\ Linked(k)' => etable[k[1]] \in tables'[k[2]]
                      /\ Linked(k)' => \A r \in recorded : Writer(r) = k => r \in rows'[k[2]]
                      /\ Linked(k)' /\ logged[k] % Buffer = 0 =>
                            \A m \in 1 .. logged[k] : <<k[1], k[2], m>> \in rows'[k[2]]
                      /\ ~Linked(k)' => \E c \in k[1] + 1 .. campaign : k[2] < pnum[c]
    BY <1>1, <1>6 DEF FileInv, Writer
  <2>1. /\ k[1] \in Campaigns /\ k[1] \in Nat /\ k[2] \in Slots
        /\ removals[k[2]] \in Nat /\ opened[k] \in Nat /\ opened[k] <= removals[k[2]]
    BY Parts, Numbers DEF IInv, TypeOK, ChildInv
  <2>2. CASE k[2] = at
    <3>1. ~Linked(k)'
      BY <1>1, <1>3, <2>1, <2>2 DEF Linked
    <3>2. k[1] <= campaign /\ k[1] \in killed
      BY <1>6 DEF IInv, ChildInv, Alive
    <3>3. campaign \in k[1] + 1 .. campaign
      BY <1>2, <2>1, <3>2
    <3> QED BY <1>2, <2>2, <3>1, <3>3
  <2>3. CASE k[2] # at
    <3>1. Linked(k)' = Linked(k) /\ tables'[k[2]] = tables[k[2]] /\ rows'[k[2]] = rows[k[2]]
      BY <1>1, <1>3, <2>1, <2>3 DEF Linked
    <3> QED BY <3>1 DEF IInv, FileInv
  <2> QED BY <2>2, <2>3
<1>10. CopiedInv'
  <2> SUFFICES ASSUME pc' = "remove", NEW i \in Slots, Slot(i), NEW r \in rows'[i], Asks(r), r \notin orphaned
               PROVE  main[r] > 0
    BY <1>1 DEF CopiedInv, Slot, Asks
  <2>1. r \in rows[i]
    BY <1>3
  <2> QED BY <1>1, <2>1 DEF IInv, CopiedInv
<1>11. CopiesInv'
  <2> SUFFICES ASSUME NEW r \in Rows, r \in rows'[r[2]], ~(pc' = "remove" /\ at' <= r[2] /\ Slot(r[2]))
               PROVE  main[r] <= interrupted
    BY <1>1 DEF CopiesInv, Slot
  <2>1. r[2] \in Slots /\ r[2] \in Nat
    BY Parts, Numbers
  <2>2. r[2] # at /\ r \in rows[r[2]]
    BY <1>3, <2>1
  <2>3. ~(at <= r[2] /\ Slot(r[2]))
    BY <1>1, <1>2, <2>1, <2>2 DEF Slot
  <2> QED BY <2>2, <2>3 DEF IInv, CopiesInv
<1>12. LossExplained'
  <2> SUFFICES ASSUME NEW r \in recorded PROVE main[r] > 0 \/ r \in rows'[r[2]] \/ Overwritten(r)
    BY <1>1 DEF LossExplained, Overwritten
  <2>1. r \in Rows /\ r[1] \in Nat /\ r[2] \in Slots /\ r[1] <= campaign
    BY Parts, Numbers DEF IInv, TypeOK, Asked
  <2>2. CASE r \in rows[at] /\ main[r] = 0
    <3>1. r[2] = at /\ (~Asks(r) \/ r \in orphaned)
      BY <1>1, <1>2, <2>2 DEF IInv, RowsInv, CopiedInv, Slot
    <3>2. r[1] # campaign
      BY <1>2, <3>1 DEF Asks, IInv, RowsInv
    <3>3. campaign \in r[1] + 1 .. campaign
      BY <1>2, <2>1, <3>2
    <3> QED BY <1>2, <3>1, <3>3 DEF Overwritten, Asks
  <2>3. CASE ~(r \in rows[at] /\ main[r] = 0)
    <3>1. main[r] \in Nat
      BY <2>1 DEF IInv, TypeOK
    <3> QED BY <1>3, <2>1, <2>3, <3>1 DEF IInv, LossExplained
  <2> QED BY <2>2, <2>3
<1>13. CollisionNeedsOrphan'
  BY <1>1 DEF IInv, CollisionNeedsOrphan
<1>14. QuietMain'
  BY <1>1, <1>4 DEF IInv, QuietMain
<1>15. QuietSlots'
  <2> SUFFICES ASSUME ~failed, NEW i \in Slots, Clean(i)' PROVE tables'[i] = {} /\ rows'[i] = {}
    BY <1>1 DEF QuietSlots, Delivered
  <2>1. i \in Nat
    BY Numbers
  <2>2. i = at \/ Clean(i)
    BY <1>1, <1>2, <2>1 DEF Clean, Slot
  <2> QED BY <1>3, <2>2 DEF IInv, QuietSlots
<1> QED BY <1>4, <1>5, <1>7, <1>8, <1>9, <1>10, <1>11, <1>12, <1>13, <1>14, <1>15 DEF IInv

LEMMA KillInv == ASSUME IInv, kill PROVE IInv'
<1>1. /\ pc # "idle" /\ pc' = "idle" /\ failed'
      /\ killed' = IF pc = "pool" THEN killed \cup {campaign} ELSE killed
      /\ interrupted' = IF pc = "remove" THEN interrupted + 1 ELSE interrupted
      /\ UNCHANGED <<arguments, main, files, children, at, work, campaign, recorded, orphaned>>
  BY DEF kill
<1>2. UNCHANGED <<tables, rows, removals, child, logged, opened, pnum, etable>>
  BY <1>1 DEF files, children, arguments
<1> USE ScriptFrame
<1>3. /\ campaign \in Campaigns /\ campaign \in Nat /\ interrupted \in Nat
      /\ pc \in {"idle", "pool", "collect", "remove"}
  BY <1>1, Numbers DEF IInv, TypeOK, AtInv
<1>4. TypeOK'
  <2>1. failed' \in BOOLEAN /\ killed' \subseteq Campaigns /\ interrupted' \in Nat
    BY <1>1, <1>3 DEF IInv, TypeOK, kill
  <2> QED BY <1>1, <1>2, <2>1 DEF IInv, TypeOK
<1>5. AtInv' /\ KilledInv' /\ RowsInv' /\ CopiedInv'
  BY <1>1, <1>2, <1>3 DEF IInv, AtInv, KilledInv, RowsInv, CopiedInv, Writer
<1>6. ChildInv' /\ FileInv'
  BY <1>1 DEF Attended
<1>7. CopiesInv' /\ CopiesBounded'
  <2> SUFFICES ASSUME NEW r \in Rows
               PROVE  /\ r \in rows[r[2]] => main[r] <= interrupted'
                      /\ main[r] <= 1 + interrupted'
    BY <1>1, <1>2 DEF CopiesInv, CopiesBounded
  <2>1. main[r] \in Nat /\ main[r] <= 1 + interrupted
    BY DEF IInv, TypeOK, CopiesBounded
  <2>2. pc # "remove" /\ r \in rows[r[2]] => main[r] <= interrupted
    BY DEF IInv, CopiesInv
  <2> QED BY <1>1, <1>3, <2>1, <2>2
<1>8. LossExplained'
  BY <1>1, <1>2 DEF IInv, TypeOK, Asked, LossExplained
<1>9. CollisionNeedsOrphan'
  BY <1>1, <1>2 DEF IInv, CollisionNeedsOrphan
<1>10. QuietMain' /\ QuietSlots'
  BY <1>1 DEF QuietMain, QuietSlots
<1> QED BY <1>4, <1>5, <1>6, <1>7, <1>8, <1>9, <1>10 DEF IInv

----------------------------------------------------------------------------

LEMMA NextInv == ASSUME IInv, [Next]_vars PROVE IInv'
<1>1. ASSUME NEW k \in Children, Child(k) \/ die(k) PROVE IInv'
  BY <1>1, ConnectInv, LogTrialInv, EndInv, DieInv DEF Child
<1>2. CASE start \/ Script \/ kill
  BY <1>2, StartInv, JoinInv, CollectInv, CollectRaisesInv, CommitInv, RemoveInv, KillInv DEF Script
<1>3. CASE Finished \/ UNCHANGED vars
  BY <1>3, StutterInv DEF Finished
<1> QED BY <1>1, <1>2, <1>3 DEF Next

\* Every step of script and children keeps the invariant.
THEOREM Invariance == Spec => []IInv
<1>1. Init => IInv
  BY InitInv
<1>2. IInv /\ [Next]_vars => IInv'
  BY NextInv
<1> QED BY <1>1, <1>2, PTL DEF Spec

\* Type correctness.
THEOREM TypeCorrect == Spec => []TypeOK
<1>1. IInv => TypeOK
  BY DEF IInv
<1> QED BY <1>1, Invariance, PTL

\* What a child has committed is in a database, or lost in one of two ways: its
\* script was dead by then, or the slot's next campaign is on another table.
THEOREM LossCorrect == Spec => []LossExplained
<1>1. IInv => LossExplained
  BY DEF IInv
<1> QED BY <1>1, Invariance, PTL

\* Only a kill between the commit and the end of the removals copies twice.
THEOREM CopiesCorrect == Spec => []CopiesBounded
<1>1. IInv => CopiesBounded
  BY DEF IInv
<1> QED BY <1>1, Invariance, PTL

\* Only orphans collide.
THEOREM CollisionCorrect == Spec => []CollisionNeedsOrphan
<1>1. IInv => CollisionNeedsOrphan
  BY DEF IInv
<1> QED BY <1>1, Invariance, PTL

\* Campaigns in which nothing died delivered what they asked their children for.
THEOREM QuietCorrect == Spec => []QuietDelivers
<1>1. IInv => QuietDelivers
  BY DEF IInv, QuietMain, QuietSlots, Clean, QuietDelivers, One
<1> QED BY <1>1, Invariance, PTL

\* The main database only changes by the commit of all slots.
THEOREM TogetherCorrect == Spec => CollectedTogether
<1> DEFINE Together ==
      main' # main =>
        /\ \A r \in Rows : main'[r] >= main[r]
        /\ \A i \in Slots : Slot(i) =>
              \A r \in rows[i] : Asks(r) /\ r \notin orphaned => main'[r] > 0
<1>1. ASSUME IInv, [Next]_vars PROVE [Together]_vars
  <2>1. CASE main' = main
    BY <2>1
  <2>2. CASE commit
    <3>1. \A i \in Slots : \A r \in rows[i] : r \in Rows /\ r[2] = i
      BY <1>1 DEF IInv, TypeOK, RowsInv
    <3> QED BY <1>1, <2>2, <3>1, AllCopied
  <2>3. main' = main \/ commit
    BY <1>1 DEF Next, Child, Script, Finished, vars, connect, log_trial, end, die, start, join,
             collect, collect_raises, remove, kill
  <2> QED BY <2>1, <2>2, <2>3
<1>2. IInv /\ [Next]_vars => [Together]_vars
  BY <1>1
<1> QED BY <1>2, Invariance, PTL DEF Spec, CollectedTogether

----------------------------------------------------------------------------
(* Why a campaign ends. *)

\* Every slot of the campaign has a child while the script waits in its pool.
PoolInv ==
    pc = "pool" => \A i \in Slots : Slot(i) => child[<<campaign, i>>] # "none"

THEOREM PoolInvariance == Spec => []PoolInv
<1>1. ASSUME IInv, PoolInv, [Next]_vars PROVE PoolInv'
  <2>1. CASE start
    <3>1. campaign' \in Campaigns /\ UNCHANGED pnum
      BY <1>1, <2>1, Numbers DEF start, arguments, IInv, TypeOK, Campaigns
    <3> QED BY <2>1, <3>1, Parts DEF start, PoolInv, Slot
  <2>2. ASSUME NEW k \in Children, Child(k) \/ die(k) PROVE PoolInv'
    <3>1. UNCHANGED <<pc, pnum, campaign>>
      BY <2>2 DEF Child, connect, log_trial, end, die, script, arguments
    <3>2. \A j \in Children : child[j] # "none" => child'[j] # "none"
      BY <1>1, <2>2 DEF Child, connect, log_trial, end, die, flush, IInv, TypeOK
    <3>3. pc = "pool" => campaign \in Campaigns
      BY <1>1 DEF IInv, AtInv
    <3> QED BY <1>1, <3>1, <3>2, <3>3, Parts DEF PoolInv, Slot
  <2>3. CASE Script \/ kill
    <3>1. pc' # "pool"
      BY <2>3 DEF Script, join, collect, collect_raises, commit, remove, kill
    <3> QED BY <3>1 DEF PoolInv
  <2>4. CASE Finished \/ UNCHANGED vars
    BY <1>1, <2>4 DEF Finished, vars, arguments, script, children, PoolInv, Slot
  <2> QED BY <1>1, <2>1, <2>2, <2>3, <2>4 DEF Next
<1>2. Init => PoolInv
  BY DEF Init, PoolInv
<1> QED BY <1>1, <1>2, Invariance, PTL DEF Spec

\* Somebody has the next step of the campaign: the script waits in its pool for
\* a child that can go on, or for none; it has a slot to read or to remove, or
\* commits.  (These are the guards of the steps: none waits for another.)  But
\* for a child that is stuck, which needs an orphan (CollisionNeedsOrphan).
CanGoOn ==
    /\ pc = "pool" =>
         \/ \A i \in Slots : Slot(i) => child[<<campaign, i>>] = "ended"
         \/ \E k \in Children :
              /\ Attended(k)
              /\ \/ child[k] = "started"
                 \/ child[k] = "running" /\ logged[k] < Quota(k)
                 \/ child[k] = "running" /\ logged[k] = Quota(k)
                 \/ child[k] = "stuck"
    /\ pc = "collect" /\ Slot(at) => at \in Slots
    /\ pc = "remove" => at \in Slots /\ Slot(at)

\* A campaign waits in vain only for a child that was refused its COMMIT.
THEOREM NeverWaitsInVain == Spec => []CanGoOn
<1>1. ASSUME IInv, PoolInv PROVE CanGoOn
  <2>1. pc = "remove" => Slot(at)
    BY <1>1 DEF IInv, AtInv, Slot
  <2>2. ASSUME pc \in {"collect", "remove"}, Slot(at) PROVE at \in Slots
    <3>1. at \in 0 .. MaxSlots /\ pnum[campaign] \in 1 .. MaxSlots
      BY <1>1, <2>2 DEF IInv, TypeOK, AtInv
    <3> QED BY <2>2, <3>1 DEF Slots, Slot
  <2>3. ASSUME pc = "pool", NEW i \in Slots, Slot(i), child[<<campaign, i>>] # "ended"
        PROVE  \E k \in Children :
                 /\ Attended(k)
                 /\ \/ child[k] = "started"
                    \/ child[k] = "running" /\ logged[k] < Quota(k)
                    \/ child[k] = "running" /\ logged[k] = Quota(k)
                    \/ child[k] = "stuck"
    <3> DEFINE k == <<campaign, i>>
    <3>1. k \in Children /\ Attended(k)
      BY <1>1, <2>3, Parts DEF IInv, AtInv, Attended
    <3>2. child[k] \in {"started", "running", "stuck"}
      BY <1>1, <2>3, <3>1 DEF PoolInv, IInv, TypeOK
    <3> HIDE DEF k
    <3>3. logged[k] \in Nat /\ Quota(k) \in Nat /\ logged[k] <= Quota(k)
      BY <1>1, <3>1, QuotaBounded DEF IInv, TypeOK, ChildInv
    <3>4. logged[k] < Quota(k) \/ logged[k] = Quota(k)
      BY <3>3
    <3> QED BY <3>1, <3>2, <3>4
  <2> QED BY <2>1, <2>2, <2>3 DEF CanGoOn
<1> QED BY <1>1, Invariance, PoolInvariance, PTL

\* What is left of a campaign: its stages, the slots of a stage, and for every
\* child its results and its end.
StagesLeft ==
    CASE pc = "pool" -> 3
      [] pc = "collect" -> 2
      [] pc = "remove" -> 1
      [] OTHER -> 0
SlotsLeft == IF pc \in {"collect", "remove"} THEN pnum[campaign] - at ELSE 0
ChildLeft(k) ==
    CASE child[k] = "started" -> Quota(k) - logged[k] + 3
      [] child[k] = "running" -> Quota(k) - logged[k] + 2
      [] child[k] = "stuck" -> 1
      [] OTHER -> 0

Nearer ==
    \/ StagesLeft' < StagesLeft
    \/ /\ StagesLeft' = StagesLeft
       /\ \/ SlotsLeft' < SlotsLeft
          \/ /\ SlotsLeft' = SlotsLeft
             /\ \E k \in Children : /\ ChildLeft(k)' < ChildLeft(k)
                                    /\ \A l \in Children \ {k} : ChildLeft(l)' = ChildLeft(l)

LEMMA Measured ==
    ASSUME IInv
    PROVE  StagesLeft \in Nat /\ SlotsLeft \in Nat /\ \A k \in Children : ChildLeft(k) \in Nat
<1>1. SlotsLeft \in Nat
  <2> SUFFICES ASSUME pc \in {"collect", "remove"} PROVE pnum[campaign] - at \in Nat
    BY DEF SlotsLeft
  <2>1. pnum[campaign] \in 1 .. MaxSlots /\ at \in 0 .. MaxSlots /\ at <= pnum[campaign]
    BY DEF IInv, TypeOK, AtInv
  <2> QED BY <2>1
<1>2. ASSUME NEW k \in Children PROVE ChildLeft(k) \in Nat
  <2>1. logged[k] \in Nat /\ Quota(k) \in Nat /\ logged[k] <= Quota(k)
    BY QuotaBounded DEF IInv, TypeOK, ChildInv
  <2> QED BY <2>1 DEF ChildLeft
<1> QED BY <1>1, <1>2 DEF StagesLeft

\* A step of a child: it has fewer results to log, or one thing less to do.
LEMMA ChildNearer ==
    ASSUME IInv, NEW k \in Children, Child(k) \/ die(k)
    PROVE  Nearer
<1>1. Alive(k) /\ UNCHANGED <<pc, pnum, at, campaign>>
  BY DEF Child, connect, log_trial, end, die, script, arguments, Alive
<1>2. PICK q \in Nat, n \in Nat : q = Quota(k) /\ Quota(k)' = q /\ n = logged[k] /\ n <= q
  BY <1>1, QuotaBounded DEF IInv, TypeOK, ChildInv, Quota
<1>3. \A l \in Children \ {k} : child'[l] = child[l] /\ logged'[l] = logged[l]
  BY DEF Child, connect, log_trial, end, die, flush, files, IInv, TypeOK
<1>4. \A l \in Children \ {k} : ChildLeft(l)' = ChildLeft(l)
  BY <1>1, <1>3 DEF ChildLeft, Quota
<1>5. ChildLeft(k)' < ChildLeft(k)
  <2>1. CASE connect(k)
    <3>1. child[k] = "started" /\ child'[k] = "running" /\ logged'[k] = n
      BY <1>2, <2>1 DEF connect, IInv, TypeOK
    <3> QED BY <1>2, <3>1 DEF ChildLeft
  <2>2. CASE log_trial(k)
    <3>1. child[k] = "running" /\ child'[k] \in {"running", "stuck"} /\ logged'[k] = n + 1 /\ n < q
      BY <1>2, <2>2 DEF log_trial, flush, IInv, TypeOK
    <3> QED BY <1>2, <3>1 DEF ChildLeft
  <2>3. CASE end(k)
    <3>1. child[k] = "running" /\ child'[k] \in {"stuck", "ended"}
      BY <2>3 DEF end, flush, IInv, TypeOK
    <3> QED BY <1>2, <3>1 DEF ChildLeft
  <2>4. CASE die(k)
    <3>1. child[k] \in {"started", "running", "stuck"} /\ child'[k] = "ended"
      BY <2>4 DEF die, IInv, TypeOK
    <3> QED BY <1>2, <3>1 DEF ChildLeft
  <2> QED BY <2>1, <2>2, <2>3, <2>4 DEF Child
<1>6. StagesLeft' = StagesLeft /\ SlotsLeft' = SlotsLeft
  BY <1>1 DEF StagesLeft, SlotsLeft
<1> QED BY <1>4, <1>5, <1>6 DEF Nearer

LEMMA ScriptNearer ==
    ASSUME IInv, Script \/ kill
    PROVE  Nearer
<1>1. pc \in {"idle", "pool", "collect", "remove"}
  BY DEF IInv, TypeOK
<1>2. CASE join \/ collect_raises \/ commit \/ kill
  BY <1>1, <1>2 DEF join, collect_raises, commit, kill, Nearer, StagesLeft
<1>3. CASE collect \/ remove
  <2>1. PICK p \in Nat, n \in Nat : p = pnum[campaign] /\ pnum'[campaign'] = p /\ n = at /\ n < p
    BY <1>3 DEF IInv, TypeOK, AtInv, collect, remove, arguments, Slot
  <2>2. at' = n + 1
    BY <1>3, <2>1 DEF collect, remove
  <2> QED BY <1>1, <1>3, <2>1, <2>2 DEF collect, remove, Nearer, StagesLeft, SlotsLeft
<1> QED BY <1>2, <1>3 DEF Script

\* Every step of a campaign brings it nearer to its end, for any number of
\* slots and results, with whatever orphans there are: with NeverWaitsInVain,
\* CampaignEnds but for the fairness that makes script and children go on.
THEOREM Progress ==
    Spec => /\ [](StagesLeft \in Nat /\ SlotsLeft \in Nat /\ \A k \in Children : ChildLeft(k) \in Nat)
            /\ [][pc # "idle" => Nearer]_vars
<1>1. IInv => StagesLeft \in Nat /\ SlotsLeft \in Nat /\ \A k \in Children : ChildLeft(k) \in Nat
  BY Measured
<1>2. ASSUME IInv, [Next]_vars PROVE [pc # "idle" => Nearer]_vars
  <2>1. ASSUME pc # "idle", ~UNCHANGED vars PROVE Nearer
    BY <1>2, <2>1, ChildNearer, ScriptNearer DEF Next, start, Finished
  <2> QED BY <2>1
<1>3. IInv /\ [Next]_vars => [pc # "idle" => Nearer]_vars
  BY <1>2
<1> QED BY <1>1, <1>3, Invariance, PTL DEF Spec
=============================================================================
