----------------------------- MODULE TrainProofs -----------------------------
(* What the train processes know, for trains of any lags and any gap.         *)
(*                                                                            *)
(* The messages about one train follow each other: a sensor on its way to the *)
(* controller, the report of it, then what the controller has to say.  Inv    *)
(* says that they and the controller's locals are in one of seven phases      *)
(* (Phase).  A step takes one train from a phase to the next and leaves the   *)
(* other train in its own (Frame).  This needs that no controller is given a  *)
(* sensor of the other train, so the theorems have []Attributed for a         *)
(* premise: whether it holds depends on the lags of the trains.               *)
(*                                                                            *)
(* An express that passes a sensor while it waits (Slips) is in none of the   *)
(* phases: the conductor reports that sensor to nobody.  The local's phase    *)
(* does not depend on that, so Inv(S) is about the trains of a set S, the     *)
(* local or both, and only Inv(Train) needs that the express does not slip.   *)
(* None of the constants is assumed to have any value.                        *)
EXTENDS TrainControl, SequenceTheorems, TLAPS

(* The indices into t's route. *)
Legs(t) == 0 .. Len(route[t]) - 1

(* The messages about t in s are just x, or just x and y in this order.       *)
Lone(t, s, x) ==
    \E k \in 1 .. Len(s) : s[k] = x /\ \A j \in 1 .. Len(s) : s[j].train = t => j = k
Pair(t, s, x, y) ==
    \E i, k \in 1 .. Len(s) : /\ i < k /\ s[i] = x /\ s[k] = y
                              /\ \A j \in 1 .. Len(s) : s[j].train = t => j \in {i, k}

(* What the conductor has not read, and nothing of it or of the Atmel's queue *)
(* is about t.                                                                *)
Queue == mail["conductor"]
Silent(t) == ~About(t, atmel) /\ ~About(t, Queue)

(* Sensor h triggered by t, in the Atmel's queue and in the conductor's       *)
(* mailbox.                                                                   *)
Sensor(t, h) == [train |-> t, hs |-> h]
Triggered(t, h) == [m |-> "TRIGGERED_HS", train |-> t, arg |-> h]

(* What t's controller has to tell the conductor, or has told it and is yet   *)
(* unread, is just x, or just x and y. *)
Tells(t, x) ==
    /\ ~About(t, atmel) /\ mail[t] = << >>
    /\ \/ todo[t] = <<x>> /\ ~About(t, Queue)
       \/ todo[t] = << >> /\ Lone(t, Queue, x)
TellsBoth(t, x, y) ==
    /\ ~About(t, atmel) /\ mail[t] = << >>
    /\ \/ todo[t] = <<x, y>> /\ ~About(t, Queue)
       \/ todo[t] = <<y>> /\ Lone(t, Queue, x)
       \/ todo[t] = << >> /\ Pair(t, Queue, x, y)

(* The locals c of t's controller when its current path is leg l of the       *)
(* route.                                                                     *)
OnLeg(t, c, l) ==
    /\ c.cur = Leg(t, l)
    /\ c.nxt = Leg(t, NextIndx(t, l))
    /\ c.dst = NextIndx(t, NextIndx(t, l))

(* The sensor t's controller takes to be next. *)
Expected(t) == paths[ctl[t].cur].hs[ctl[t].hs + 1]

(* The controller knows where its train is, *)
Caught(t) ==
    /\ OnLeg(t, ctl[t], pos[t].leg)
    /\ IF ctl[t].waiting THEN ctl[t].hs = 0 /\ pos[t].passed = 1
                         ELSE ctl[t].hs = pos[t].passed
(* or is one sensor behind. *)
Behind(t) ==
    /\ ~ctl[t].waiting
    /\ IF pos[t].passed = 0
       THEN /\ ctl[t].hs = 2
            /\ \E l \in Legs(t) : /\ Leg(t, l) # 0
                                  /\ OnLeg(t, ctl[t], l)
                                  /\ pos[t].leg = Onward(t, l)
       ELSE OnLeg(t, ctl[t], pos[t].leg) /\ ctl[t].hs = pos[t].passed - 1

(* The locals c are not those of the path t starts on. *)
Later(t, c) == c.prv # 0 \/ c.cur # (IF t = "express" THEN 2 ELSE 3)

(* The conductor's paths of t, as far as they are right: not for the path a   *)
(* train starts on.                                                           *)
Known(t) ==
    LET c == ctl[t] IN
    /\ c.hs # 0 => con.nxt[t] = c.nxt
    /\ c.hs # 0 /\ Later(t, c) => con.cur[t] = c.cur
    /\ c.hs = 0 /\ Later(t, c) => con.nxt[t] = c.cur

(* Nothing is under way: the conductor expects t at its next sensor. *)
Idle(t) ==
    /\ Handled(t)
    /\ Caught(t) /\ Known(t)
    /\ ~ctl[t].waiting => con.hs[t] = Expected(t)

(* t has passed a sensor of which the conductor has not heard. *)
Passed(t) ==
    /\ Behind(t) /\ Known(t)
    /\ con.hs[t] = Expected(t)
    /\ todo[t] = << >> /\ mail[t] = << >>
    /\ \/ Lone(t, atmel, Sensor(t, Expected(t))) /\ ~About(t, Queue)
       \/ ~About(t, atmel) /\ Lone(t, Queue, Triggered(t, Expected(t)))

(* What the conductor tells t's controller of a sensor. *)
Reports(t) == IF t = "local"
  THEN [m : {"TRIGGERED_HS"}, train : {t}, arg : 0 .. 24, cur : 0 .. 12, nxt : 0 .. 12]
  ELSE [m : {"TRIGGERED_HS"}, train : {t}, arg : 0 .. 24, cur : 0 .. 12]

(* The controller has not yet read that the sensor was passed. *)
Reported(t) ==
    /\ Behind(t) /\ Known(t)
    /\ todo[t] = << >> /\ Silent(t)
    /\ \E r \in Reports(t) : mail[t] = <<r>>

(* The controller has handled it: the conductor is to expect t at the next    *)
(* sensor.                                                                    *)
Asks(t) ==
    /\ Caught(t) /\ Known(t)
    /\ ~ctl[t].waiting
    /\ Tells(t, NEW_TR_HS(t, Expected(t)))

(* The same on the way into a path: the conductor is first to learn of the    *)
(* path, and its paths of t are still those of before.                        *)
Enters(t) ==
    /\ Caught(t)
    /\ ~ctl[t].waiting
    /\ ctl[t].hs # 0 /\ Later(t, ctl[t]) => con.nxt[t] = ctl[t].cur
    /\ TellsBoth(t, FULL_PATH(t, IF ctl[t].hs = 0 THEN ctl[t].cur ELSE ctl[t].nxt),
                 NEW_TR_HS(t, Expected(t)))

(* The controller waits for the other train, as the conductor is to learn. *)
Stops(t) ==
    /\ Caught(t) /\ Known(t)
    /\ ctl[t].waiting
    /\ Tells(t, COLLISION(t))

(* The other train has entered a path, and the controller does not know yet.  *)
Released(t) ==
    /\ Caught(t) /\ Known(t)
    /\ ctl[t].waiting
    /\ todo[t] = << >> /\ Silent(t)
    /\ \E p \in 0 .. 12 : mail[t] = <<FULL_PATH(Other(t), p)>>

(* The seven phases. *)
Phase(t) == Idle(t) \/ Passed(t) \/ Reported(t) \/ Asks(t) \/ Enters(t)
            \/ Stops(t) \/ Released(t)

(* The types.  The sensor in a NEW_TR_HS is an entry of a path's table: what  *)
(* index the express has after it has slipped is not known.                   *)
ExpressLocals == [cur : 1 .. 4, nxt : 1 .. 4, prv : 0 .. 4, dst : Legs("express"),
                  hs : Nat, waiting : BOOLEAN]
LocalLocals == [cur : 0 .. 12, nxt : 0 .. 12, prv : 0 .. 12, dst : Legs("local"),
                hs : Nat, waiting : BOOLEAN, exp_cur : 0 .. 12, exp_nxt : 0 .. 12]
Locals(t) == IF t = "local" THEN LocalLocals ELSE ExpressLocals

Numbers == (0 .. 24) \cup {paths[p].hs[k] : p \in 0 .. 12, k \in Nat}

Message == [m : {"TRIGGERED_HS"}, train : Train, arg : 0 .. 24]
           \cup [m : {"NEW_TR_HS"}, train : Train, arg : Numbers]
           \cup [m : {"FULL_PATH"}, train : Train, arg : 0 .. 12]
           \cup [m : {"COLLISION"}, train : Train]
Own(t) == {m \in Message : m.train = t}

Conductor == [blocked : Train \cup {"NO_TRAIN"}, saved : Numbers,
              cur : [Train -> 0 .. 12], nxt : [Train -> 0 .. 12], hs : [Train -> Numbers]]

(* Every path, sensor and index is in the range of its table, and no train is *)
(* on a dwell.                                                                *)
Typed ==
    /\ ctl \in [Train -> ExpressLocals \cup LocalLocals]
    /\ ctl["express"] \in ExpressLocals
    /\ ctl["local"] \in LocalLocals
    /\ con \in Conductor
    /\ DOMAIN mail = Socket
    /\ DOMAIN todo = Train
    /\ \A t \in Train : todo[t] \in Seq(Own(t))
    /\ Queue \in Seq(Message)
    /\ atmel \in Seq([train : Train, hs : 0 .. 24])
    /\ told \in [speed : [Train -> Int], sw : [1 .. 6 -> {"STRAIGHT", "TURNED"}]]
    /\ DOMAIN pos = Train
    /\ \A t \in Train : /\ pos[t] \in [leg : Legs(t), passed : 0 .. 2, left : SUBSET {1, 2}]
                        /\ Leg(t, pos[t].leg) # 0

(* Only a train that waits, and of which the conductor has heard that, is     *)
(* blocked; the conductor expects the train, and will when it is released, at *)
(* a sensor of the track.                                                     *)
Held(t) == /\ con.hs[t] \in 0 .. 24
           /\ con.blocked = t => Handled(t) /\ ctl[t].waiting /\ con.saved \in 0 .. 24

(* The local waits with its power off; the switch of its path is turned once  *)
(* it is past the start.                                                      *)
Braked == ctl["local"].waiting => told.speed["local"] = BRAKE
Turned == ctl["local"].hs # 0 /\ paths[ctl["local"].cur].sw_num # 0
            => told.sw[paths[ctl["local"].cur].sw_num] = "TURNED"
Rest == Braked /\ Turned

(* The inductive invariant, about the local or about both trains. *)
Followed == {{"local"}, Train}
Inv(S) == /\ Typed /\ Rest
          /\ \A t \in S : Phase(t) /\ Held(t)

(* The express passes a sensor while its controller waits for the local. *)
Slips == Pass("express") /\ ctl["express"].waiting
-----------------------------------------------------------------------------
(* A message about t that is sent is the last one about t. *)
LEMMA Added ==
    ASSUME NEW t, NEW S, NEW s \in Seq(S), NEW e \in S, e.train = t
    PROVE  /\ ~About(t, s) => Lone(t, Append(s, e), e)
           /\ \A x : Lone(t, s, x) => Pair(t, Append(s, e), x, e)
  <1> DEFINE z == Append(s, e)
             n == Len(s)
  <1>1. /\ n \in Nat /\ Len(z) = n + 1 /\ z[n + 1] = e
        /\ \A k \in 1 .. n : z[k] = s[k] /\ k \in 1 .. n + 1
    OBVIOUS
  <1> HIDE DEF z, n
  <1>2. ASSUME ~About(t, s) PROVE Lone(t, z, e)
    <2>1. \A k \in 1 .. n : z[k].train # t
      BY <1>1, <1>2 DEF About, n
    <2>2. \A j \in 1 .. n + 1 : z[j].train = t => j = n + 1
      BY <1>1, <2>1
    <2> QED BY <1>1, <2>2 DEF Lone
  <1>3. ASSUME NEW x, Lone(t, s, x) PROVE Pair(t, z, x, e)
    <2>1. PICK k \in 1 .. n : s[k] = x /\ \A j \in 1 .. n : s[j].train = t => j = k
      BY <1>3 DEF Lone, n
    <2>2. \A j \in 1 .. n + 1 : z[j].train = t => j \in {k, n + 1}
      BY <1>1, <2>1
    <2>3. k \in 1 .. n + 1 /\ n + 1 \in 1 .. n + 1 /\ k < n + 1 /\ z[k] = x
      BY <1>1, <2>1
    <2> QED BY <1>1, <2>2, <2>3 DEF Pair
  <1> QED BY <1>2, <1>3 DEF z

(* A message about t that is received is the first one about t. *)
LEMMA Removed ==
    ASSUME NEW t, NEW S, NEW s \in Seq(S), s # << >>, Head(s).train = t
    PROVE  /\ \A x : Lone(t, s, x) => Head(s) = x /\ ~About(t, Tail(s))
           /\ \A x, y : Pair(t, s, x, y) => Head(s) = x /\ Lone(t, Tail(s), y)
  <1> DEFINE z == Tail(s)
             n == Len(s)
  <1>1. /\ n \in Nat \ {0} /\ Len(z) = n - 1 /\ s[1] = Head(s)
        /\ \A k \in 1 .. n - 1 : z[k] = s[k + 1] /\ k + 1 \in 1 .. n
    OBVIOUS
  <1> HIDE DEF z, n
  <1>2. ASSUME NEW x, Lone(t, s, x) PROVE Head(s) = x /\ ~About(t, z)
    <2>1. PICK k \in 1 .. n : s[k] = x /\ \A j \in 1 .. n : s[j].train = t => j = k
      BY <1>2 DEF Lone, n
    <2>2. k = 1
      BY <1>1, <2>1
    <2>3. \A j \in 1 .. n - 1 : z[j].train # t
      BY <1>1, <2>1, <2>2
    <2> QED BY <1>1, <2>1, <2>2, <2>3 DEF About
  <1>3. ASSUME NEW x, NEW y, Pair(t, s, x, y) PROVE Head(s) = x /\ Lone(t, z, y)
    <2>1. PICK i \in 1 .. n, k \in 1 .. n :
             /\ i < k /\ s[i] = x /\ s[k] = y
             /\ \A j \in 1 .. n : s[j].train = t => j \in {i, k}
      BY <1>3 DEF Pair, n
    <2>2. i = 1
      BY <1>1, <2>1
    <2>3. k - 1 \in 1 .. n - 1 /\ z[k - 1] = y
      <3>1. k - 1 \in 1 .. n - 1 /\ (k - 1) + 1 = k
        BY <1>1, <2>1, <2>2
      <3>2. z[k - 1] = s[(k - 1) + 1]
        BY <1>1, <3>1
      <3> QED BY <2>1, <3>1, <3>2
    <2>4. \A j \in 1 .. n - 1 : z[j].train = t => j = k - 1
      BY <1>1, <2>1, <2>2
    <2> QED BY <1>1, <2>1, <2>2, <2>3, <2>4 DEF Lone
  <1> QED BY <1>2, <1>3 DEF z

(* A message that is not about t is put at the end of s or taken from its     *)
(* head, or neither.                                                          *)
Aside(t, s, z) ==
    \/ z = s
    \/ \E e : e.train # t /\ z = Append(s, e)
    \/ s # << >> /\ Head(s).train # t /\ z = Tail(s)

(* Messages that are not about t leave the ones about t alone. *)
LEMMA Kept ==
    ASSUME NEW t, NEW S, NEW s \in Seq(S), NEW z, Aside(t, s, z)
    PROVE  /\ About(t, z) <=> About(t, s)
           /\ \A x : x.train = t /\ Lone(t, s, x) => Lone(t, z, x)
           /\ \A x, y : x.train = t /\ y.train = t /\ Pair(t, s, x, y) => Pair(t, z, x, y)
  <1> DEFINE n == Len(s)
  <1>1. CASE z = s
    BY <1>1
  <1>2. ASSUME NEW e, e.train # t, z = Append(s, e)
        PROVE  /\ About(t, z) <=> About(t, s)
               /\ \A x : x.train = t /\ Lone(t, s, x) => Lone(t, z, x)
               /\ \A x, y : x.train = t /\ y.train = t /\ Pair(t, s, x, y) => Pair(t, z, x, y)
    <2>1. /\ n \in Nat /\ Len(z) = n + 1 /\ z[n + 1] = e
          /\ \A k \in 1 .. n : z[k] = s[k] /\ k \in 1 .. n + 1
      BY <1>2
    <2> HIDE DEF n
    <2>2. \A k \in 1 .. n + 1 : z[k].train = t => k \in 1 .. n /\ s[k].train = t
      BY <2>1, <1>2
    <2>3. About(t, z) <=> About(t, s)
      BY <2>1, <2>2 DEF About, n
    <2>4. ASSUME NEW x, x.train = t, Lone(t, s, x) PROVE Lone(t, z, x)
      BY <2>1, <2>2, <2>4 DEF Lone, n
    <2>5. ASSUME NEW x, NEW y, x.train = t, y.train = t, Pair(t, s, x, y)
          PROVE  Pair(t, z, x, y)
      BY <2>1, <2>2, <2>5 DEF Pair, n
    <2> QED BY <2>3, <2>4, <2>5
  <1>3. CASE s # << >> /\ Head(s).train # t /\ z = Tail(s)
    <2>1. /\ n \in Nat \ {0} /\ Len(z) = n - 1 /\ s[1].train # t
          /\ \A k \in 1 .. n - 1 : z[k] = s[k + 1] /\ k + 1 \in 1 .. n
      BY <1>3
    <2> HIDE DEF n
    <2>2. \A k \in 1 .. n : s[k].train = t => k - 1 \in 1 .. n - 1 /\ z[k - 1] = s[k]
      BY <2>1
    <2>3. About(t, z) <=> About(t, s)
      BY <2>1, <2>2 DEF About, n
    <2>4. ASSUME NEW x, x.train = t, Lone(t, s, x) PROVE Lone(t, z, x)
      <3>1. PICK k \in 1 .. n : s[k] = x /\ \A j \in 1 .. n : s[j].train = t => j = k
        BY <2>4 DEF Lone, n
      <3>2. k - 1 \in 1 .. n - 1 /\ z[k - 1] = x
        BY <2>2, <2>4, <3>1
      <3>3. \A j \in 1 .. n - 1 : z[j].train = t => j + 1 = k
        BY <2>1, <3>1
      <3>4. \A j \in 1 .. n - 1 : z[j].train = t => j = k - 1
        BY <2>1, <3>3
      <3> QED BY <2>1, <3>2, <3>4 DEF Lone
    <2>5. ASSUME NEW x, NEW y, x.train = t, y.train = t, Pair(t, s, x, y)
          PROVE  Pair(t, z, x, y)
      <3>1. PICK i \in 1 .. n, k \in 1 .. n :
               /\ i < k /\ s[i] = x /\ s[k] = y
               /\ \A j \in 1 .. n : s[j].train = t => j \in {i, k}
        BY <2>5 DEF Pair, n
      <3>2. /\ i - 1 \in 1 .. n - 1 /\ z[i - 1] = x
            /\ k - 1 \in 1 .. n - 1 /\ z[k - 1] = y /\ i - 1 < k - 1
        BY <2>1, <2>2, <2>5, <3>1
      <3>3. \A j \in 1 .. n - 1 : z[j].train = t => j + 1 \in {i, k}
        BY <2>1, <3>1
      <3>4. \A j \in 1 .. n - 1 : z[j].train = t => j \in {i - 1, k - 1}
        BY <2>1, <3>3
      <3> QED BY <2>1, <3>2, <3>4 DEF Pair
    <2> QED BY <2>3, <2>4, <2>5
  <1> QED BY <1>1, <1>2, <1>3 DEF Aside

-----------------------------------------------------------------------------
(* The routes lead to paths of the table; the express has no dwells, and no   *)
(* two dwells follow each other.                                              *)
LEMMA Routes ==
    \A t \in Train : \A l \in Legs(t) :
        /\ Leg(t, l) \in 0 .. 12
        /\ t = "express" => Leg(t, l) \in 1 .. 4
        /\ NextIndx(t, l) \in Legs(t)
        /\ Leg(t, l) = 0 => Leg(t, NextIndx(t, l)) # 0
  <1>1. \A l \in Legs("express") :
        /\ Leg("express", l) \in 1 .. 4
        /\ NextIndx("express", l) \in Legs("express")
    <2>1. Legs("express") = 0 .. 3
      BY DEF Legs, route
    <2>2. \A l \in 0 .. 3 : Leg("express", l) \in 1 .. 4
      BY DEF Leg, route
    <2>3. \A l \in 0 .. 3 : NextIndx("express", l) \in 0 .. 3
      BY DEF NextIndx, route
    <2> QED BY <2>1, <2>2, <2>3
  <1>2. \A l \in Legs("local") :
        /\ Leg("local", l) \in 0 .. 12
        /\ NextIndx("local", l) \in Legs("local")
        /\ Leg("local", l) = 0 => Leg("local", NextIndx("local", l)) # 0
    <2>1. Legs("local") = 0 .. 13
      BY DEF Legs, route
    <2>2. \A l \in 0 .. 13 : Leg("local", l) \in 0 .. 12
      BY DEF Leg, route
    <2>3. \A l \in 0 .. 13 : NextIndx("local", l) = IF l = 13 THEN 0 ELSE l + 1
      BY DEF NextIndx, route
    <2>4. \A l \in 0 .. 13 : Leg("local", l) = 0 => l \in {2, 6, 9, 13}
      BY DEF Leg, route
    <2>5. /\ Leg("local", 3) # 0 /\ Leg("local", 7) # 0
          /\ Leg("local", 10) # 0 /\ Leg("local", 0) # 0
      BY DEF Leg, route
    <2> QED BY <2>1, <2>2, <2>3, <2>4, <2>5
  <1> QED BY <1>1, <1>2 DEF Train

(* The sensors, switches and areas of the paths are in range, and the four    *)
(* paths of the express have no switch.                                       *)
LEMMA Tables ==
    \A p \in 0 .. 12 :
        /\ \A k \in 1 .. 3 : paths[p].hs[k] \in 0 .. 24
        /\ paths[p].sw_num \in 0 .. 6 /\ paths[p].col_area \in SUBSET {1, 2}
        /\ paths[p].state \in Int
        /\ p \in 0 .. 4 => paths[p].sw_num = 0
  <1>1. paths[0].sw_num = 0 /\ paths[0].col_area = {}
        /\ paths[0].state \in Int /\ \A k \in 1 .. 3 : paths[0].hs[k] \in 0 .. 24
    <2>1. paths[0] = Path(<<0, 0, 0>>, 0, BRAKE, {})
      BY DEF paths
    <2> QED BY <2>1 DEF Path, BRAKE, DIR_CCW
  <1>2. paths[1].sw_num = 0 /\ paths[1].col_area = {}
        /\ paths[1].state \in Int /\ \A k \in 1 .. 3 : paths[1].hs[k] \in 0 .. 24
    <2>1. paths[1] = Path(<<16, 16, 15>>, 0, 5, {})
      BY DEF paths
    <2> QED BY <2>1 DEF Path, BRAKE, DIR_CCW
  <1>3. paths[2].sw_num = 0 /\ paths[2].col_area = {1}
        /\ paths[2].state \in Int /\ \A k \in 1 .. 3 : paths[2].hs[k] \in 0 .. 24
    <2>1. paths[2] = Path(<<14, 10, 11>>, 0, 5, {1})
      BY DEF paths
    <2> QED BY <2>1 DEF Path, BRAKE, DIR_CCW
  <1>4. paths[3].sw_num = 0 /\ paths[3].col_area = {}
        /\ paths[3].state \in Int /\ \A k \in 1 .. 3 : paths[3].hs[k] \in 0 .. 24
    <2>1. paths[3] = Path(<<8, 8, 7>>, 0, 5, {})
      BY DEF paths
    <2> QED BY <2>1 DEF Path, BRAKE, DIR_CCW
  <1>5. paths[4].sw_num = 0 /\ paths[4].col_area = {2}
        /\ paths[4].state \in Int /\ \A k \in 1 .. 3 : paths[4].hs[k] \in 0 .. 24
    <2>1. paths[4] = Path(<<6, 2, 3>>, 0, 5, {2})
      BY DEF paths
    <2> QED BY <2>1 DEF Path, BRAKE, DIR_CCW
  <1>6. paths[5].sw_num = 1 /\ paths[5].col_area = {}
        /\ paths[5].state \in Int /\ \A k \in 1 .. 3 : paths[5].hs[k] \in 0 .. 24
    <2>1. paths[5] = Path(<<14, 20, 20>>, 1, 5, {})
      BY DEF paths
    <2> QED BY <2>1 DEF Path, BRAKE, DIR_CCW
  <1>7. paths[6].sw_num = 3 /\ paths[6].col_area = {1}
        /\ paths[6].state \in Int /\ \A k \in 1 .. 3 : paths[6].hs[k] \in 0 .. 24
    <2>1. paths[6] = Path(<<19, 9, 9>>, 3, 4, {1})
      BY DEF paths
    <2> QED BY <2>1 DEF Path, BRAKE, DIR_CCW
  <1>8. paths[7].sw_num = 4 /\ paths[7].col_area = {}
        /\ paths[7].state \in Int /\ \A k \in 1 .. 3 : paths[7].hs[k] \in 0 .. 24
    <2>1. paths[7] = Path(<<6, 18, 18>>, 4, 5, {})
      BY DEF paths
    <2> QED BY <2>1 DEF Path, BRAKE, DIR_CCW
  <1>9. paths[8].sw_num = 6 /\ paths[8].col_area = {2}
        /\ paths[8].state \in Int /\ \A k \in 1 .. 3 : paths[8].hs[k] \in 0 .. 24
    <2>1. paths[8] = Path(<<17, 1, 1>>, 6, 4, {2})
      BY DEF paths
    <2> QED BY <2>1 DEF Path, BRAKE, DIR_CCW
  <1>10. paths[9].sw_num = 2 /\ paths[9].col_area = {1}
        /\ paths[9].state \in Int /\ \A k \in 1 .. 3 : paths[9].hs[k] \in 0 .. 24
    <2>1. paths[9] = Path(<<23, 10, 11>>, 2, 3, {1})
      BY DEF paths
    <2> QED BY <2>1 DEF Path, BRAKE, DIR_CCW
  <1>11. paths[10].sw_num = 2 /\ paths[10].col_area = {}
        /\ paths[10].state \in Int /\ \A k \in 1 .. 3 : paths[10].hs[k] \in 0 .. 24
    <2>1. paths[10] = Path(<<11, 23, 23>>, 2, DIR_CCW + 6, {})
      BY DEF paths
    <2> QED BY <2>1 DEF Path, BRAKE, DIR_CCW
  <1>12. paths[11].sw_num = 5 /\ paths[11].col_area = {2}
        /\ paths[11].state \in Int /\ \A k \in 1 .. 3 : paths[11].hs[k] \in 0 .. 24
    <2>1. paths[11] = Path(<<21, 2, 3>>, 5, 3, {2})
      BY DEF paths
    <2> QED BY <2>1 DEF Path, BRAKE, DIR_CCW
  <1>13. paths[12].sw_num = 5 /\ paths[12].col_area = {}
        /\ paths[12].state \in Int /\ \A k \in 1 .. 3 : paths[12].hs[k] \in 0 .. 24
    <2>1. paths[12] = Path(<<3, 21, 21>>, 5, DIR_CCW + 6, {})
      BY DEF paths
    <2> QED BY <2>1 DEF Path, BRAKE, DIR_CCW
  <1> DEFINE Fits(p) == /\ \A k \in 1 .. 3 : paths[p].hs[k] \in 0 .. 24
                        /\ paths[p].sw_num \in 0 .. 6 /\ paths[p].col_area \in SUBSET {1, 2}
                        /\ paths[p].state \in Int
                        /\ p \in 0 .. 4 => paths[p].sw_num = 0
  <1>14. Fits(0) /\ Fits(1) /\ Fits(2) /\ Fits(3) /\ Fits(4)
    BY <1>1, <1>2, <1>3, <1>4, <1>5
  <1>15. Fits(5) /\ Fits(6) /\ Fits(7) /\ Fits(8)
    BY <1>6, <1>7, <1>8, <1>9
  <1>16. Fits(9) /\ Fits(10) /\ Fits(11) /\ Fits(12)
    BY <1>10, <1>11, <1>12, <1>13
  <1>17. ASSUME NEW p \in 0 .. 12 PROVE Fits(p)
    <2> HIDE DEF Fits
    <2> QED BY <1>14, <1>15, <1>16
  <1> QED BY <1>17
-----------------------------------------------------------------------------
(* A step that does not concern t. *)
Steady(t) ==
    /\ ctl'[t] = ctl[t] /\ pos'[t] = pos[t]
    /\ todo'[t] = todo[t] /\ mail'[t] = mail[t]
    /\ con'.hs[t] = con.hs[t] /\ con'.cur[t] = con.cur[t] /\ con'.nxt[t] = con.nxt[t]
    /\ Aside(t, atmel, atmel') /\ Aside(t, Queue, Queue')

(* A step that does not concern t leaves it in its phase. *)
LEMMA Frame ==
    ASSUME NEW t \in Train, Typed, Steady(t)
    PROVE  /\ Phase(t) => Phase(t)'
           /\ Handled(t)' <=> Handled(t)
  <1>1. Queue \in Seq(Message) /\ atmel \in Seq([train : Train, hs : 0 .. 24])
    BY DEF Typed
  <1>2. /\ About(t, Queue') <=> About(t, Queue)
        /\ \A x : x.train = t /\ Lone(t, Queue, x) => Lone(t, Queue', x)
        /\ \A x, y : x.train = t /\ y.train = t /\ Pair(t, Queue, x, y)
               => Pair(t, Queue', x, y)
    BY <1>1, Kept DEF Steady
  <1>3. /\ About(t, atmel') <=> About(t, atmel)
        /\ \A x : x.train = t /\ Lone(t, atmel, x) => Lone(t, atmel', x)
    BY <1>1, Kept DEF Steady
  <1>4. About(t, Queue)' <=> About(t, Queue)
    BY <1>2 DEF About
  <1>5. About(t, atmel)' <=> About(t, atmel)
    BY <1>3 DEF About
  <1>6. Caught(t)' <=> Caught(t)
    BY DEF Caught, Steady
  <1>7. Behind(t)' <=> Behind(t)
    BY DEF Behind, Steady
  <1>8. Known(t)' <=> Known(t)
    BY DEF Known, Later, Steady
  <1>9. Expected(t)' = Expected(t)
    BY DEF Expected, Steady
  <1>10. ASSUME NEW x, x.train = t, Tells(t, x) PROVE Tells(t, x)'
    BY <1>2, <1>3, <1>10 DEF Tells, Steady
  <1>11. ASSUME NEW x, NEW y, x.train = t, y.train = t, TellsBoth(t, x, y)
         PROVE  /\ ~About(t, atmel') /\ mail'[t] = << >>
                /\ \/ todo'[t] = <<x, y>> /\ ~About(t, Queue')
                   \/ todo'[t] = <<y>> /\ Lone(t, Queue', x)
                   \/ todo'[t] = << >> /\ Pair(t, Queue', x, y)
    BY <1>2, <1>3, <1>11 DEF TellsBoth, Steady
  <1>12. Handled(t)' <=> Handled(t)
    BY <1>2, <1>3 DEF Handled, Steady, Queue
  <1>13. Idle(t) => Idle(t)'
    BY <1>6, <1>8, <1>9, <1>12 DEF Idle, Steady
  <1>14. Passed(t) => Passed(t)'
    <2>1. Sensor(t, Expected(t)).train = t /\ Triggered(t, Expected(t)).train = t
      BY DEF Sensor, Triggered
    <2> QED BY <1>2, <1>3, <1>7, <1>8, <1>9, <2>1 DEF Passed, Steady
  <1>15. Reported(t) => Reported(t)'
    BY <1>2, <1>3, <1>7, <1>8 DEF Reported, Silent, Steady
  <1>16. Asks(t) => Asks(t)'
    <2>1. NEW_TR_HS(t, Expected(t)).train = t
      BY DEF NEW_TR_HS
    <2> QED BY <1>6, <1>8, <1>9, <1>10, <2>1 DEF Asks, Steady
  <1>17. Enters(t) => Enters(t)'
    <2> DEFINE x == FULL_PATH(t, IF ctl[t].hs = 0 THEN ctl[t].cur ELSE ctl[t].nxt)
               y == NEW_TR_HS(t, Expected(t))
    <2>1. x.train = t /\ y.train = t
      BY DEF NEW_TR_HS, FULL_PATH
    <2>2. x' = x /\ y' = y
      BY <1>9 DEF Steady
    <2>3. ASSUME Enters(t)
          PROVE  /\ ~About(t, atmel') /\ mail'[t] = << >>
                 /\ \/ todo'[t] = <<x, y>> /\ ~About(t, Queue')
                    \/ todo'[t] = <<y>> /\ Lone(t, Queue', x)
                    \/ todo'[t] = << >> /\ Pair(t, Queue', x, y)
      <3>1. TellsBoth(t, x, y)
        BY <2>3 DEF Enters
      <3> HIDE DEF x, y
      <3> QED BY <1>11, <2>1, <3>1
    <2>4. ASSUME Enters(t) PROVE TellsBoth(t, x, y)'
      <3> HIDE DEF x, y
      <3> QED BY <2>2, <2>3, <2>4 DEF TellsBoth
    <2> QED BY <1>6, <2>4 DEF Enters, Later, Steady
  <1>18. Stops(t) => Stops(t)'
    <2>1. COLLISION(t).train = t
      BY DEF COLLISION
    <2> QED BY <1>6, <1>8, <1>10, <2>1 DEF Stops, Steady
  <1>19. Released(t) => Released(t)'
    BY <1>2, <1>3, <1>6, <1>8 DEF Released, Silent, Steady
  <1> QED BY <1>12, <1>13, <1>14, <1>15, <1>16, <1>17, <1>18, <1>19 DEF Phase

(* A sequence with a message about t is not silent about t. *)
LEMMA LoneAbout ==
    ASSUME NEW t, NEW s, NEW x, x.train = t
    PROVE  /\ Lone(t, s, x) => About(t, s)
           /\ \A y : Pair(t, s, x, y) => About(t, s)
  BY DEF Lone, Pair, About

(* Which phases allow a message about t in each of the queues. *)
LEMMA Where ==
    ASSUME NEW t \in Train, Phase(t)
    PROVE  /\ Handled(t) => Idle(t)
           /\ About(t, atmel) => Passed(t)
           /\ todo[t] # << >> => Asks(t) \/ Enters(t) \/ Stops(t)
           /\ mail[t] # << >> => Reported(t) \/ Released(t)
           /\ About(t, Queue) => Passed(t) \/ Asks(t) \/ Enters(t) \/ Stops(t)
  <1>1. ASSUME NEW x, x.train = t
        PROVE  /\ \A s : Lone(t, s, x) => About(t, s)
               /\ \A s, y : Pair(t, s, x, y) => About(t, s)
    BY <1>1, LoneAbout
  <1>2. /\ \A h : Sensor(t, h).train = t /\ Triggered(t, h).train = t
        /\ \A h : NEW_TR_HS(t, h).train = t /\ FULL_PATH(t, h).train = t
        /\ COLLISION(t).train = t
    BY DEF Sensor, Triggered, NEW_TR_HS, FULL_PATH, COLLISION
  <1>3. CASE Idle(t)
    BY <1>3 DEF Idle, Handled, Queue
  <1>4. CASE Passed(t)
    BY <1>1, <1>2, <1>4 DEF Passed, Handled, Queue
  <1>5. CASE Reported(t)
    BY <1>5 DEF Reported, Silent, Handled, Queue
  <1>6. ASSUME NEW x, x.train = t, Tells(t, x)
        PROVE  ~Handled(t) /\ ~About(t, atmel) /\ mail[t] = << >>
    BY <1>1, <1>6 DEF Tells, Handled, Queue
  <1>7. CASE Asks(t)
    BY <1>2, <1>6, <1>7 DEF Asks
  <1>8. CASE Enters(t)
    <2> DEFINE x == FULL_PATH(t, IF ctl[t].hs = 0 THEN ctl[t].cur ELSE ctl[t].nxt)
               y == NEW_TR_HS(t, Expected(t))
    <2>1. TellsBoth(t, x, y) /\ x.train = t
      BY <1>2, <1>8 DEF Enters
    <2> HIDE DEF x, y
    <2>2. ~Handled(t) /\ ~About(t, atmel) /\ mail[t] = << >>
      BY <1>1, <2>1 DEF TellsBoth, Handled, Queue
    <2> QED BY <1>8, <2>2
  <1>9. CASE Stops(t)
    BY <1>2, <1>6, <1>9 DEF Stops
  <1>10. CASE Released(t)
    BY <1>10 DEF Released, Silent, Handled, Queue
  <1> QED BY <1>3, <1>4, <1>5, <1>7, <1>8, <1>9, <1>10 DEF Phase

(* There are two trains, and what is followed is the local or both. *)
LEMMA TwoTrains ==
    /\ \A t \in Train : /\ Other(t) \in Train /\ Other(t) # t /\ Other(Other(t)) = t
                        /\ \A u \in Train : u = t \/ u = Other(t)
    /\ \A S \in Followed : S \subseteq Train /\ "local" \in S /\ Train \in Followed
  BY DEF Train, Other, Followed

(* Pass keeps Inv: a train that is idle, and not stopped, is then one sensor  *)
(* ahead of its controller.                                                   *)
LEMMA PassStep ==
    ASSUME NEW S \in Followed, Inv(S), NEW t \in Train, Pass(t),
           "express" \in S => ~Slips
    PROVE  Inv(S)'
  <1> DEFINE u == Other(t)
             x == pos[t]
  <1>1. /\ Typed /\ Rest /\ \A s \in S : Phase(s) /\ Held(s)
        /\ u \in Train /\ u # t /\ S \subseteq Train
    BY TwoTrains DEF Inv
  <1>2. /\ pos' = [pos EXCEPT ![t] = Moved(t)]
        /\ atmel' = Append(atmel, [train |-> t, hs |-> NextHs(t, pos[t])])
        /\ UNCHANGED <<ctl, con, todo, mail, told>>
        /\ Handled(t) /\ told.speed[t] # BRAKE
    BY DEF Pass, CanPass
  <1>3. /\ x.leg \in Legs(t) /\ Leg(t, x.leg) # 0 /\ x.passed \in 0 .. 2
        /\ DOMAIN pos = Train
    BY <1>1 DEF Typed
  <1>4. NextHs(t, x) \in 0 .. 24
    <2>1. On(t, x) \in 0 .. 12 /\ x.passed + 1 \in 1 .. 3
      BY <1>3, Routes DEF On
    <2> QED BY <2>1, Tables DEF NextHs
  <1>5. pos'[t] = Moved(t) /\ pos'[u] = pos[u] /\ DOMAIN pos' = Train
    BY <1>1, <1>2, <1>3
  <1>6. /\ Moved(t).leg \in Legs(t) /\ Leg(t, Moved(t).leg) # 0 /\ Moved(t).passed \in 0 .. 2
        /\ IF x.passed = 2 THEN Moved(t).passed = 0 /\ Moved(t).leg = Onward(t, x.leg)
           ELSE Moved(t).passed = x.passed + 1 /\ Moved(t).leg = x.leg
        /\ Moved(t) \in [leg : Legs(t), passed : 0 .. 2, left : SUBSET {1, 2}]
    <2>1. x \in [leg : Legs(t), passed : 0 .. 2, left : SUBSET {1, 2}]
      BY <1>1 DEF Typed
    <2>2. CASE x.passed = 2
      <3>1. Moved(t) = [leg |-> Onward(t, x.leg), passed |-> 0,
                        left |-> paths[Leg(t, x.leg)].col_area]
        BY <2>2 DEF Moved, On
      <3>2. Onward(t, x.leg) \in Legs(t) /\ Leg(t, Onward(t, x.leg)) # 0
        BY <1>3, Routes DEF Onward
      <3>3. paths[Leg(t, x.leg)].col_area \in SUBSET {1, 2}
        BY <1>3, Routes, Tables
      <3> QED BY <2>2, <3>1, <3>2, <3>3
    <2>3. CASE x.passed # 2
      <3>1. Moved(t) = [x EXCEPT !.passed = x.passed + 1] /\ x.passed + 1 \in 0 .. 2
        BY <1>3, <2>3 DEF Moved
      <3> QED BY <1>3, <2>1, <2>3, <3>1
    <2> QED BY <2>2, <2>3
  <1>7. ASSUME t \in S PROVE Phase(t)' /\ Held(t)'
    <2>1. ~ctl[t].waiting
      <3>1. CASE t = "express"
        BY <1>7, <3>1 DEF Slips
      <3>2. CASE t = "local"
        BY <1>1, <1>2, <3>2 DEF Rest, Braked
      <3> QED BY <3>1, <3>2 DEF Train
    <2>2. Idle(t)
      BY <1>1, <1>2, <1>7, Where
    <2>3. /\ Caught(t) /\ Known(t) /\ con.hs[t] = Expected(t)
          /\ OnLeg(t, ctl[t], x.leg) /\ ctl[t].hs = x.passed
      BY <2>1, <2>2 DEF Idle, Caught
    <2>4. NextHs(t, x) = Expected(t)
      BY <2>3 DEF NextHs, Expected, On, OnLeg
    <2>5. Behind(t)'
      <3>1. CASE x.passed = 2
        BY <1>2, <1>3, <1>5, <1>6, <2>1, <2>3, <3>1 DEF Behind
      <3>2. CASE x.passed # 2
        BY <1>2, <1>3, <1>5, <1>6, <2>1, <2>3, <3>2 DEF Behind
      <3> QED BY <3>1, <3>2
    <2>6. Known(t)' /\ Expected(t)' = Expected(t) /\ con'.hs[t] = Expected(t)
      BY <1>2, <2>3 DEF Known, Later, Expected
    <2>7. /\ ~About(t, atmel) /\ ~About(t, Queue')
          /\ todo'[t] = << >> /\ mail'[t] = << >>
      BY <1>2 DEF Handled, Queue
    <2>8. Sensor(t, Expected(t)) \in [train : Train, hs : 0 .. 24]
      BY <1>4, <2>4 DEF Sensor
    <2>9. Lone(t, atmel', Sensor(t, Expected(t)))
      BY <1>1, <1>2, <2>4, <2>7, <2>8, Added DEF Typed, Sensor
    <2>10. Passed(t)'
      BY <2>5, <2>6, <2>7, <2>9 DEF Passed
    <2>11. Held(t)'
      BY <1>1, <1>2, <1>7, <2>1 DEF Held
    <2> QED BY <2>10, <2>11 DEF Phase
  <1>8. ASSUME u \in S PROVE Phase(u)' /\ Held(u)'
    <2>1. Aside(u, atmel, atmel')
      BY <1>1, <1>2 DEF Aside
    <2>2. Steady(u)
      BY <1>2, <1>5, <2>1 DEF Steady, Aside, Queue
    <2> QED BY <1>1, <1>2, <1>8, <2>2, Frame DEF Held
  <1>9. Typed'
    <2>1. atmel' \in Seq([train : Train, hs : 0 .. 24])
      BY <1>1, <1>2, <1>4 DEF Typed
    <2>2. \A s \in Train : /\ pos'[s] \in [leg : Legs(s), passed : 0 .. 2, left : SUBSET {1, 2}]
                          /\ Leg(s, pos'[s].leg) # 0
      BY <1>1, <1>5, <1>6, TwoTrains DEF Typed
    <2> QED BY <1>1, <1>2, <1>5, <2>1, <2>2 DEF Typed, Queue
  <1>10. Rest'
    BY <1>1, <1>2 DEF Rest, Braked, Turned
  <1> QED BY <1>1, <1>7, <1>8, <1>9, <1>10, TwoTrains DEF Inv

(* The first message of a mailbox and what is left of it. *)
LEMMA Heads ==
    ASSUME NEW S, NEW s \in Seq(S), s # << >>
    PROVE  /\ Head(s) \in S /\ Tail(s) \in Seq(S)
           /\ Head(s) = s[1] /\ 1 \in 1 .. Len(s)
  OBVIOUS

(* hal_server keeps Inv: the sensor is in the conductor's mailbox. *)
LEMMA HalStep ==
    ASSUME NEW S \in Followed, Inv(S), hal_server
    PROVE  Inv(S)'
  <1> DEFINE h == Head(atmel)
             e == Triggered(h.train, h.hs)
  <1>1. /\ atmel # << >> /\ atmel' = Tail(atmel)
        /\ mail' = [mail EXCEPT !["conductor"] = Append(@, e)]
        /\ UNCHANGED <<ctl, con, todo, told, pos>>
    BY DEF hal_server, Triggered
  <1>2. Typed /\ Rest /\ S \subseteq Train /\ \A s \in S : Phase(s) /\ Held(s)
    BY TwoTrains DEF Inv
  <1>3. h = atmel[1] /\ 1 \in 1 .. Len(atmel) /\ h \in [train : Train, hs : 0 .. 24]
    BY <1>1, <1>2, Heads DEF Typed
  <1> HIDE DEF h
  <1>4. PICK t \in Train : h.train = t
    BY <1>3
  <1> DEFINE u == Other(t)
  <1>5. u \in Train /\ u # t /\ \A s \in Train : s = t \/ s = u
    BY TwoTrains
  <1>6. e \in Message /\ e.train = t
    BY <1>3, <1>4 DEF Triggered, Message
  <1>7. /\ DOMAIN mail' = Socket /\ Queue' = Append(Queue, e)
        /\ \A s \in Train : mail'[s] = mail[s]
    <2>1. /\ DOMAIN mail = Socket /\ "conductor" \in Socket
          /\ Train \subseteq Socket /\ "conductor" \notin Train
      BY <1>2 DEF Typed, Socket, Train
    <2> HIDE DEF e, h
    <2>2. mail' = [mail EXCEPT !["conductor"] = Append(mail["conductor"], e)]
      BY <1>1
    <2>3. \A s \in Train : mail'[s] = mail[s]
      BY <2>1, <2>2
    <2> QED BY <2>1, <2>2, <2>3 DEF Queue
  <1>8. Typed'
    <2> HIDE DEF e
    <2>1. Queue \in Seq(Message) /\ atmel \in Seq([train : Train, hs : 0 .. 24])
      BY <1>2 DEF Typed
    <2>2. Queue' \in Seq(Message)
      BY <1>6, <1>7, <2>1
    <2>3. atmel' \in Seq([train : Train, hs : 0 .. 24])
      BY <1>1, <2>1, Heads
    <2> QED BY <1>1, <1>2, <1>7, <2>2, <2>3 DEF Typed
  <1>9. ASSUME t \in S PROVE Phase(t)' /\ Held(t)'
    <2>1. About(t, atmel)
      BY <1>3, <1>4 DEF About
    <2>2. Passed(t)
      BY <1>2, <1>9, <2>1, Where
    <2>3. Lone(t, atmel, Sensor(t, Expected(t))) /\ ~About(t, Queue)
      <3>1. ~(~About(t, atmel))
        BY <2>1
      <3> QED BY <2>2, <3>1 DEF Passed
    <2>4. h = Sensor(t, Expected(t)) /\ ~About(t, atmel')
      <3>1. Head(atmel) = h /\ Head(atmel).train = t
        BY <1>4 DEF h
      <3>2. atmel \in Seq([train : Train, hs : 0 .. 24])
        BY <1>2 DEF Typed
      <3> QED BY <1>1, <2>3, <3>1, <3>2, Removed
    <2>5. Lone(t, Queue', Triggered(t, Expected(t)))
      <3>1. e = Triggered(t, Expected(t))
        BY <2>4 DEF Sensor
      <3> QED BY <1>2, <1>6, <1>7, <2>3, <3>1, Added DEF Typed
    <2>6. Passed(t)'
      <3>1. Behind(t)' /\ Known(t)' /\ Expected(t)' = Expected(t)
        BY <1>1, <2>2 DEF Passed, Behind, Known, Later, Expected
      <3> QED BY <1>1, <1>7, <2>2, <2>4, <2>5, <3>1 DEF Passed
    <2>7. Held(t)'
      <3>1. ~Handled(t) /\ con' = con
        BY <1>1, <2>1 DEF Handled
      <3> QED BY <1>2, <1>9, <3>1 DEF Held
    <2> QED BY <2>6, <2>7 DEF Phase
  <1>10. ASSUME u \in S PROVE Phase(u)' /\ Held(u)'
    <2>1. Aside(u, atmel, atmel') /\ Aside(u, Queue, Queue')
      BY <1>1, <1>4, <1>5, <1>6, <1>7 DEF Aside, h
    <2>2. Steady(u)
      BY <1>1, <1>5, <1>7, <2>1 DEF Steady
    <2>3. Phase(u)' /\ (Handled(u)' <=> Handled(u))
      BY <1>2, <1>5, <1>10, <2>2, Frame
    <2> QED BY <1>1, <1>2, <1>5, <1>10, <2>3 DEF Held
  <1>11. Rest'
    BY <1>1, <1>2 DEF Rest, Braked, Turned
  <1> QED BY <1>2, <1>5, <1>8, <1>9, <1>10, <1>11 DEF Inv

(* The locals of a controller are in range, and so is the sensor it expects   *)
(* when it is in its phase.                                                   *)
LEMMA Ranges ==
    ASSUME Typed, NEW t \in Train
    PROVE  /\ ctl[t] \in Locals(t)
           /\ ctl[t].cur \in 0 .. 12 /\ ctl[t].nxt \in 0 .. 12 /\ ctl[t].prv \in 0 .. 12
           /\ ctl[t].dst \in Legs(t) /\ ctl[t].hs \in Nat /\ ctl[t].waiting \in BOOLEAN
           /\ Phase(t) => ctl[t].hs \in 0 .. 2 /\ Expected(t) \in 0 .. 24
  <1>1. t = "express" \/ t = "local"
    BY DEF Train
  <1>2. /\ ctl[t] \in Locals(t)
        /\ ctl[t].cur \in 0 .. 12 /\ ctl[t].nxt \in 0 .. 12 /\ ctl[t].prv \in 0 .. 12
        /\ ctl[t].dst \in Legs(t) /\ ctl[t].hs \in Nat /\ ctl[t].waiting \in BOOLEAN
    BY <1>1 DEF Typed, Locals, ExpressLocals, LocalLocals
  <1>3. ASSUME Phase(t) PROVE ctl[t].hs \in 0 .. 2 /\ Expected(t) \in 0 .. 24
    <2>1. Caught(t) \/ Behind(t)
      BY <1>3 DEF Phase, Idle, Passed, Reported, Asks, Enters, Stops, Released
    <2>2. pos[t].passed \in 0 .. 2
      BY DEF Typed
    <2>3. ctl[t].hs \in 0 .. 2
      BY <2>1, <2>2 DEF Caught, Behind
    <2>4. ctl[t].hs + 1 \in 1 .. 3
      BY <2>3
    <2> QED BY <1>2, <2>3, <2>4, Tables DEF Expected
  <1> QED BY <1>2, <1>3

(* send keeps Inv: the message leaves todo for the conductor's mailbox. *)
LEMMA SendStep ==
    ASSUME NEW S \in Followed, Inv(S), NEW t \in Train, send(t)
    PROVE  Inv(S)'
  <1> DEFINE u == Other(t)
             e == Head(todo[t])
  <1>1. /\ todo[t] # << >> /\ todo' = [todo EXCEPT ![t] = Tail(@)]
        /\ mail' = [mail EXCEPT !["conductor"] = Append(@, e)]
        /\ UNCHANGED <<ctl, con, told, atmel, pos>>
    BY DEF send
  <1>2. Typed /\ Rest /\ S \subseteq Train /\ \A s \in S : Phase(s) /\ Held(s)
    BY TwoTrains DEF Inv
  <1>3. u \in Train /\ u # t /\ \A s \in Train : s = t \/ s = u
    BY TwoTrains
  <1>4. /\ DOMAIN mail' = Socket /\ Queue' = Append(Queue, e)
        /\ \A s \in Train : mail'[s] = mail[s]
        /\ DOMAIN todo' = Train /\ todo'[t] = Tail(todo[t]) /\ todo'[u] = todo[u]
    BY <1>1, <1>2, <1>3 DEF Typed, Queue, Socket, Train
  <1>5. e \in Message /\ e.train = t /\ todo'[t] \in Seq(Own(t))
    <2>1. todo[t] \in Seq(Own(t))
      BY <1>2 DEF Typed
    <2>2. e \in Own(t) /\ Tail(todo[t]) \in Seq(Own(t))
      BY <1>1, <2>1, Heads
    <2> QED BY <1>4, <2>2 DEF Own
  <1>6. Typed'
    <2>1. Queue' \in Seq(Message)
      BY <1>2, <1>4, <1>5 DEF Typed
    <2>2. \A s \in Train : todo'[s] \in Seq(Own(s))
      BY <1>2, <1>3, <1>4, <1>5 DEF Typed
    <2> QED BY <1>1, <1>2, <1>4, <2>1, <2>2 DEF Typed
  <1>7. /\ Caught(t)' <=> Caught(t)
        /\ Known(t)' <=> Known(t)
        /\ Expected(t)' = Expected(t)
    BY <1>1 DEF Caught, Known, Later, Expected
  <1>8. ASSUME NEW x, x.train = t, Tells(t, x) PROVE Tells(t, x)'
    <2>1. todo[t] = <<x>> /\ ~About(t, Queue)
      BY <1>1, <1>8 DEF Tells
    <2>2. e = x /\ todo'[t] = << >>
      BY <1>4, <2>1
    <2>3. Lone(t, Queue', x)
      BY <1>2, <1>4, <1>5, <2>1, <2>2, Added DEF Typed
    <2> QED BY <1>1, <1>4, <1>8, <2>2, <2>3 DEF Tells
  <1>9. ASSUME NEW x, NEW y, TellsBoth(t, x, y)
        PROVE  /\ ~About(t, atmel') /\ mail'[t] = << >>
               /\ \/ todo'[t] = <<y>> /\ Lone(t, Queue', x)
                  \/ todo'[t] = << >> /\ Pair(t, Queue', x, y)
    <2>1. ~About(t, atmel') /\ mail'[t] = << >>
      BY <1>1, <1>4, <1>9 DEF TellsBoth
    <2>2. CASE todo[t] = <<x, y>> /\ ~About(t, Queue)
      <3>1. e = x /\ todo'[t] = <<y>>
        BY <1>4, <2>2
      <3>2. Lone(t, Queue', x)
        BY <1>2, <1>4, <1>5, <2>2, <3>1, Added DEF Typed
      <3> QED BY <2>1, <3>1, <3>2
    <2>3. CASE todo[t] = <<y>> /\ Lone(t, Queue, x)
      <3>1. e = y /\ todo'[t] = << >>
        BY <1>4, <2>3
      <3>2. Pair(t, Queue', x, y)
        BY <1>2, <1>4, <1>5, <2>3, <3>1, Added DEF Typed
      <3> QED BY <2>1, <3>1, <3>2
    <2> QED BY <1>1, <1>9, <2>2, <2>3 DEF TellsBoth
  <1>10. Asks(t) => Asks(t)'
    <2> DEFINE x == NEW_TR_HS(t, Expected(t))
    <2>1. x' = x /\ x.train = t
      BY <1>7 DEF NEW_TR_HS
    <2>2. ASSUME Tells(t, x) PROVE Tells(t, x)'
      <3> HIDE DEF x
      <3>1. PICK z : z = x
        OBVIOUS
      <3>2. Tells(t, z)'
        BY <1>8, <2>1, <2>2, <3>1
      <3> QED BY <2>1, <3>1, <3>2 DEF Tells
    <2> QED BY <1>1, <1>7, <2>2 DEF Asks
  <1>11. Stops(t) => Stops(t)'
    <2>1. COLLISION(t).train = t
      BY DEF COLLISION
    <2> QED BY <1>1, <1>7, <1>8, <2>1 DEF Stops
  <1>12. Enters(t) => Enters(t)'
    <2> DEFINE x == FULL_PATH(t, IF ctl[t].hs = 0 THEN ctl[t].cur ELSE ctl[t].nxt)
               y == NEW_TR_HS(t, Expected(t))
    <2>1. x' = x /\ y' = y
      BY <1>1, <1>7
    <2>2. ASSUME TellsBoth(t, x, y) PROVE TellsBoth(t, x, y)'
      <3> HIDE DEF x, y
      <3> QED BY <1>9, <2>1, <2>2 DEF TellsBoth
    <2> QED BY <1>1, <1>7, <2>2 DEF Enters, Later
  <1>13. ASSUME t \in S PROVE Phase(t)' /\ Held(t)'
    <2>1. Asks(t) \/ Enters(t) \/ Stops(t)
      BY <1>1, <1>2, <1>13, Where
    <2>2. Held(t)'
      BY <1>1, <1>2, <1>13 DEF Held, Handled
    <2> QED BY <1>10, <1>11, <1>12, <2>1, <2>2 DEF Phase
  <1>14. ASSUME u \in S PROVE Phase(u)' /\ Held(u)'
    <2>1. Aside(u, atmel, atmel') /\ Aside(u, Queue, Queue')
      BY <1>1, <1>3, <1>4, <1>5 DEF Aside
    <2>2. Steady(u)
      BY <1>1, <1>3, <1>4, <2>1 DEF Steady
    <2> QED BY <1>1, <1>2, <1>3, <1>14, <2>2, Frame DEF Held
  <1>15. Rest'
    BY <1>1, <1>2 DEF Rest, Braked, Turned
  <1> QED BY <1>2, <1>3, <1>6, <1>13, <1>14, <1>15 DEF Inv

(* What the conductor's mailbox and those of the trains become when it has    *)
(* handled a message.                                                         *)
LEMMA Replies ==
    ASSUME Typed
    PROVE  /\ Reply(NoReply) => /\ DOMAIN mail' = Socket /\ Queue' = Tail(Queue)
                                /\ \A s \in Train : mail'[s] = mail[s]
           /\ \A r \in Train : \A m :
                Reply(To(r, m)) => /\ DOMAIN mail' = Socket /\ Queue' = Tail(Queue)
                                   /\ mail'[r] = Append(mail[r], m)
                                   /\ \A s \in Train \ {r} : mail'[s] = mail[s]
  <1>1. Train \subseteq Socket /\ "conductor" \in Socket /\ "conductor" \notin Train
    BY DEF Socket, Train
  <1>2. ASSUME Reply(NoReply)
        PROVE  /\ DOMAIN mail' = Socket /\ Queue' = Tail(Queue)
               /\ \A s \in Train : mail'[s] = mail[s]
    BY <1>1, <1>2 DEF Reply, NoReply, Queue
  <1>3. ASSUME NEW r \in Train, NEW m, Reply(To(r, m))
        PROVE  /\ DOMAIN mail' = Socket /\ Queue' = Tail(Queue)
               /\ mail'[r] = Append(mail[r], m)
               /\ \A s \in Train \ {r} : mail'[s] = mail[s]
    <2>1. To(r, m) # NoReply /\ To(r, m)[1].to = r /\ To(r, m)[1].msg = m
      BY DEF To, NoReply
    <2> QED BY <1>1, <1>3, <2>1 DEF Reply, Queue
  <1> QED BY <1>2, <1>3

(* A train has at most one unread message. *)
LEMMA Short ==
    ASSUME NEW t \in Train, Phase(t)
    PROVE  mail[t] = << >> \/ \E r : mail[t] = <<r>>
  <1>1. mail[t] # << >> => Reported(t) \/ Released(t)
    BY Where
  <1> QED BY <1>1 DEF Reported, Released

(* TheFatController keeps Inv. A sensor of t goes to t, which is where        *)
(* Attributed is needed; a path t enters moves t's paths up, and releases the *)
(* other train if it is blocked.                                              *)
LEMMA ConductorStep ==
    ASSUME NEW S \in Followed, Inv(S), Attributed', TheFatController
    PROVE  Inv(S)'
  <1> DEFINE h == Head(Queue)
  <1>1. /\ Queue # << >> /\ UNCHANGED <<ctl, todo, told, atmel, pos>>
        /\ \/ /\ h.m = "TRIGGERED_HS"
              /\ Reply(Report(h))
              /\ UNCHANGED con
           \/ /\ h.m = "FULL_PATH"
              /\ con' = PathAcquired(h)
              /\ Reply(IF con.blocked = Other(h.train) THEN To(con.blocked, h)
                       ELSE NoReply)
           \/ /\ h.m = "NEW_TR_HS"
              /\ con' = [con EXCEPT !.hs[h.train] = h.arg]
              /\ Reply(NoReply)
           \/ /\ h.m = "COLLISION"
              /\ con' = Avoided(h.train)
              /\ Reply(NoReply)
    BY DEF TheFatController, Queue
  <1>2. Typed /\ Rest /\ S \subseteq Train /\ "local" \in S /\ \A s \in S : Phase(s) /\ Held(s)
    BY TwoTrains DEF Inv
  <1>3. Queue \in Seq(Message) /\ h = Queue[1] /\ 1 \in 1 .. Len(Queue) /\ h \in Message
    BY <1>1, <1>2, Heads DEF Typed
  <1> HIDE DEF h
  <1>4. PICK t \in Train : h.train = t
    BY <1>3 DEF Message
  <1> DEFINE u == Other(t)
  <1>5. u \in Train /\ u # t /\ \A s \in Train : s = t \/ s = u
    BY TwoTrains
  <1>6. About(t, Queue)
    BY <1>3, <1>4 DEF About
  <1>7. t \in S => Passed(t) \/ Asks(t) \/ Enters(t) \/ Stops(t)
    BY <1>2, <1>6, Where
  <1>8. /\ \A x : Lone(t, Queue, x) => h = x /\ ~About(t, Tail(Queue))
        /\ \A x, y : Pair(t, Queue, x, y) => h = x /\ Lone(t, Tail(Queue), y)
    <2>1. h = Head(Queue)
      BY DEF h
    <2> QED BY <1>1, <1>3, <1>4, <2>1, Removed
  <1>9. t \in S => ~Handled(t) /\ con.blocked # t /\ con.hs[t] \in 0 .. 24
    BY <1>2, <1>6 DEF Handled, Held, Queue
  <1>10. con \in Conductor
    BY <1>2 DEF Typed
  <1>11. Rest'
    BY <1>1, <1>2 DEF Rest, Braked, Turned
  <1>12. Caught(t)' = Caught(t) /\ Behind(t)' = Behind(t) /\ Expected(t)' = Expected(t)
    BY <1>1 DEF Caught, Behind, Expected
  <1>13. ASSUME Queue' = Tail(Queue) PROVE Aside(u, atmel, atmel') /\ Aside(u, Queue, Queue')
    <2>1. h = Head(Queue)
      BY DEF h
    <2> QED BY <1>1, <1>4, <1>5, <1>13, <2>1 DEF Aside
  <1>14. ASSUME /\ Queue' = Tail(Queue) /\ mail'[u] = mail[u] /\ con'.hs[u] = con.hs[u]
                /\ con'.cur[u] = con.cur[u] /\ con'.nxt[u] = con.nxt[u]
                /\ con'.blocked = u => con.blocked = u /\ con'.saved = con.saved,
                u \in S
         PROVE  Phase(u)' /\ Held(u)'
    <2>1. Steady(u)
      BY <1>1, <1>5, <1>13, <1>14 DEF Steady
    <2>2. Phase(u)' /\ (Handled(u)' <=> Handled(u))
      BY <1>2, <1>5, <1>14, <2>1, Frame
    <2> QED BY <1>1, <1>2, <1>5, <1>14, <2>2 DEF Held
  <1>15. ASSUME Queue' = Tail(Queue), DOMAIN mail' = Socket, con' \in Conductor
         PROVE  Typed'
    <2>1. Queue' \in Seq(Message)
      BY <1>1, <1>3, <1>15, Heads
    <2> QED BY <1>1, <1>2, <1>15, <2>1 DEF Typed
  <1>16. CASE h.m = "TRIGGERED_HS"
    <2>1. Reply(Report(h)) /\ con' = con
      BY <1>1, <1>16
    <2>2. \A s \in Train : con.cur[s] \in 0 .. 12 /\ con.nxt[s] \in 0 .. 12
      BY <1>10 DEF Conductor
    <2>3. h.arg \in 0 .. 24
      BY <1>3, <1>16 DEF Message
    (* A sensor of the express never goes to the local. *)
    <2>4. ~(t = "express" /\ h.arg = con.hs["local"])
      <3> SUFFICES ASSUME t = "express", h.arg = con.hs["local"] PROVE FALSE
        OBVIOUS
      <3> DEFINE r == [m |-> "TRIGGERED_HS", train |-> h.train, arg |-> h.arg,
                       cur |-> con.cur["express"], nxt |-> con.nxt["express"]]
      <3>1. Report(h) = To("local", r) /\ r.m = "TRIGGERED_HS" /\ r.train = "express"
        BY <1>4 DEF Report
      <3> HIDE DEF r
      <3>2. mail'["local"] = Append(mail["local"], r)
        BY <1>2, <2>1, <3>1, Replies DEF Train
      <3>3. mail["local"] = << >> \/ \E x : mail["local"] = <<x>>
        BY <1>2, Short DEF Train
      <3>4. \E k \in 1 .. Len(mail'["local"]) : mail'["local"][k] = r
        <4>1. CASE mail["local"] = << >>
          BY <3>2, <4>1
        <4>2. ASSUME NEW x, mail["local"] = <<x>>
              PROVE  \E k \in 1 .. Len(mail'["local"]) : mail'["local"][k] = r
          <5>1. mail'["local"] = Append(<<x>>, r)
            BY <3>2, <4>2
          <5>2. Len(Append(<<x>>, r)) = 2 /\ Append(<<x>>, r)[2] = r
            OBVIOUS
          <5> QED BY <5>1, <5>2
        <4> QED BY <3>3, <4>1, <4>2
      <3> QED BY <3>1, <3>4 DEF Attributed, Train
    <2>5. t \in S => /\ h = Triggered(t, Expected(t)) /\ ~About(t, Tail(Queue))
                     /\ ~About(t, atmel) /\ Behind(t) /\ Known(t) /\ con.hs[t] = Expected(t)
                     /\ todo[t] = << >> /\ mail[t] = << >>
      <3> SUFFICES ASSUME t \in S
                   PROVE  /\ h = Triggered(t, Expected(t)) /\ ~About(t, Tail(Queue))
                          /\ ~About(t, atmel) /\ Behind(t) /\ Known(t)
                          /\ con.hs[t] = Expected(t) /\ todo[t] = << >> /\ mail[t] = << >>
        OBVIOUS
      <3>1. CASE Passed(t)
        BY <1>6, <1>8, <3>1 DEF Passed
      <3>2. CASE Asks(t)
        <4> DEFINE x == NEW_TR_HS(t, Expected(t))
        <4>1. Tells(t, x) /\ x.m # "TRIGGERED_HS"
          BY <3>2 DEF Asks, NEW_TR_HS
        <4> HIDE DEF x
        <4> QED BY <1>6, <1>8, <1>16, <4>1 DEF Tells
      <3>3. CASE Enters(t)
        <4> DEFINE x == FULL_PATH(t, IF ctl[t].hs = 0 THEN ctl[t].cur ELSE ctl[t].nxt)
                   y == NEW_TR_HS(t, Expected(t))
        <4>1. TellsBoth(t, x, y) /\ x.m # "TRIGGERED_HS"
          BY <3>3 DEF Enters, FULL_PATH
        <4> HIDE DEF x, y
        <4> QED BY <1>6, <1>8, <1>16, <4>1 DEF TellsBoth
      <3>4. CASE Stops(t)
        <4>1. Tells(t, COLLISION(t)) /\ COLLISION(t).m # "TRIGGERED_HS"
          BY <3>4 DEF Stops, COLLISION
        <4> QED BY <1>6, <1>8, <1>16, <4>1 DEF Tells
      <3> QED BY <1>7, <3>1, <3>2, <3>3, <3>4
    <2>6. t \in S => h.arg = con.hs[t]
      BY <2>5 DEF Triggered
    <2>7. \/ t \notin S /\ Report(h) = NoReply
          \/ \E r \in Reports(t) : Report(h) = To(t, r)
      <3>1. CASE t = "local"
        <4> DEFINE r == [m |-> "TRIGGERED_HS", train |-> h.train, arg |-> h.arg,
                         cur |-> con.cur["express"], nxt |-> con.nxt["express"]]
        <4>1. Report(h) = To(t, r)
          BY <1>2, <2>6, <3>1 DEF Report
        <4>2. r \in Reports(t)
          BY <1>4, <2>2, <2>3, <3>1 DEF Reports, Train
        <4> QED BY <4>1, <4>2
      <3>2. CASE t = "express" /\ h.arg = con.hs["express"]
        <4> DEFINE r == [m |-> "TRIGGERED_HS", train |-> h.train, arg |-> h.arg,
                         cur |-> con.cur["local"]]
        <4>1. Report(h) = To(t, r)
          BY <2>4, <3>2 DEF Report
        <4>2. r \in Reports(t)
          BY <1>4, <2>2, <2>3, <3>2 DEF Reports, Train
        <4> QED BY <4>1, <4>2
      <3>3. CASE t = "express" /\ h.arg # con.hs["express"]
        BY <2>4, <2>6, <3>3 DEF Report
      <3> QED BY <3>1, <3>2, <3>3 DEF Train
    <2>8. /\ DOMAIN mail' = Socket /\ Queue' = Tail(Queue) /\ mail'[u] = mail[u]
          /\ t \in S => \E r \in Reports(t) : mail'[t] = <<r>>
      <3>1. CASE t \notin S /\ Report(h) = NoReply
        BY <1>2, <1>5, <2>1, <3>1, Replies
      <3>2. ASSUME NEW r \in Reports(t), Report(h) = To(t, r)
            PROVE  /\ DOMAIN mail' = Socket /\ Queue' = Tail(Queue) /\ mail'[u] = mail[u]
                   /\ t \in S => mail'[t] = <<r>>
        <4>1. /\ DOMAIN mail' = Socket /\ Queue' = Tail(Queue)
              /\ mail'[t] = Append(mail[t], r) /\ mail'[u] = mail[u]
          BY <1>2, <1>5, <2>1, <3>2, Replies
        <4>2. mail[t] = << >> => Append(mail[t], r) = <<r>>
          OBVIOUS
        <4>3. t \in S => mail'[t] = <<r>>
          BY <2>5, <4>1, <4>2
        <4> QED BY <4>1, <4>3
      <3> QED BY <2>7, <3>1, <3>2
    <2>9. ASSUME t \in S PROVE Phase(t)' /\ Held(t)'
      <3>1. Reported(t)'
        BY <1>1, <1>12, <2>1, <2>5, <2>8, <2>9 DEF Reported, Silent, Known, Later
      <3>2. Held(t)'
        BY <1>9, <2>1, <2>9 DEF Held
      <3> QED BY <3>1, <3>2 DEF Phase
    <2> QED BY <1>2, <1>5, <1>10, <1>11, <1>14, <1>15, <2>1, <2>8, <2>9 DEF Inv
  <1>17. CASE h.m = "NEW_TR_HS"
    <2> DEFINE x == NEW_TR_HS(t, Expected(t))
    <2>1. con' = [con EXCEPT !.hs[t] = h.arg] /\ Reply(NoReply) /\ h.arg \in Numbers
      BY <1>1, <1>3, <1>4, <1>17 DEF Message
    <2>2. /\ DOMAIN mail' = Socket /\ Queue' = Tail(Queue)
          /\ mail'[t] = mail[t] /\ mail'[u] = mail[u]
      BY <1>2, <1>5, <2>1, Replies
    <2>3. /\ con'.hs[t] = h.arg /\ con'.hs[u] = con.hs[u]
          /\ con'.cur = con.cur /\ con'.nxt = con.nxt
          /\ con'.blocked = con.blocked /\ con'.saved = con.saved
          /\ con' \in Conductor
      BY <1>5, <1>10, <2>1 DEF Conductor
    <2>4. ASSUME t \in S PROVE Phase(t)' /\ Held(t)'
      <3>1. Tells(t, x) /\ Caught(t) /\ Known(t) /\ ~ctl[t].waiting /\ Expected(t) \in 0 .. 24
        <4>1. ~Passed(t)
          <5>1. Triggered(t, Expected(t)).m # "NEW_TR_HS"
            BY DEF Triggered
          <5> QED BY <1>6, <1>8, <1>17, <5>1 DEF Passed
        <4>2. ~Stops(t)
          <5>1. COLLISION(t).m # "NEW_TR_HS"
            BY DEF COLLISION
          <5> QED BY <1>6, <1>8, <1>17, <5>1 DEF Stops, Tells
        <4>3. ~Enters(t)
          <5> DEFINE z == FULL_PATH(t, IF ctl[t].hs = 0 THEN ctl[t].cur ELSE ctl[t].nxt)
          <5>1. z.m # "NEW_TR_HS"
            BY DEF FULL_PATH
          <5>2. Enters(t) => TellsBoth(t, z, x)
            BY DEF Enters
          <5> HIDE DEF z, x
          <5> QED BY <1>6, <1>8, <1>17, <5>1, <5>2 DEF TellsBoth
        <4> QED BY <1>2, <1>7, <2>4, <4>1, <4>2, <4>3, Ranges DEF Asks
      <3>2. /\ ~About(t, atmel) /\ mail[t] = << >> /\ todo[t] = << >>
            /\ h = x /\ ~About(t, Tail(Queue))
        <4> HIDE DEF x
        <4> QED BY <1>6, <1>8, <3>1 DEF Tells
      <3>3. h.arg = Expected(t)
        BY <3>2 DEF NEW_TR_HS
      <3>4. Handled(t)'
        BY <1>1, <2>2, <3>2 DEF Handled, Queue
      <3>5. Idle(t)'
        BY <1>1, <1>12, <2>3, <3>1, <3>3, <3>4 DEF Idle, Known, Later
      <3>6. Held(t)'
        BY <1>9, <2>3, <2>4, <3>1, <3>3 DEF Held
      <3> QED BY <3>5, <3>6 DEF Phase
    <2> QED BY <1>2, <1>5, <1>11, <1>14, <1>15, <2>2, <2>3, <2>4 DEF Inv
  <1>18. CASE h.m = "FULL_PATH"
    <2> DEFINE p == IF ctl[t].hs = 0 THEN ctl[t].cur ELSE ctl[t].nxt
               x == FULL_PATH(t, p)
               y == NEW_TR_HS(t, Expected(t))
    <2>1. /\ con' = PathAcquired(h)
          /\ Reply(IF con.blocked = u THEN To(u, h) ELSE NoReply)
          /\ h.arg \in 0 .. 12 /\ h = FULL_PATH(t, h.arg)
      BY <1>1, <1>3, <1>4, <1>18 DEF Message, FULL_PATH
    <2>2. /\ con'.cur[t] = con.nxt[t] /\ con'.nxt[t] = h.arg /\ con'.saved = con.saved
          /\ con'.hs[t] = con.hs[t] /\ con'.cur[u] = con.cur[u] /\ con'.nxt[u] = con.nxt[u]
          /\ con' \in Conductor
          /\ con.blocked = u => con'.blocked = "NO_TRAIN" /\ con'.hs[u] = con.saved
          /\ con.blocked # u => con'.blocked = con.blocked /\ con'.hs[u] = con.hs[u]
      <3> DEFINE c == [con EXCEPT !.cur[t] = con.nxt[t], !.nxt[t] = h.arg]
      <3>1. /\ c \in Conductor /\ c.cur[t] = con.nxt[t] /\ c.nxt[t] = h.arg
            /\ c.cur[u] = con.cur[u] /\ c.nxt[u] = con.nxt[u] /\ c.hs = con.hs
            /\ c.saved = con.saved /\ c.blocked = con.blocked
        <4> DEFINE b == [con EXCEPT !.cur[t] = con.nxt[t]]
        <4>1. /\ b \in Conductor /\ b.cur[t] = con.nxt[t] /\ b.cur[u] = con.cur[u]
              /\ b.nxt = con.nxt /\ b.hs = con.hs /\ b.saved = con.saved
              /\ b.blocked = con.blocked
          BY <1>5, <1>10 DEF Conductor
        <4>2. c = [b EXCEPT !.nxt[t] = h.arg]
          OBVIOUS
        <4> HIDE DEF b
        <4> QED BY <1>5, <2>1, <4>1, <4>2 DEF Conductor
      <3>2. con' = IF con.blocked = u
                   THEN [c EXCEPT !.blocked = "NO_TRAIN", !.hs[u] = con.saved] ELSE c
        BY <1>4, <2>1 DEF PathAcquired
      <3>3. con.saved \in Numbers
        BY <1>10 DEF Conductor
      <3> HIDE DEF c
      <3>4. CASE con.blocked = u
        <4> DEFINE b == [c EXCEPT !.blocked = "NO_TRAIN"]
        <4>1. /\ b \in Conductor /\ b.cur = c.cur /\ b.nxt = c.nxt /\ b.hs = c.hs
              /\ b.saved = c.saved /\ b.blocked = "NO_TRAIN"
          BY <3>1 DEF Conductor
        <4>2. con' = [b EXCEPT !.hs[u] = con.saved]
          BY <3>2, <3>4
        <4> HIDE DEF b
        <4> QED BY <1>5, <3>1, <3>3, <3>4, <4>1, <4>2 DEF Conductor
      <3>5. CASE con.blocked # u
        BY <3>1, <3>2, <3>5
      <3> QED BY <3>4, <3>5
    <2>3. /\ DOMAIN mail' = Socket /\ Queue' = Tail(Queue) /\ mail'[t] = mail[t]
          /\ con.blocked = u => mail'[u] = Append(mail[u], h)
          /\ con.blocked # u => mail'[u] = mail[u]
      BY <1>2, <1>5, <2>1, Replies
    <2>4. ASSUME t \in S PROVE Phase(t)' /\ Held(t)'
      <3>1. /\ TellsBoth(t, x, y) /\ Caught(t) /\ ~ctl[t].waiting
            /\ ctl[t].hs # 0 /\ Later(t, ctl[t]) => con.nxt[t] = ctl[t].cur
        <4>1. ~Passed(t)
          <5>1. Triggered(t, Expected(t)).m # "FULL_PATH"
            BY DEF Triggered
          <5> QED BY <1>6, <1>8, <1>18, <5>1 DEF Passed
        <4>2. ~Stops(t)
          <5>1. COLLISION(t).m # "FULL_PATH"
            BY DEF COLLISION
          <5> QED BY <1>6, <1>8, <1>18, <5>1 DEF Stops, Tells
        <4>3. ~Asks(t)
          <5>1. y.m # "FULL_PATH"
            BY DEF NEW_TR_HS
          <5>2. Asks(t) => Tells(t, y)
            BY DEF Asks
          <5> HIDE DEF y
          <5> QED BY <1>6, <1>8, <1>18, <5>1, <5>2 DEF Tells
        <4> QED BY <1>7, <2>4, <4>1, <4>2, <4>3 DEF Enters
      <3>2. /\ h = x /\ ~About(t, atmel) /\ mail[t] = << >>
            /\ \/ todo[t] = <<y>> /\ ~About(t, Tail(Queue))
               \/ todo[t] = << >> /\ Lone(t, Tail(Queue), y)
        <4> HIDE DEF x, y
        <4> QED BY <1>6, <1>8, <3>1 DEF TellsBoth
      <3>3. h.arg = p
        BY <3>2 DEF FULL_PATH
      <3>4. y' = y
        BY <1>12
      <3>5. Tells(t, y)'
        <4> HIDE DEF y
        <4> QED BY <1>1, <2>3, <3>2, <3>4 DEF Tells
      <3>6. Known(t)'
        BY <1>1, <2>2, <3>1, <3>3 DEF Known, Later
      <3>7. Asks(t)'
        BY <1>1, <1>12, <3>1, <3>5, <3>6 DEF Asks
      <3>8. Held(t)'
        BY <1>9, <2>2, <2>4, <1>5 DEF Held, Train
      <3> QED BY <3>7, <3>8 DEF Phase
    <2>5. ASSUME u \in S, con.blocked = u PROVE Phase(u)' /\ Held(u)'
      <3>1. Handled(u) /\ ctl[u].waiting /\ Idle(u) /\ con.saved \in 0 .. 24
        BY <1>2, <1>5, <2>5, Where DEF Held
      <3>2. /\ todo[u] = << >> /\ mail[u] = << >> /\ ~About(u, Queue) /\ ~About(u, atmel)
            /\ Caught(u) /\ Known(u)
        BY <3>1 DEF Idle, Handled, Queue
      <3>3. mail'[u] = <<h>> /\ h = FULL_PATH(Other(u), h.arg)
        BY <1>5, <2>1, <2>3, <2>5, <3>2, TwoTrains
      <3>4. ~About(u, Queue')
        BY <1>3, <1>13, <2>3, <3>2, Kept
      <3>5. Caught(u)' /\ Known(u)'
        BY <1>1, <2>2, <3>2 DEF Caught, Known, Later
      <3>6. Released(u)'
        BY <1>1, <2>1, <3>1, <3>2, <3>3, <3>4, <3>5 DEF Released, Silent
      <3>7. Held(u)'
        BY <1>5, <2>2, <2>5, <3>1 DEF Held, Train
      <3> QED BY <3>6, <3>7 DEF Phase
    <2>6. ASSUME u \in S, con.blocked # u PROVE Phase(u)' /\ Held(u)'
      BY <1>14, <2>2, <2>3, <2>6
    <2> QED BY <1>2, <1>5, <1>11, <1>15, <2>2, <2>3, <2>4, <2>5, <2>6 DEF Inv
  <1>19. CASE h.m = "COLLISION"
    <2>1. con' = Avoided(t) /\ Reply(NoReply)
      BY <1>1, <1>4, <1>19
    <2>2. /\ DOMAIN mail' = Socket /\ Queue' = Tail(Queue)
          /\ mail'[t] = mail[t] /\ mail'[u] = mail[u]
      BY <1>2, <1>5, <2>1, Replies
    <2>3. /\ con'.hs[u] = con.hs[u] /\ con'.cur[u] = con.cur[u]
          /\ con'.nxt = con.nxt /\ con'.blocked = t /\ con'.hs[t] = 0
          /\ con'.saved = IF t = "express" THEN con.hs[t] ELSE 0
          /\ con' \in Conductor
      <3> DEFINE n == IF t = "express" THEN con.hs[t] ELSE 0
      <3>1. n \in Numbers /\ 0 \in Numbers
        BY <1>10 DEF Conductor, Numbers
      <3>2. con' = [con EXCEPT !.blocked = t, !.cur[t] = 0, !.hs[t] = 0, !.saved = n]
        BY <2>1 DEF Avoided
      <3> HIDE DEF n
      <3>3. con' = [blocked |-> t, saved |-> n, cur |-> [con.cur EXCEPT ![t] = 0],
                    nxt |-> con.nxt, hs |-> [con.hs EXCEPT ![t] = 0]]
        BY <1>10, <3>2 DEF Conductor
      <3> QED BY <1>5, <1>10, <3>1, <3>3 DEF Conductor, n
    <2>4. ASSUME t \in S PROVE Phase(t)' /\ Held(t)'
      <3>1. Tells(t, COLLISION(t)) /\ Caught(t) /\ Known(t) /\ ctl[t].waiting
        <4>1. ~Passed(t)
          <5>1. Triggered(t, Expected(t)).m # "COLLISION"
            BY DEF Triggered
          <5> QED BY <1>6, <1>8, <1>19, <5>1 DEF Passed
        <4>2. ~Asks(t)
          <5> DEFINE y == NEW_TR_HS(t, Expected(t))
          <5>1. y.m # "COLLISION" /\ (Asks(t) => Tells(t, y))
            BY DEF NEW_TR_HS, Asks
          <5> HIDE DEF y
          <5> QED BY <1>6, <1>8, <1>19, <5>1 DEF Tells
        <4>3. ~Enters(t)
          <5> DEFINE x == FULL_PATH(t, IF ctl[t].hs = 0 THEN ctl[t].cur ELSE ctl[t].nxt)
                     y == NEW_TR_HS(t, Expected(t))
          <5>1. x.m # "COLLISION" /\ (Enters(t) => TellsBoth(t, x, y))
            BY DEF FULL_PATH, Enters
          <5> HIDE DEF x, y
          <5> QED BY <1>6, <1>8, <1>19, <5>1 DEF TellsBoth
        <4> QED BY <1>7, <2>4, <4>1, <4>2, <4>3 DEF Stops
      <3>2. /\ ~About(t, atmel) /\ mail[t] = << >> /\ todo[t] = << >>
            /\ ~About(t, Tail(Queue))
        BY <1>6, <1>8, <3>1 DEF Tells
      <3>3. Handled(t)'
        BY <1>1, <2>2, <3>2 DEF Handled, Queue
      <3>4. ctl[t].hs = 0
        BY <3>1 DEF Caught
      <3>5. Idle(t)'
        BY <1>1, <1>12, <2>3, <3>1, <3>3, <3>4 DEF Idle, Known, Later
      <3>6. Held(t)'
        BY <1>1, <1>9, <2>3, <2>4, <3>1, <3>3 DEF Held
      <3> QED BY <3>5, <3>6 DEF Phase
    (* If it was u that was blocked, nobody is left to release it. *)
    <2>5. ASSUME u \in S PROVE Phase(u)' /\ Held(u)'
      <3>1. Steady(u)
        BY <1>1, <1>5, <1>13, <2>2, <2>3 DEF Steady
      <3>2. Phase(u)'
        BY <1>2, <1>5, <2>5, <3>1, Frame
      <3>3. Held(u)'
        BY <1>2, <1>5, <2>3, <2>5 DEF Held
      <3> QED BY <3>2, <3>3
    <2> QED BY <1>2, <1>5, <1>11, <1>15, <2>2, <2>3, <2>4, <2>5 DEF Inv
  <1>20. h.m \in {"TRIGGERED_HS", "NEW_TR_HS", "FULL_PATH", "COLLISION"}
    BY <1>3 DEF Message
  <1> QED BY <1>16, <1>17, <1>18, <1>19, <1>20


(* The type of what the Atmel has been told. *)
Told == [speed : [Train -> Int], sw : [1 .. 6 -> {"STRAIGHT", "TURNED"}]]

(* What every turn of a controller has in common. *)
LEMMA Turns ==
    ASSUME NEW S \in Followed, Inv(S), NEW t \in Train, Receives(t),
           NEW c \in Locals(t), NEW sends \in Seq(Own(t)), NEW w \in Told,
           Controls(t, c, sends, w)
    PROVE  /\ Typed' /\ (Other(t) \in S => Phase(Other(t))' /\ Held(Other(t))')
           /\ ctl'[t] = c /\ ctl'[Other(t)] = ctl[Other(t)] /\ todo'[t] = sends
           /\ told' = w /\ pos' = pos /\ con' = con /\ Queue' = Queue /\ atmel' = atmel
           /\ t \in S => /\ Held(t)' /\ mail'[t] = << >>
                         /\ ~About(t, Queue) /\ ~About(t, atmel)
                         /\ Reported(t) \/ Released(t)
  <1> DEFINE u == Other(t)
  <1>1. Typed /\ Rest /\ S \subseteq Train /\ \A s \in S : Phase(s) /\ Held(s)
    BY TwoTrains DEF Inv
  <1>2. u \in Train /\ u # t /\ \A s \in Train : s = t \/ s = u
    BY TwoTrains
  <1>3. /\ todo[t] = << >> /\ mail[t] # << >>
        /\ mail' = [mail EXCEPT ![t] = Tail(@)]
        /\ con' = con /\ atmel' = atmel /\ pos' = pos
        /\ ctl' = [ctl EXCEPT ![t] = c]
        /\ todo' = [todo EXCEPT ![t] = sends]
        /\ told' = w
    BY DEF Receives, Controls
  <1>4. /\ DOMAIN mail' = Socket /\ Queue' = Queue
        /\ mail'[t] = Tail(mail[t]) /\ mail'[u] = mail[u]
    BY <1>1, <1>2, <1>3 DEF Typed, Queue, Socket, Train
  <1>5. /\ DOMAIN todo' = Train /\ todo'[t] = sends /\ todo'[u] = todo[u]
        /\ ctl'[t] = c /\ ctl'[u] = ctl[u]
    BY <1>1, <1>2, <1>3 DEF Typed
  <1>6. Typed'
    <2>1. /\ ctl' \in [Train -> ExpressLocals \cup LocalLocals]
          /\ ctl'["express"] \in ExpressLocals /\ ctl'["local"] \in LocalLocals
      BY <1>1, <1>3 DEF Typed, Locals, Train
    <2>2. \A s \in Train : todo'[s] \in Seq(Own(s))
      BY <1>1, <1>2, <1>5 DEF Typed
    <2> QED BY <1>1, <1>3, <1>4, <1>5, <2>1, <2>2 DEF Typed, Told
  <1>7. ASSUME u \in S PROVE Phase(u)' /\ Held(u)'
    <2>1. Steady(u)
      BY <1>2, <1>3, <1>4, <1>5 DEF Steady, Aside
    <2>2. Phase(u)' /\ (Handled(u)' <=> Handled(u))
      BY <1>1, <1>2, <1>7, <2>1, Frame
    <2>3. Held(u)'
      BY <1>1, <1>2, <1>3, <1>5, <1>7, <2>2 DEF Held
    <2> QED BY <2>2, <2>3
  <1>8. ASSUME t \in S
        PROVE  /\ Held(t)' /\ mail'[t] = << >> /\ ~About(t, Queue) /\ ~About(t, atmel)
               /\ Reported(t) \/ Released(t)
    <2>1. Reported(t) \/ Released(t)
      BY <1>1, <1>3, <1>8, Where
    <2>2. ~About(t, Queue) /\ ~About(t, atmel) /\ \E r : mail[t] = <<r>>
      BY <2>1 DEF Reported, Released, Silent
    <2>3. mail'[t] = << >>
      BY <1>4, <2>2
    <2>4. Held(t)'
      <3>1. con.blocked # t /\ con.hs[t] \in 0 .. 24
        BY <1>1, <1>3, <1>8 DEF Held, Handled
      <3> QED BY <1>3, <3>1 DEF Held
    <2> QED BY <2>1, <2>2, <2>3, <2>4
  <1> QED BY <1>3, <1>4, <1>5, <1>6, <1>7, <1>8


(* A sequence of two. *)
LEMMA AppendTwo ==
    ASSUME NEW x, NEW y
    PROVE  Append(<<x>>, y) = <<x, y>>
  <1> DEFINE S == {x, y}
  <1>1. <<x>> \in Seq(S) /\ <<x, y>> \in Seq(S) /\ y \in S
    OBVIOUS
  <1>2. Append(<<x>>, y) \in Seq(S) /\ Len(Append(<<x>>, y)) = 2
    BY <1>1
  <1>3. \A k \in 1 .. 2 : Append(<<x>>, y)[k] = <<x, y>>[k]
    BY <1>1
  <1>4. Len(<<x, y>>) = 2
    OBVIOUS
  <1> HIDE DEF S
  <1> QED BY <1>1, <1>2, <1>3, <1>4, SeqEqual

(* The locals of a controller that goes on to sensor h, and of one that       *)
(* waits.                                                                     *)
GoesOn(c, h) == [c EXCEPT !.hs = h, !.waiting = FALSE]
Waits(c) == [c EXCEPT !.waiting = TRUE]

(* Neither changes the paths, and both keep the type. *)
LEMMA Updates ==
    ASSUME NEW t \in Train, NEW c \in Locals(t)
    PROVE  /\ \A h \in Nat :
                /\ GoesOn(c, h) \in Locals(t)
                /\ GoesOn(c, h).hs = h /\ ~GoesOn(c, h).waiting
                /\ GoesOn(c, h).cur = c.cur /\ GoesOn(c, h).nxt = c.nxt
                /\ GoesOn(c, h).prv = c.prv /\ GoesOn(c, h).dst = c.dst
           /\ Waits(c) \in Locals(t)
           /\ Waits(c).hs = c.hs /\ Waits(c).waiting
           /\ Waits(c).cur = c.cur /\ Waits(c).nxt = c.nxt
           /\ Waits(c).prv = c.prv /\ Waits(c).dst = c.dst
  <1>1. CASE t = "local"
    <2>1. ASSUME NEW h \in Nat
          PROVE  /\ GoesOn(c, h) \in LocalLocals
                 /\ GoesOn(c, h).hs = h /\ ~GoesOn(c, h).waiting
                 /\ GoesOn(c, h).cur = c.cur /\ GoesOn(c, h).nxt = c.nxt
                 /\ GoesOn(c, h).prv = c.prv /\ GoesOn(c, h).dst = c.dst
      <3> DEFINE e == [c EXCEPT !.hs = h]
      <3>1. e \in LocalLocals /\ e.hs = h /\ e.cur = c.cur /\ e.nxt = c.nxt
            /\ e.prv = c.prv /\ e.dst = c.dst
        BY <1>1 DEF Locals, LocalLocals
      <3>2. GoesOn(c, h) = [e EXCEPT !.waiting = FALSE]
        BY DEF GoesOn
      <3> HIDE DEF e
      <3> QED BY <3>1, <3>2 DEF LocalLocals
    <2> QED BY <1>1, <2>1 DEF Locals, LocalLocals, Waits
  <1>2. CASE t # "local"
    <2>1. ASSUME NEW h \in Nat
          PROVE  /\ GoesOn(c, h) \in ExpressLocals
                 /\ GoesOn(c, h).hs = h /\ ~GoesOn(c, h).waiting
                 /\ GoesOn(c, h).cur = c.cur /\ GoesOn(c, h).nxt = c.nxt
                 /\ GoesOn(c, h).prv = c.prv /\ GoesOn(c, h).dst = c.dst
      <3> DEFINE e == [c EXCEPT !.hs = h]
      <3>1. e \in ExpressLocals /\ e.hs = h /\ e.cur = c.cur /\ e.nxt = c.nxt
            /\ e.prv = c.prv /\ e.dst = c.dst
        BY <1>2 DEF Locals, ExpressLocals
      <3>2. GoesOn(c, h) = [e EXCEPT !.waiting = FALSE]
        BY DEF GoesOn
      <3> HIDE DEF e
      <3> QED BY <3>1, <3>2 DEF ExpressLocals
    <2> QED BY <1>2, <2>1 DEF Locals, ExpressLocals, Waits
  <1> QED BY <1>1, <1>2

(* What the controllers have to say has its type. *)
LEMMA Says ==
    ASSUME NEW t \in Train, NEW c \in Locals(t), NEW h \in Nat
    PROVE  /\ NEW_TR_HS(t, paths[c.cur].hs[h + 1]) \in Own(t)
           /\ FULL_PATH(t, c.cur) \in Own(t) /\ FULL_PATH(t, c.nxt) \in Own(t)
           /\ COLLISION(t) \in Own(t)
  <1>1. c.cur \in 0 .. 12 /\ c.nxt \in 0 .. 12
    BY DEF Locals, ExpressLocals, LocalLocals
  <1>2. paths[c.cur].hs[h + 1] \in Numbers
    <2>1. h + 1 \in Nat
      OBVIOUS
    <2> QED BY <1>1, <2>1 DEF Numbers
  <1>3. NEW_TR_HS(t, paths[c.cur].hs[h + 1]) \in Own(t)
    BY <1>2 DEF NEW_TR_HS, Own, Message
  <1> QED BY <1>1, <1>3 DEF FULL_PATH, COLLISION, Own, Message

(* A turn that ends with the report of a path and a new sensor. *)
LEMMA Entering ==
    ASSUME NEW S \in Followed, Inv(S), NEW t \in Train, t \in S, Receives(t),
           NEW c \in Locals(t), NEW w \in Told,
           NEW h \in 0 .. 2, NEW p, p = IF h = 0 THEN c.cur ELSE c.nxt,
           OnLeg(t, c, pos[t].leg), pos[t].passed = h,
           h # 0 /\ Later(t, c) => con.nxt[t] = c.cur,
           Expect(t, c, h, <<FULL_PATH(t, p)>>, w)
    PROVE  Enters(t)'
  <1> DEFINE d == GoesOn(c, h)
             x == FULL_PATH(t, p)
             y == NEW_TR_HS(t, paths[c.cur].hs[h + 1])
  <1>1. /\ d \in Locals(t) /\ d.hs = h /\ ~d.waiting
        /\ d.cur = c.cur /\ d.nxt = c.nxt /\ d.prv = c.prv /\ d.dst = c.dst
    BY Updates
  <1>2. Controls(t, d, Append(<<x>>, y), w)
    BY DEF Expect, GoesOn
  <1>3. x \in Own(t) /\ y \in Own(t)
    BY Says
  <1> HIDE DEF d, x, y
  <1>4. Append(<<x>>, y) = <<x, y>> /\ <<x, y>> \in Seq(Own(t))
    BY <1>3, AppendTwo
  <1> DEFINE z == <<x, y>>
  <1>5. z \in Seq(Own(t)) /\ Controls(t, d, z, w)
    BY <1>2, <1>4
  <1> HIDE DEF z
  <1>6. /\ ctl'[t] = d /\ todo'[t] = z /\ pos' = pos /\ con' = con /\ Queue' = Queue
        /\ atmel' = atmel /\ mail'[t] = << >> /\ ~About(t, Queue) /\ ~About(t, atmel)
    BY <1>1, <1>5, Turns
  <1>7. Caught(t)'
    BY <1>1, <1>6 DEF Caught, OnLeg
  <1>8. TellsBoth(t, FULL_PATH(t, IF ctl[t].hs = 0 THEN ctl[t].cur ELSE ctl[t].nxt),
                 NEW_TR_HS(t, Expected(t)))'
    BY <1>1, <1>6 DEF TellsBoth, Expected, x, y, z
  <1>9. ctl'[t].hs # 0 /\ Later(t, ctl'[t]) => con'.nxt[t] = ctl'[t].cur
    BY <1>1, <1>6 DEF Later
  <1> QED BY <1>1, <1>6, <1>7, <1>8, <1>9 DEF Enters

(* A turn that ends with a new sensor only. *)
LEMMA Asking ==
    ASSUME NEW S \in Followed, Inv(S), NEW t \in Train, t \in S, Receives(t),
           NEW c \in Locals(t), NEW w \in Told,
           NEW h \in 0 .. 2, OnLeg(t, c, pos[t].leg), pos[t].passed = h,
           h # 0 => con.nxt[t] = c.nxt,
           h # 0 /\ Later(t, c) => con.cur[t] = c.cur,
           h = 0 /\ Later(t, c) => con.nxt[t] = c.cur,
           Expect(t, c, h, << >>, w)
    PROVE  Asks(t)'
  <1> DEFINE d == GoesOn(c, h)
             y == NEW_TR_HS(t, paths[c.cur].hs[h + 1])
  <1>1. /\ d \in Locals(t) /\ d.hs = h /\ ~d.waiting
        /\ d.cur = c.cur /\ d.nxt = c.nxt /\ d.prv = c.prv /\ d.dst = c.dst
    BY Updates
  <1>2. Controls(t, d, Append(<< >>, y), w)
    BY DEF Expect, GoesOn
  <1>3. y \in Own(t)
    BY Says
  <1> HIDE DEF d, y
  <1>4. Append(<< >>, y) = <<y>> /\ <<y>> \in Seq(Own(t))
    BY <1>3
  <1>5. /\ ctl'[t] = d /\ todo'[t] = <<y>> /\ pos' = pos /\ con' = con /\ Queue' = Queue
        /\ atmel' = atmel /\ mail'[t] = << >> /\ ~About(t, Queue) /\ ~About(t, atmel)
    BY <1>1, <1>2, <1>4, Turns
  <1>6. Caught(t)' /\ Known(t)'
    BY <1>1, <1>5 DEF Caught, OnLeg, Known, Later
  <1>7. Tells(t, NEW_TR_HS(t, Expected(t)))'
    BY <1>1, <1>5 DEF Tells, Expected, y
  <1> QED BY <1>1, <1>5, <1>6, <1>7 DEF Asks

(* A turn that ends with the report of a collision. *)
LEMMA Stopping ==
    ASSUME NEW S \in Followed, Inv(S), NEW t \in Train, t \in S, Receives(t),
           NEW c \in Locals(t), NEW w \in Told,
           OnLeg(t, c, pos[t].leg), pos[t].passed = 1, c.hs = 0,
           Later(t, c) => con.nxt[t] = c.cur,
           Controls(t, Waits(c), <<COLLISION(t)>>, w)
    PROVE  Stops(t)'
  <1> DEFINE d == Waits(c)
  <1>1. /\ d \in Locals(t) /\ d.hs = 0 /\ d.waiting
        /\ d.cur = c.cur /\ d.nxt = c.nxt /\ d.prv = c.prv /\ d.dst = c.dst
    BY Updates
  <1> HIDE DEF d
  <1>2. <<COLLISION(t)>> \in Seq(Own(t))
    BY Says
  <1>3. /\ ctl'[t] = d /\ todo'[t] = <<COLLISION(t)>> /\ pos' = pos /\ con' = con
        /\ Queue' = Queue /\ atmel' = atmel /\ mail'[t] = << >>
        /\ ~About(t, Queue) /\ ~About(t, atmel)
    BY <1>1, <1>2, Turns DEF d
  <1>4. Caught(t)' /\ Known(t)'
    BY <1>1, <1>3 DEF Caught, OnLeg, Known, Later
  <1>5. Tells(t, COLLISION(t))'
    BY <1>3 DEF Tells
  <1> QED BY <1>1, <1>3, <1>4, <1>5 DEF Stops

(* Advance moves the controller up by one leg of the route. *)
LEMMA Advances ==
    ASSUME NEW t \in Train, NEW c \in Locals(t)
    PROVE  LET d == Advance(t, c)
           IN  /\ d \in Locals(t) /\ d.prv = c.cur /\ d.cur = c.nxt
               /\ \A l \in Legs(t) : OnLeg(t, c, l) => OnLeg(t, d, NextIndx(t, l))
  <1> DEFINE d == Advance(t, c)
             n == Leg(t, c.dst)
             i == NextIndx(t, c.dst)
  <1>1. /\ c.dst \in Legs(t) /\ n \in 0 .. 12 /\ i \in Legs(t)
        /\ t = "express" => n \in 1 .. 4
    <2>1. c.dst \in Legs(t)
      BY DEF Locals, ExpressLocals, LocalLocals, Train
    <2> QED BY <2>1, Routes
  <1>2. d = [c EXCEPT !.prv = c.cur, !.cur = c.nxt, !.nxt = n, !.dst = i]
    BY DEF Advance
  <1> HIDE DEF d, n, i
  <1>3. d \in Locals(t) /\ d.prv = c.cur /\ d.cur = c.nxt /\ d.nxt = n /\ d.dst = i
    <2>1. CASE t = "local"
      <3> DEFINE c1 == [c EXCEPT !.prv = c.cur]
                 c2 == [c1 EXCEPT !.cur = c.nxt]
                 c3 == [c2 EXCEPT !.nxt = n]
      <3>1. c \in LocalLocals /\ c.cur \in 0 .. 12 /\ c.nxt \in 0 .. 12
        BY <2>1 DEF Locals, LocalLocals
      <3>2. c1 \in LocalLocals /\ c1.prv = c.cur
        BY <3>1 DEF LocalLocals
      <3>3. c2 \in LocalLocals /\ c2.prv = c.cur /\ c2.cur = c.nxt
        BY <3>1, <3>2 DEF LocalLocals
      <3>4. c3 \in LocalLocals /\ c3.prv = c.cur /\ c3.cur = c.nxt /\ c3.nxt = n
        BY <1>1, <3>3 DEF LocalLocals
      <3>5. d = [c3 EXCEPT !.dst = i]
        BY <1>2
      <3> HIDE DEF c3
      <3> QED BY <1>1, <2>1, <3>4, <3>5 DEF Locals, LocalLocals
    <2>2. CASE t = "express"
      <3> DEFINE c1 == [c EXCEPT !.prv = c.cur]
                 c2 == [c1 EXCEPT !.cur = c.nxt]
                 c3 == [c2 EXCEPT !.nxt = n]
      <3>1. c \in ExpressLocals /\ c.cur \in 1 .. 4 /\ c.cur \in 0 .. 4 /\ c.nxt \in 1 .. 4
        BY <2>2 DEF Locals, ExpressLocals
      <3>2. c1 \in ExpressLocals /\ c1.prv = c.cur
        BY <3>1 DEF ExpressLocals
      <3>3. c2 \in ExpressLocals /\ c2.prv = c.cur /\ c2.cur = c.nxt
        BY <3>1, <3>2 DEF ExpressLocals
      <3>4. c3 \in ExpressLocals /\ c3.prv = c.cur /\ c3.cur = c.nxt /\ c3.nxt = n
        BY <1>1, <2>2, <3>3 DEF ExpressLocals
      <3>5. d = [c3 EXCEPT !.dst = i]
        BY <1>2
      <3> HIDE DEF c3
      <3> QED BY <1>1, <2>2, <3>4, <3>5 DEF Locals, ExpressLocals
    <2> QED BY <2>1, <2>2 DEF Train
  <1>4. ASSUME NEW l \in Legs(t), OnLeg(t, c, l) PROVE OnLeg(t, d, NextIndx(t, l))
    BY <1>3, <1>4 DEF OnLeg, n, i
  <1> QED BY <1>3, <1>4 DEF d

(* The commands to the Atmel. *)
LEMMA Commands ==
    ASSUME NEW w \in Told
    PROVE  /\ \A t \in Train, x \in Int :
                /\ TR_CTRL(w, t, x) \in Told /\ TR_CTRL(w, t, x).sw = w.sw
                /\ TR_CTRL(w, t, x).speed[t] = x
                /\ \A s \in Train \ {t} : TR_CTRL(w, t, x).speed[s] = w.speed[s]
           /\ \A n \in 0 .. 6, x \in {"STRAIGHT", "TURNED"} :
                /\ switch_track(w, n, x) \in Told
                /\ switch_track(w, n, x).speed = w.speed
                /\ n # 0 => switch_track(w, n, x).sw[n] = x
                /\ n = 0 => switch_track(w, n, x) = w
  <1>1. /\ w.speed \in [Train -> Int] /\ w.sw \in [1 .. 6 -> {"STRAIGHT", "TURNED"}]
        /\ w = [speed |-> w.speed, sw |-> w.sw]
    BY DEF Told
  <1>2. ASSUME NEW t \in Train, NEW x \in Int
        PROVE  /\ TR_CTRL(w, t, x) = [speed |-> [w.speed EXCEPT ![t] = x], sw |-> w.sw]
               /\ [w.speed EXCEPT ![t] = x] \in [Train -> Int]
    BY <1>1 DEF TR_CTRL
  <1>3. ASSUME NEW t \in Train, NEW x \in Int
        PROVE  /\ TR_CTRL(w, t, x) \in Told /\ TR_CTRL(w, t, x).sw = w.sw
               /\ TR_CTRL(w, t, x).speed[t] = x
               /\ \A s \in Train \ {t} : TR_CTRL(w, t, x).speed[s] = w.speed[s]
    BY <1>1, <1>2 DEF Told
  <1>4. ASSUME NEW n \in 1 .. 6, NEW x \in {"STRAIGHT", "TURNED"}
        PROVE  /\ switch_track(w, n, x) = [speed |-> w.speed, sw |-> [w.sw EXCEPT ![n] = x]]
               /\ [w.sw EXCEPT ![n] = x] \in [1 .. 6 -> {"STRAIGHT", "TURNED"}]
    BY <1>1 DEF switch_track
  <1>5. ASSUME NEW n \in 1 .. 6, NEW x \in {"STRAIGHT", "TURNED"}
        PROVE  /\ switch_track(w, n, x) \in Told
               /\ switch_track(w, n, x).speed = w.speed
               /\ switch_track(w, n, x).sw[n] = x
    BY <1>1, <1>4 DEF Told
  <1>6. \A x : switch_track(w, 0, x) = w
    BY DEF switch_track
  <1>7. \A n \in 0 .. 6 : n = 0 \/ n \in 1 .. 6
    OBVIOUS
  <1> QED BY <1>3, <1>5, <1>6, <1>7

(* express_controller keeps Inv. It is given the sensor it is one behind of,  *)
(* or waits and is released; or it has slipped, and still turns no switch.    *)
LEMMA ExpressStep ==
    ASSUME NEW S \in Followed, Inv(S), express_controller
    PROVE  Inv(S)'
  <1> DEFINE t == "express"
             c == ctl["express"]
             x == pos["express"]
             m == Head(mail["express"])
  <1>1. Typed /\ Rest /\ t \in Train /\ Receives(t) /\ S \subseteq Train /\ (t \in S => Phase(t))
    BY TwoTrains DEF Inv, Train, express_controller
  <1>2. /\ c \in Locals(t) /\ told \in Told /\ c.waiting \in BOOLEAN
        /\ x.leg \in Legs(t) /\ x.passed \in 0 .. 2 /\ c.hs \in Nat
        /\ c.cur \in 0 .. 12 /\ c.nxt \in 0 .. 12
    BY <1>1, Ranges DEF Typed, Told
  <1>3. \A d \in Locals(t) : /\ d.cur \in 0 .. 12 /\ paths[d.cur].state \in Int
                             /\ paths[d.cur].sw_num = 0 /\ paths[d.prv].sw_num = 0
    <2>1. ASSUME NEW d \in Locals(t)
          PROVE  d.cur \in 0 .. 12 /\ d.cur \in 0 .. 4 /\ d.prv \in 0 .. 12 /\ d.prv \in 0 .. 4
      BY DEF Locals, ExpressLocals
    <2> QED BY <2>1, Tables
  <1>4. switch_track(told, Cur(t).sw_num, "TURNED") = told /\ SPEED3 \in Int
    BY <1>2, <1>3 DEF Cur, switch_track, SPEED3
  <1>5. \/ /\ c.waiting /\ m.m # "FULL_PATH"
           /\ Controls(t, [c EXCEPT !.hs = @ + 1], << >>, told)
        \/ /\ c.waiting
           /\ ExpressRest(c, <<FULL_PATH(t, c.nxt)>>, TR_CTRL(told, t, Cur(t).state))
        \/ /\ ~c.waiting /\ c.hs = 0
           /\ \/ Controls(t, Waits(c), <<COLLISION(t)>>, TR_CTRL(told, t, SPEED3))
              \/ ExpressRest(c, <<FULL_PATH(t, c.nxt)>>, told)
        \/ ~c.waiting /\ c.hs # 0 /\ ExpressRest(c, << >>, told)
    BY <1>4 DEF express_controller, START_OF_PATH, Waits
  <1> DEFINE Harmless(w) == /\ w \in Told /\ w.sw = told.sw
                            /\ w.speed["local"] = told.speed["local"]
  <1>6. ASSUME NEW w, Harmless(w), NEW z \in Int PROVE Harmless(TR_CTRL(w, t, z))
    <2>1. "local" \in Train \ {t} /\ t \in Train
      BY DEF Train
    <2> HIDE DEF t
    <2>2. /\ TR_CTRL(w, t, z) \in Told /\ TR_CTRL(w, t, z).sw = w.sw
          /\ \A s \in Train \ {t} : TR_CTRL(w, t, z).speed[s] = w.speed[s]
      BY <1>6, <2>1, Commands
    <2> QED BY <1>6, <2>1, <2>2
  <1>7. /\ Harmless(told) /\ Harmless(TR_CTRL(told, t, SPEED3))
        /\ \A d \in Locals(t) : Harmless(TR_CTRL(told, t, paths[d.cur].state))
    BY <1>2, <1>3, <1>4, <1>6
  <1>8. ASSUME NEW d \in Locals(t), NEW sends \in Seq(Own(t)), NEW w, Harmless(w),
               Controls(t, d, sends, w), t \in S => Phase(t)'
        PROVE  Inv(S)'
    <2>1. /\ Typed' /\ (Other(t) \in S => Phase(Other(t))' /\ Held(Other(t))')
          /\ t \in S => Held(t)'
          /\ ctl'[t] = d /\ ctl'[Other(t)] = ctl[Other(t)] /\ told' = w
      BY <1>1, <1>8, Turns
    <2>2. Other(t) = "local"
      BY DEF Other
    <2>3. Rest'
      BY <1>1, <1>8, <2>1, <2>2 DEF Rest, Braked, Turned
    <2> QED BY <1>1, <1>8, <2>1, <2>2, <2>3 DEF Inv, Train
  <1>9. ASSUME NEW d \in Locals(t), NEW h \in Nat, NEW sends \in Seq(Own(t)),
               NEW w, Harmless(w), Expect(t, d, h, sends, w), t \in S => Phase(t)'
        PROVE  Inv(S)'
    <2> DEFINE y == NEW_TR_HS(t, paths[d.cur].hs[h + 1])
    <2>1. GoesOn(d, h) \in Locals(t) /\ y \in Own(t)
      BY <1>1, Updates, Says
    <2>2. Controls(t, GoesOn(d, h), Append(sends, y), w)
      BY <1>9 DEF Expect, GoesOn
    <2> HIDE DEF y
    <2>3. Append(sends, y) \in Seq(Own(t))
      BY <2>1
    <2> QED BY <1>8, <1>9, <2>1, <2>2, <2>3
  <1> HIDE DEF Harmless
  <1>10. <<FULL_PATH(t, c.nxt)>> \in Seq(Own(t)) /\ <<COLLISION(t)>> \in Seq(Own(t))
         /\ << >> \in Seq(Own(t))
    <2>1. FULL_PATH(t, c.nxt) \in Own(t) /\ COLLISION(t) \in Own(t)
      BY <1>1, <1>2, Says
    <2> QED BY <2>1
  <1>11. LET d == Advance(t, c)
         IN  /\ d \in Locals(t) /\ d.cur = c.nxt
             /\ \A w : EndOfPath(t, d, w) = TR_CTRL(w, t, paths[d.cur].state)
             /\ \A l \in Legs(t) : OnLeg(t, c, l) => OnLeg(t, d, NextIndx(t, l))
    <2> DEFINE d == Advance(t, c)
    <2>1. /\ d \in Locals(t) /\ d.cur = c.nxt
          /\ \A l \in Legs(t) : OnLeg(t, c, l) => OnLeg(t, d, NextIndx(t, l))
      BY <1>1, <1>2, Advances
    <2>2. paths[d.prv].sw_num = 0
      BY <1>3, <2>1
    <2>3. \A w : EndOfPath(t, d, w) = TR_CTRL(w, t, paths[d.cur].state)
      BY <2>2 DEF EndOfPath, switch_track
    <2> QED BY <2>1, <2>3
  <1>12. CASE t \notin S
    (* What it does at the end of its loop, whatever it has counted. *)
    <2>1. ASSUME NEW sends \in Seq(Own(t)), NEW w, Harmless(w), ExpressRest(c, sends, w)
          PROVE  Inv(S)'
      <3> DEFINE d == Advance(t, c)
      <3>1. CASE c.hs = END_OF_PATH
        <4>1. Expect(t, d, 0, sends, TR_CTRL(w, t, paths[d.cur].state)) /\ d \in Locals(t)
          BY <1>11, <2>1, <3>1 DEF ExpressRest
        <4> HIDE DEF d
        <4>2. Harmless(TR_CTRL(w, t, paths[d.cur].state))
          BY <1>3, <1>6, <2>1, <4>1
        <4> QED BY <1>9, <1>12, <2>1, <4>1, <4>2
      <3>2. CASE c.hs # END_OF_PATH
        <4>1. Expect(t, c, c.hs + 1, sends, w) /\ c.hs + 1 \in Nat
          BY <1>2, <2>1, <3>2 DEF ExpressRest
        <4> QED BY <1>2, <1>9, <1>12, <2>1, <4>1
      <3> QED BY <3>1, <3>2
    <2>2. [c EXCEPT !.hs = @ + 1] \in Locals(t)
      BY <1>2 DEF Locals, ExpressLocals
    <2>3. Waits(c) \in Locals(t)
      BY <1>1, <1>2, Updates
    <2>4. Harmless(TR_CTRL(told, t, Cur(t).state))
      BY <1>2, <1>7 DEF Cur
    <2> QED BY <1>5, <1>7, <1>8, <1>10, <1>12, <2>1, <2>2, <2>3, <2>4
  <1>13. CASE t \in S
    <2>1. (Reported(t) \/ Released(t)) /\ c.hs \in 0 .. 2
      BY <1>1, <1>13, Where, Ranges DEF Receives
    <2>2. Known(t)
      BY <2>1 DEF Reported, Released
    (* The way on from the start of the path.                                 *)
    <2>3. ASSUME NEW w, Harmless(w), c.hs = 0, ExpressRest(c, <<FULL_PATH(t, c.nxt)>>, w),
                 OnLeg(t, c, x.leg), x.passed = 1
          PROVE  Inv(S)'
      <3>1. Expect(t, c, 1, <<FULL_PATH(t, c.nxt)>>, w) /\ w \in Told
        BY <2>3 DEF ExpressRest, END_OF_PATH, Harmless
      <3>2. Later(t, c) => con.nxt[t] = c.cur
        BY <2>2, <2>3 DEF Known
      <3>3. Enters(t)'
        BY <1>1, <1>2, <1>13, <2>3, <3>1, <3>2, Entering
      <3> QED BY <1>2, <1>9, <1>10, <2>3, <3>1, <3>3 DEF Phase
    <2>4. CASE Released(t)
      <3>1. /\ c.waiting /\ c.hs = 0 /\ OnLeg(t, c, x.leg) /\ x.passed = 1
            /\ m.m = "FULL_PATH"
        BY <2>4 DEF Released, Caught, FULL_PATH
      <3>2. ExpressRest(c, <<FULL_PATH(t, c.nxt)>>, TR_CTRL(told, t, Cur(t).state))
        BY <1>5, <3>1
      <3>3. Harmless(TR_CTRL(told, t, Cur(t).state))
        BY <1>2, <1>7 DEF Cur
      <3> QED BY <2>3, <3>1, <3>2, <3>3
    <2>5. CASE Reported(t)
      <3>1. ~c.waiting /\ Behind(t)
        BY <2>5 DEF Reported, Behind
      <3>2. CASE c.hs = 0
        <4>1. OnLeg(t, c, x.leg) /\ x.passed = 1
          BY <1>2, <3>1, <3>2 DEF Behind
        <4>2. CASE ExpressRest(c, <<FULL_PATH(t, c.nxt)>>, told)
          BY <1>7, <2>3, <3>2, <4>1, <4>2
        <4>3. CASE Controls(t, Waits(c), <<COLLISION(t)>>, TR_CTRL(told, t, SPEED3))
          <5> DEFINE w == TR_CTRL(told, t, SPEED3)
          <5>1. Harmless(w) /\ w \in Told
            BY <1>7 DEF Harmless
          <5>2. Controls(t, Waits(c), <<COLLISION(t)>>, w)
            BY <4>3
          <5> HIDE DEF w
          <5>3. Later(t, c) => con.nxt[t] = c.cur
            BY <2>2, <3>2 DEF Known
          <5>4. Stops(t)'
            BY <1>1, <1>2, <1>13, <3>2, <4>1, <5>1, <5>2, <5>3, Stopping
          <5>5. Waits(c) \in Locals(t)
            BY <1>1, <1>2, Updates
          <5> QED BY <1>8, <1>10, <5>1, <5>2, <5>4, <5>5 DEF Phase
        <4> QED BY <1>5, <3>1, <3>2, <4>2, <4>3
      <3>3. CASE c.hs = 1
        <4>1. OnLeg(t, c, x.leg) /\ x.passed = 2
          BY <1>2, <3>1, <3>3 DEF Behind
        <4>2. Expect(t, c, 2, << >>, told)
          BY <1>5, <3>1, <3>3 DEF ExpressRest, END_OF_PATH
        <4>3. con.nxt[t] = c.nxt /\ (Later(t, c) => con.cur[t] = c.cur)
          BY <2>2, <3>3 DEF Known
        <4>4. Asks(t)'
          BY <1>1, <1>2, <1>13, <4>1, <4>2, <4>3, Asking
        <4> QED BY <1>2, <1>7, <1>9, <1>10, <4>2, <4>4 DEF Phase
      <3>4. CASE c.hs = 2
        <4> DEFINE d == Advance(t, c)
                   w == TR_CTRL(told, t, paths[d.cur].state)
        <4>1. PICK l \in Legs(t) : OnLeg(t, c, l) /\ x.leg = Onward(t, l) /\ x.passed = 0
          BY <1>2, <3>1, <3>4 DEF Behind
        <4>2. d \in Locals(t) /\ d.cur = c.nxt /\ OnLeg(t, d, NextIndx(t, l))
          BY <1>11, <4>1
        <4>3. x.leg = NextIndx(t, l)
          <5>1. NextIndx(t, l) \in Legs(t) /\ Leg(t, NextIndx(t, l)) \in 1 .. 4
            BY <1>1, Routes
          <5>2. Leg(t, NextIndx(t, l)) # 0
            BY <5>1
          <5> QED BY <4>1, <5>2 DEF Onward
        <4>4. Expect(t, d, 0, << >>, w)
          BY <1>5, <1>11, <3>1, <3>4 DEF ExpressRest, END_OF_PATH
        <4>5. Harmless(w) /\ w \in Told
          BY <1>7, <4>2 DEF Harmless
        <4> HIDE DEF d, w
        <4>6. con.nxt[t] = d.cur
          BY <2>2, <3>4, <4>2 DEF Known
        <4>7. Asks(t)'
          BY <1>1, <1>13, <4>1, <4>2, <4>3, <4>4, <4>5, <4>6, Asking
        <4> QED BY <1>9, <1>10, <4>2, <4>4, <4>5, <4>7 DEF Phase
      <3> QED BY <2>1, <3>2, <3>3, <3>4
    <2> QED BY <2>1, <2>4, <2>5
  <1> QED BY <1>12, <1>13

(* local_controller keeps Inv. At the end of a path it may go over a dwell,   *)
(* to the start of the path after it.                                         *)
LEMMA LocalStep ==
    ASSUME NEW S \in Followed, Inv(S), local_controller
    PROVE  Inv(S)'
  <1> DEFINE t == "local"
             c == ctl["local"]
             x == pos["local"]
             m == Head(mail["local"])
             released == [c EXCEPT !.exp_cur = c.exp_nxt, !.exp_nxt = m.arg]
             reported == [c EXCEPT !.exp_cur = m.cur, !.exp_nxt = m.nxt]
  <1>1. Typed /\ Rest /\ t \in Train /\ t \in S /\ Phase(t) /\ Receives(t) /\ S \subseteq Train
    BY TwoTrains DEF Inv, Train, local_controller
  <1>2. /\ c \in Locals(t) /\ c \in LocalLocals /\ told \in Told /\ c.waiting \in BOOLEAN
        /\ x.leg \in Legs(t) /\ x.passed \in 0 .. 2 /\ c.hs \in 0 .. 2
        /\ c.cur \in 0 .. 12 /\ c.nxt \in 0 .. 12 /\ c.prv \in 0 .. 12
    BY <1>1, Ranges DEF Typed, Locals, Told
  <1>3. Reported(t) \/ Released(t)
    BY <1>1, Where DEF Receives
  <1>4. Known(t)
    BY <1>3 DEF Reported, Released
  <1>5. \A p \in 0 .. 12 : paths[p].state \in Int /\ paths[p].sw_num \in 0 .. 6
    BY Tables
  <1>6. /\ BRAKE \in Int /\ DIR_CCW + SPEED7 \in Int
    BY DEF BRAKE, DIR_CCW, SPEED7
  <1>7. \/ c.waiting /\ LocalStart(released)
        \/ ~c.waiting /\ c.hs = 0 /\ LocalStart(reported)
        \/ ~c.waiting /\ c.hs = 2 /\ LocalEnd(reported)
        \/ ~c.waiting /\ c.hs = 1 /\ Expect(t, reported, 2, << >>, told)
    BY DEF local_controller, START_OF_PATH, END_OF_PATH
  <1>8. ASSUME NEW d \in Locals(t), NEW sends \in Seq(Own(t)), NEW w \in Told,
               Controls(t, d, sends, w),
               d.waiting => w.speed[t] = BRAKE,
               d.hs # 0 /\ paths[d.cur].sw_num # 0 => w.sw[paths[d.cur].sw_num] = "TURNED",
               Phase(t)'
        PROVE  Inv(S)'
    <2>1. /\ Typed' /\ (Other(t) \in S => Phase(Other(t))' /\ Held(Other(t))') /\ Held(t)'
          /\ ctl'[t] = d /\ ctl'[Other(t)] = ctl[Other(t)] /\ told' = w
      BY <1>1, <1>8, Turns
    <2>2. Other(t) = "express"
      BY DEF Other
    <2>3. Rest'
      BY <1>1, <1>8, <2>1, <2>2 DEF Rest, Braked, Turned
    <2> QED BY <1>1, <1>8, <2>1, <2>2, <2>3 DEF Inv, Train
  <1>9. ASSUME NEW d \in Locals(t), NEW h \in 0 .. 2, NEW sends \in Seq(Own(t)), NEW w \in Told,
               Expect(t, d, h, sends, w),
               h # 0 /\ paths[d.cur].sw_num # 0 => w.sw[paths[d.cur].sw_num] = "TURNED",
               Phase(t)'
        PROVE  Inv(S)'
    <2> DEFINE y == NEW_TR_HS(t, paths[d.cur].hs[h + 1])
    <2>1. /\ GoesOn(d, h) \in Locals(t) /\ GoesOn(d, h).hs = h /\ ~GoesOn(d, h).waiting
          /\ GoesOn(d, h).cur = d.cur /\ y \in Own(t)
      <3>1. h \in Nat
        BY <1>9
      <3> QED BY <1>1, <1>9, <3>1, Updates, Says
    <2>2. Controls(t, GoesOn(d, h), Append(sends, y), w)
      BY <1>9 DEF Expect, GoesOn
    <2> HIDE DEF y
    <2>3. Append(sends, y) \in Seq(Own(t))
      BY <2>1
    <2> QED BY <1>8, <1>9, <2>1, <2>2, <2>3
  (* The train has passed the start of its path.                              *)
  <1>10. ASSUME NEW d \in Locals(t), d.hs = 0, LocalStart(d),
                d.cur = c.cur, d.nxt = c.nxt, d.prv = c.prv, c.hs = 0,
                OnLeg(t, d, x.leg), x.passed = 1
         PROVE  Inv(S)'
    <2>1. Later(t, d) => con.nxt[t] = d.cur
      BY <1>4, <1>10 DEF Known, Later
    <2>4. <<COLLISION(t)>> \in Seq(Own(t)) /\ <<FULL_PATH(t, d.nxt)>> \in Seq(Own(t))
      <3>1. COLLISION(t) \in Own(t) /\ FULL_PATH(t, d.nxt) \in Own(t)
        BY <1>1, <1>10, Says
      <3> QED BY <3>1
    <2>2. CASE LocalStops(d)
      <3> DEFINE v == TR_CTRL(told, "local", DIR_CCW + SPEED7)
                 w == TR_CTRL(v, "local", BRAKE)
      <3>1. w \in Told /\ w.speed[t] = BRAKE
        <4> DEFINE fast == DIR_CCW + SPEED7
        <4>1. fast \in Int
          BY <1>6
        <4>2. v = TR_CTRL(told, t, fast)
          OBVIOUS
        <4> HIDE DEF fast, v
        <4>3. v \in Told
          BY <1>1, <1>2, <4>1, <4>2, Commands
        <4>4. BRAKE \in Int
          BY <1>6
        <4>5. TR_CTRL(v, t, BRAKE) \in Told /\ TR_CTRL(v, t, BRAKE).speed[t] = BRAKE
          <5>1. t \in Train
            BY <1>1
          <5> HIDE DEF t
          <5> QED BY <4>3, <4>4, <5>1, Commands
        <4> QED BY <4>5
      <3>2. Controls(t, Waits(d), <<COLLISION(t)>>, w)
        BY <2>2 DEF LocalStops, Waits
      <3> HIDE DEF w, v
      <3>3. Waits(d) \in Locals(t) /\ Waits(d).hs = 0
        BY <1>1, <1>10, Updates
      <3>4. Stops(t)'
        BY <1>1, <1>10, <2>1, <3>1, <3>2, Stopping
      <3> QED BY <1>8, <2>4, <3>1, <3>2, <3>3, <3>4 DEF Phase
    <2>3. CASE ~LocalStops(d)
      <3> DEFINE v == TR_CTRL(told, "local", paths[d.cur].state)
                 w == switch_track(v, paths[d.cur].sw_num, "TURNED")
      <3>1. v \in Told
        BY <1>1, <1>2, <1>5, <1>10, Commands
      <3>2. /\ w \in Told
            /\ paths[d.cur].sw_num # 0 => w.sw[paths[d.cur].sw_num] = "TURNED"
        <4> HIDE DEF v
        <4> QED BY <1>2, <1>5, <1>10, <3>1, Commands
      <3>3. Expect(t, d, 1, <<FULL_PATH(t, d.nxt)>>, w)
        BY <1>10, <2>3 DEF LocalStart
      <3> HIDE DEF w, v
      <3>4. Enters(t)'
        BY <1>1, <1>10, <2>1, <3>2, <3>3, Entering
      <3> DEFINE z == <<FULL_PATH(t, d.nxt)>>
      <3>5. z \in Seq(Own(t)) /\ Expect(t, d, 1, z, w) /\ Phase(t)' /\ 1 \in 0 .. 2
        BY <2>4, <3>3, <3>4 DEF Phase
      <3> HIDE DEF z
      <3> QED BY <1>9, <1>10, <3>2, <3>5
    <2> QED BY <2>2, <2>3
  <1>11. CASE Released(t)
    <2>1. /\ c.waiting /\ c.hs = 0 /\ OnLeg(t, c, x.leg) /\ x.passed = 1
          /\ m.arg \in 0 .. 12
      BY <1>11 DEF Released, Caught, FULL_PATH
    <2>2. /\ released \in LocalLocals /\ released.hs = 0 /\ released.cur = c.cur
          /\ released.nxt = c.nxt /\ released.prv = c.prv /\ released.dst = c.dst
      BY <1>2, <2>1 DEF LocalLocals
    <2>3. LocalStart(released)
      BY <1>7, <2>1
    <2> HIDE DEF released
    <2>4. OnLeg(t, released, x.leg) /\ released \in Locals(t)
      BY <2>1, <2>2 DEF OnLeg, Locals
    <2> QED BY <1>10, <2>1, <2>2, <2>3, <2>4
  <1>12. CASE Reported(t)
    <2>1. ~c.waiting /\ Behind(t) /\ m.cur \in 0 .. 12 /\ m.nxt \in 0 .. 12
      BY <1>12 DEF Reported, Behind, Reports
    <2>2. /\ reported \in LocalLocals /\ reported.hs = c.hs /\ reported.cur = c.cur
          /\ reported.nxt = c.nxt /\ reported.prv = c.prv /\ reported.dst = c.dst
      BY <1>2, <2>1 DEF LocalLocals
    <2>3. reported \in Locals(t) /\ \A l : OnLeg(t, c, l) => OnLeg(t, reported, l)
      BY <2>2 DEF OnLeg, Locals
    <2>4. CASE c.hs = 0
      <3>1. OnLeg(t, c, x.leg) /\ x.passed = 1
        BY <1>2, <2>1, <2>4 DEF Behind
      <3>2. LocalStart(reported)
        BY <1>7, <2>1, <2>4
      <3> HIDE DEF reported
      <3> QED BY <1>10, <2>2, <2>3, <2>4, <3>1, <3>2
    <2>5. CASE c.hs = 1
      <3>1. OnLeg(t, c, x.leg) /\ x.passed = 2
        BY <1>2, <2>1, <2>5 DEF Behind
      <3>2. Expect(t, reported, 2, << >>, told)
        BY <1>7, <2>1, <2>5
      <3>3. con.nxt[t] = c.nxt /\ (Later(t, reported) => con.cur[t] = c.cur)
        BY <1>4, <2>2, <2>5 DEF Known, Later
      <3>4. paths[c.cur].sw_num # 0 => told.sw[paths[c.cur].sw_num] = "TURNED"
        BY <1>1, <2>5 DEF Rest, Turned
      <3> HIDE DEF reported
      <3>5. Asks(t)'
        BY <1>1, <1>2, <2>2, <2>3, <3>1, <3>2, <3>3, Asking
      <3> DEFINE z == << >>
      <3>6. z \in Seq(Own(t)) /\ Expect(t, reported, 2, z, told) /\ Phase(t)' /\ 2 \in 0 .. 2
        BY <3>2, <3>5 DEF Phase
      <3> HIDE DEF z
      <3> QED BY <1>2, <1>9, <2>2, <2>3, <3>4, <3>6
    <2>6. CASE c.hs = 2
      <3> DEFINE d == Advance(t, reported)
                 e == Advance(t, d)
                 w == EndOfPath(t, d, told)
      <3>1. PICK l \in Legs(t) : OnLeg(t, c, l) /\ x.leg = Onward(t, l) /\ x.passed = 0
        BY <1>2, <2>1, <2>6 DEF Behind
      <3> DEFINE n == NextIndx(t, l)
      <3>2. LocalEnd(reported)
        BY <1>7, <2>1, <2>6
      <3>3. con.nxt[t] = c.nxt
        BY <1>4, <2>6 DEF Known
      <3> HIDE DEF reported
      <3>4. /\ d \in Locals(t) /\ OnLeg(t, d, n) /\ d.prv = c.cur /\ d.cur = c.nxt
        BY <1>1, <2>2, <2>3, <3>1, Advances
      <3>5. n \in Legs(t) /\ d.cur = Leg(t, n) /\ d.nxt = Leg(t, NextIndx(t, n))
            /\ NextIndx(t, n) \in Legs(t)
        BY <1>1, <3>4, Routes DEF OnLeg
      <3>6. w \in Told
        <4> DEFINE v == TR_CTRL(told, t, paths[d.cur].state)
        <4>1. v \in Told
          BY <1>1, <1>2, <1>5, <3>4, Commands
        <4>2. w = switch_track(v, paths[d.prv].sw_num, "STRAIGHT")
          BY DEF EndOfPath
        <4> HIDE DEF v, w, d
        <4> QED BY <1>2, <1>5, <3>4, <4>1, <4>2, Commands
      <3>7. CASE d.cur # 0
        <4>1. Expect(t, d, 0, << >>, w)
          BY <3>2, <3>7 DEF LocalEnd
        <4>2. x.leg = n
          BY <3>1, <3>5, <3>7 DEF Onward
        <4> HIDE DEF d, w, n
        <4>3. Asks(t)'
          BY <1>1, <3>1, <3>3, <3>4, <3>6, <4>1, <4>2, Asking
        <4> DEFINE s == << >>
        <4>4. s \in Seq(Own(t)) /\ Expect(t, d, 0, s, w) /\ Phase(t)' /\ 0 \in 0 .. 2
          BY <4>1, <4>3 DEF Phase
        <4> HIDE DEF s
        <4> QED BY <1>9, <3>4, <3>6, <4>4
      <3>8. CASE d.cur = 0
        <4> DEFINE z == TR_CTRL(w, t, paths[e.cur].state)
        <4>1. Expect(t, e, 0, <<FULL_PATH(t, e.cur)>>, z)
          BY <3>2, <3>8 DEF LocalEnd
        <4>2. x.leg = NextIndx(t, n)
          BY <3>1, <3>5, <3>8 DEF Onward
        <4> HIDE DEF d, w, n
        <4>3. e \in Locals(t) /\ OnLeg(t, e, NextIndx(t, n)) /\ e.cur = d.nxt
          BY <1>1, <3>4, <3>5, Advances
        <4>4. d.nxt \in 0 .. 12
          BY <1>1, <3>5, Routes
        <4>5. z \in Told
          BY <1>1, <1>5, <3>6, <4>3, <4>4, Commands
        <4> HIDE DEF e, z
        <4>6. Enters(t)'
          BY <1>1, <3>1, <4>1, <4>2, <4>3, <4>5, Entering
        <4> DEFINE s == <<FULL_PATH(t, e.cur)>>
        <4>7. s \in Seq(Own(t)) /\ Expect(t, e, 0, s, z) /\ Phase(t)' /\ 0 \in 0 .. 2
          <5>1. FULL_PATH(t, e.cur) \in Own(t)
            BY <1>1, <4>3, Says
          <5> QED BY <4>1, <4>6, <5>1 DEF Phase
        <4> HIDE DEF s
        <4> QED BY <1>9, <4>3, <4>5, <4>7
      <3> QED BY <3>7, <3>8
    <2> QED BY <1>2, <2>4, <2>5, <2>6
  <1> QED BY <1>3, <1>11, <1>12

-----------------------------------------------------------------------------
(* The invariant holds at the start, *)
LEMMA InitInv ==
    ASSUME NEW S \in Followed, Init
    PROVE  Inv(S)
  <1>1. /\ Leg("express", 3) = 2 /\ Leg("express", 0) = 3
        /\ NextIndx("express", 3) = 0 /\ NextIndx("express", 0) = 1
        /\ Legs("express") = 0 .. 3
    BY DEF Leg, NextIndx, Legs, route
  <1>2. /\ Leg("local", 4) = 3 /\ Leg("local", 5) = 7
        /\ NextIndx("local", 4) = 5 /\ NextIndx("local", 5) = 6
        /\ Legs("local") = 0 .. 13
    BY DEF Leg, NextIndx, Legs, route
  <1>3. /\ ctl["express"] = [cur |-> 2, nxt |-> 3, prv |-> 0, dst |-> 1, hs |-> 0,
                             waiting |-> FALSE]
        /\ ctl["local"] = [cur |-> 3, nxt |-> 7, prv |-> 0, dst |-> 6, hs |-> 0,
                           waiting |-> FALSE, exp_cur |-> 0, exp_nxt |-> 0]
        /\ DOMAIN ctl = Train
    BY <1>1, <1>2 DEF Init, Train
  <1>4. /\ ctl["express"] \in ExpressLocals /\ ctl["local"] \in LocalLocals
        /\ ctl \in [Train -> ExpressLocals \cup LocalLocals]
    <2>1. ctl["express"] \in ExpressLocals /\ ctl["local"] \in LocalLocals
      BY <1>1, <1>2, <1>3 DEF ExpressLocals, LocalLocals
    <2>2. ctl = [t \in Train |-> ctl[t]]
      BY DEF Init
    <2> QED BY <2>1, <2>2 DEF Train
  <1>5. /\ Len(atmel) = 0 /\ Len(Queue) = 0
        /\ \A t \in Train : todo[t] = << >> /\ mail[t] = << >>
        /\ DOMAIN todo = Train /\ DOMAIN mail = Socket
        /\ Queue \in Seq(Message) /\ atmel \in Seq([train : Train, hs : 0 .. 24])
        /\ \A t \in Train : todo[t] \in Seq(Own(t))
    BY DEF Init, Queue, Socket, Train
  <1>6. \A t \in Train : Handled(t)
    BY <1>5 DEF Handled, About, Queue
  <1>7. /\ paths[2].hs[1] = 14 /\ paths[3].hs[1] = 8 /\ paths[2].sw_num = 0
        /\ paths[0].sw_num = 0
    <2>1. /\ paths[2] = Path(<<14, 10, 11>>, 0, 5, {1})
          /\ paths[3] = Path(<<8, 8, 7>>, 0, 5, {})
      BY DEF paths
    <2>2. 0 \in 0 .. 12 /\ 0 \in 0 .. 4 /\ 2 \in 0 .. 12 /\ 2 \in 0 .. 4
      OBVIOUS
    <2>3. paths[2].sw_num = 0 /\ paths[0].sw_num = 0
      BY <2>2, Tables
    <2> QED BY <2>1, <2>3 DEF Path
  <1>8. told \in [speed : [Train -> Int], sw : [1 .. 6 -> {"STRAIGHT", "TURNED"}]]
    <2>1. \A t \in Train : paths[ctl[t].cur].state \in Int
      <3>1. paths[2].state \in Int /\ paths[3].state \in Int
        <4>1. 2 \in 0 .. 12 /\ 3 \in 0 .. 12
          OBVIOUS
        <4> QED BY <4>1, Tables
      <3>2. ctl["express"].cur = 2 /\ ctl["local"].cur = 3
        BY <1>3
      <3> QED BY <3>1, <3>2 DEF Train
    <2>2. told = [speed |-> [t \in Train |-> paths[ctl[t].cur].state],
                  sw |-> [n \in 1 .. 6 |-> "STRAIGHT"]]
      BY DEF Init
    <2> QED BY <2>1, <2>2
  <1>9. /\ DOMAIN pos = Train
        /\ pos["express"] = [leg |-> 3, passed |-> 0, left |-> {}]
        /\ pos["local"] = [leg |-> 4, passed |-> 0, left |-> {}]
    BY DEF Init, Train
  <1>10. /\ con \in Conductor /\ con.blocked = "NO_TRAIN"
         /\ con.hs["express"] = 14 /\ con.hs["local"] = 8
    BY DEF Init, Train, Conductor, Numbers
  <1>11. Typed
    BY <1>1, <1>2, <1>4, <1>5, <1>8, <1>9, <1>10 DEF Typed, Train
  <1>12. Rest
    BY <1>3, <1>7 DEF Rest, Braked, Turned
  <1>13. \A t \in Train : Caught(t) /\ Known(t)
    BY <1>1, <1>2, <1>3, <1>9 DEF Caught, Known, Later, OnLeg, Train
  <1>14. \A t \in Train : con.hs[t] = Expected(t)
    BY <1>3, <1>7, <1>10 DEF Expected, Train
  <1>15. \A t \in Train : Phase(t) /\ Held(t)
    BY <1>6, <1>10, <1>13, <1>14 DEF Phase, Idle, Held, Train
  <1> QED BY <1>11, <1>12, <1>15, TwoTrains DEF Inv

(* and every step after which Attributed holds keeps it, as long as no train  *)
(* it is about slips.                                                         *)
LEMMA NextInv ==
    ASSUME NEW S \in Followed, Inv(S), Attributed', [Next]_vars,
           "express" \in S => [~Slips]_vars
    PROVE  Inv(S)'
  <1>1. CASE UNCHANGED vars
    <2>1. /\ ctl' = ctl /\ con' = con /\ todo' = todo /\ mail' = mail /\ told' = told
          /\ atmel' = atmel /\ pos' = pos
      BY <1>1 DEF vars
    <2>2. Typed' /\ Rest'
      BY <2>1 DEF Inv, Rest, Typed, Braked, Turned, Queue
    <2>3. ASSUME NEW t \in S PROVE Phase(t)' /\ Held(t)'
      <3>1. Steady(t)
        BY <2>1 DEF Steady, Aside, Queue
      <3> QED BY <2>1, <3>1, TwoTrains, Frame DEF Inv, Held
    <2> QED BY <2>2, <2>3 DEF Inv
  <1>2. CASE Next /\ ("express" \in S => ~Slips)
    BY <1>2, ExpressStep, LocalStep, ConductorStep, HalStep, SendStep, PassStep DEF Next
  <1> QED BY <1>1, <1>2

(* What it implies of a train it is about, and of the switches; *)
LEMMA InvImplies ==
    ASSUME NEW S \in Followed, Inv(S)
    PROVE  /\ \A t \in S : InStep(t) /\ (~OnFirstPath(t) => Knows(t))
           /\ SwitchesSet
  <1>1. Typed /\ Turned /\ S \subseteq Train /\ "local" \in S /\ \A t \in S : Phase(t)
    BY TwoTrains DEF Inv, Rest
  <1>2. \A t \in S : Caught(t) \/ Behind(t)
    BY <1>1 DEF Phase, Idle, Passed, Reported, Asks, Enters, Stops, Released
  <1>3. \A t \in Train : /\ pos[t].leg \in Legs(t) /\ Leg(t, pos[t].leg) # 0
                         /\ pos[t].passed \in 0 .. 2
    BY <1>1 DEF Typed
  <1>4. ASSUME NEW t \in S, Handled(t)
        PROVE  /\ Caught(t) /\ Known(t)
               /\ ~ctl[t].waiting => con.hs[t] = Expected(t)
    BY <1>1, <1>4, Where DEF Idle
  <1>5. ASSUME NEW t \in S PROVE InStep(t)
    BY <1>4 DEF InStep, Caught, OnLeg, On, NextHs, Expected
  <1>6. ASSUME NEW t \in S, ~OnFirstPath(t) PROVE Knows(t)
    BY <1>1, <1>4, <1>6 DEF OnFirstPath, Later, Known, Knows
  <1>7. SwitchesSet
    <2> SUFFICES ASSUME NEW t \in Train, pos[t].passed = 2, paths[On(t, pos[t])].sw_num # 0
                 PROVE  told.sw[paths[On(t, pos[t])].sw_num] = "TURNED"
      BY DEF SwitchesSet
    <2>1. t = "local"
      <3>1. CASE t = "express"
        <4>1. On(t, pos[t]) \in 1 .. 4
          BY <1>3, <3>1, Routes DEF On
        <4>2. On(t, pos[t]) \in 0 .. 12 /\ On(t, pos[t]) \in 0 .. 4
          BY <4>1
        <4> QED BY <4>2, Tables
      <3> QED BY <3>1 DEF Train
    <2>2. ctl[t].cur = On(t, pos[t]) /\ ctl[t].hs # 0
      BY <1>1, <1>2, <1>3, <2>1 DEF Caught, Behind, OnLeg, On
    <2> QED BY <1>1, <2>1, <2>2 DEF Turned
  <1> QED BY <1>5, <1>6, <1>7

(* and, about both trains, that every index is in its range.                  *)
LEMMA InvTypes == Inv(Train) => TypeOK
  <1> SUFFICES ASSUME Inv(Train) PROVE TypeOK
    OBVIOUS
  <1>1. Typed /\ \A t \in Train : Phase(t) /\ Held(t)
    BY DEF Inv
  <1>2. ASSUME NEW t \in Train PROVE ctl[t].cur # 0
    <2>1. Caught(t) \/ Behind(t)
      BY <1>1 DEF Phase, Idle, Passed, Reported, Asks, Enters, Stops, Released
    <2>2. pos[t].leg \in Legs(t) /\ Leg(t, pos[t].leg) # 0
      BY <1>1 DEF Typed
    <2> QED BY <2>1, <2>2 DEF Caught, Behind, OnLeg
  <1>3. \A t \in Train : /\ ctl[t].cur \in 1 .. 12
                         /\ ctl[t].nxt \in 0 .. 12
                         /\ ctl[t].dst \in 0 .. Len(route[t]) - 1
                         /\ ctl[t].hs \in 0 .. 2
                         /\ ctl[t].waiting \in BOOLEAN
    BY <1>1, <1>2, Ranges DEF Legs
  <1>4. /\ con.blocked \in Train \cup {"NO_TRAIN"}
        /\ \A t \in Train : /\ con.cur[t] \in 0 .. 12
                             /\ con.nxt[t] \in 0 .. 12
                             /\ con.hs[t] \in 0 .. 24
    BY <1>1 DEF Typed, Conductor, Held
  <1> QED BY <1>3, <1>4 DEF TypeOK

(* At most two of the conductor's unread messages are about t. *)
LEMMA AtMostTwo ==
    ASSUME NEW t \in Train, Phase(t)
    PROVE  \E i, j : \A k \in 1 .. Len(Queue) : Queue[k].train = t => k \in {i, j}
  <1>1. ASSUME NEW x, Lone(t, Queue, x)
        PROVE  \E i, j : \A k \in 1 .. Len(Queue) : Queue[k].train = t => k \in {i, j}
    BY <1>1 DEF Lone
  <1>2. ASSUME NEW x, NEW y, Pair(t, Queue, x, y)
        PROVE  \E i, j : \A k \in 1 .. Len(Queue) : Queue[k].train = t => k \in {i, j}
    BY <1>2 DEF Pair
  <1>3. CASE ~About(t, Queue)
    BY <1>3 DEF About
  <1>4. \/ ~About(t, Queue)
        \/ \E x : Lone(t, Queue, x)
        \/ \E x, y : Pair(t, Queue, x, y)
    <2>1. CASE Enters(t)
      <3> DEFINE x == FULL_PATH(t, IF ctl[t].hs = 0 THEN ctl[t].cur ELSE ctl[t].nxt)
                 y == NEW_TR_HS(t, Expected(t))
      <3>1. TellsBoth(t, x, y)
        BY <2>1 DEF Enters
      <3> HIDE DEF x, y
      <3> QED BY <3>1 DEF TellsBoth
    <2> QED BY <2>1 DEF Phase, Idle, Handled, Passed, Reported, Silent, Asks, Stops, Tells,
                        Released, Queue
  <1> QED BY <1>1, <1>2, <1>3, <1>4

(* How many unread messages there can be: four for the conductor, two of each *)
(* train, and one for a train. send() overruns a socket at MSG_QUEUE_SIZE     *)
(* (30) of them.                                                              *)
FewUnread == Len(mail["conductor"]) <= 4 /\ \A t \in Train : Len(mail[t]) <= 1

(* The invariant bounds the mailboxes. *)
LEMMA InvFew == Inv(Train) => FewUnread
  <1> SUFFICES ASSUME Inv(Train) PROVE FewUnread
    OBVIOUS
  <1>1. Queue \in Seq(Message) /\ \A t \in Train : Phase(t)
    BY DEF Inv, Typed
  <1>2. PICK e1, e2 : \A k \in 1 .. Len(Queue) : Queue[k].train = "express" => k \in {e1, e2}
    BY <1>1, AtMostTwo DEF Train
  <1>3. PICK l1, l2 : \A k \in 1 .. Len(Queue) : Queue[k].train = "local" => k \in {l1, l2}
    BY <1>1, AtMostTwo DEF Train
  <1>4. \A k \in 1 .. Len(Queue) : k \in {e1, e2, l1, l2}
    <2>1. \A k \in 1 .. Len(Queue) : Queue[k].train \in Train
      BY <1>1 DEF Message
    <2> QED BY <1>2, <1>3, <2>1 DEF Train
  <1>5. Len(Queue) <= 4
    <2> SUFFICES ASSUME Len(Queue) >= 5 PROVE FALSE
      BY <1>1
    <2>1. 1 .. 5 \subseteq {e1, e2, l1, l2}
      BY <1>1, <1>4
    <2>2. /\ 1 \in {e1, e2, l1, l2} /\ 2 \in {e1, e2, l1, l2} /\ 3 \in {e1, e2, l1, l2}
          /\ 4 \in {e1, e2, l1, l2} /\ 5 \in {e1, e2, l1, l2}
      BY <2>1
    <2> QED BY <2>2
  <1>6. ASSUME NEW t \in Train PROVE Len(mail[t]) <= 1
    <2>1. CASE mail[t] = << >>
      BY <2>1
    <2>2. ASSUME NEW r, mail[t] = <<r>> PROVE Len(mail[t]) <= 1
      BY <2>2
    <2> QED BY <1>1, <2>1, <2>2, Short
  <1> QED BY <1>5, <1>6 DEF FewUnread, Queue

(* The invariant about the local holds as long as sensors are attributed to   *)
(* the right train, *)
THEOREM LocalInvariance == Spec /\ []Attributed => []Inv({"local"})
  <1>1. Init => Inv({"local"})
    BY InitInv DEF Followed
  <1>2. Inv({"local"}) /\ Attributed' /\ [Next]_vars => Inv({"local"})'
    <2>1. "express" \notin {"local"} /\ {"local"} \in Followed
      BY DEF Followed
    <2> QED BY <2>1, NextInv
  <1> QED BY <1>1, <1>2, PTL DEF Spec

(* and the one about both if the express passes no sensor while it waits.     *)
THEOREM Invariance == Spec /\ []Attributed /\ [][~Slips]_vars => []Inv(Train)
  <1>1. Init => Inv(Train)
    BY InitInv DEF Followed
  <1>2. Inv(Train) /\ Attributed' /\ [Next]_vars /\ [~Slips]_vars => Inv(Train)'
    BY NextInv DEF Followed
  <1> QED BY <1>1, <1>2, PTL DEF Spec

(* The controller of the local, when it has caught up, knows the path its     *)
(* train is on and how many of its sensors it has passed, and the conductor   *)
(* expects the train at the next one, even if the express slips away from its *)
(* own controller.                                                            *)
THEOREM LocalTracked == Spec /\ []Attributed => []InStep("local")
  <1>1. Inv({"local"}) => InStep("local")
    BY InvImplies DEF Followed
  <1> QED BY <1>1, LocalInvariance, PTL

(* Past the start of every path of the local but its first, those after a     *)
(* dwell among them, the conductor has its current and next path right.       *)
THEOREM LocalKnown == Spec /\ []Attributed => [](~OnFirstPath("local") => Knows("local"))
  <1>1. Inv({"local"}) => (~OnFirstPath("local") => Knows("local"))
    BY InvImplies DEF Followed
  <1> QED BY <1>1, LocalInvariance, PTL

(* A train that is past the second sensor of a path through a switch has had  *)
(* it turned, and nobody has turned it back.                                  *)
THEOREM SwitchesTurned == Spec /\ []Attributed => []SwitchesSet
  <1>1. Inv({"local"}) => SwitchesSet
    BY InvImplies DEF Followed
  <1> QED BY <1>1, LocalInvariance, PTL

(* With ExpressWaits it passes none.                                          *)
LEMMA NeverSlips ==
    ASSUME ExpressWaits
    PROVE  Spec => [][~Slips]_vars
  <1>1. ~Slips
    BY DEF Slips, Pass, CanPass
  <1> QED BY <1>1, PTL

(* The locals of the controllers and of TheFatController stay in the range of *)
(* the tables they index, and no controller waits on a dwell, whatever the    *)
(* lags, unless the express slips.                                            *)
THEOREM TypesHold == Spec /\ []Attributed /\ [][~Slips]_vars => []TypeOK
  BY Invariance, InvTypes, PTL

(* Each controller that has caught up knows the path its train is on and how  *)
(* many of its sensors it has passed, and the conductor expects the train at  *)
(* the next one, unless the express slips: then its own controller does not.  *)
THEOREM TrainsTracked == Spec /\ []Attributed /\ [][~Slips]_vars => []Tracked
  <1>1. Inv(Train) => Tracked
    BY InvImplies DEF Followed, Tracked
  <1> QED BY <1>1, Invariance, PTL

(* Past the start of every path but a train's first, the conductor has its    *)
(* current and next path right, unless the express slips.                     *)
THEOREM ConductorKnows == Spec /\ []Attributed /\ [][~Slips]_vars => []KnowsLater
  <1>1. Inv(Train) => KnowsLater
    BY InvImplies DEF Followed, KnowsLater
  <1> QED BY <1>1, Invariance, PTL

(* The sockets of the train processes never hold more than four unread        *)
(* messages, unless the express slips: the overrun in k_send_message is out   *)
(* of reach.                                                                  *)
THEOREM MailboxesStayShort == Spec /\ []Attributed /\ [][~Slips]_vars => []FewUnread
  BY Invariance, InvFew, PTL
=============================================================================
