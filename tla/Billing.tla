------------------------------- MODULE Billing -------------------------------
(***************************************************************************)
(* Electricity bills of one zone for one month (billing-service): meters   *)
(* report running totals, rules of three kinds say what they cost, and a   *)
(* bill is made by hand or by the monthly job, step by step, while meters  *)
(* go on reporting and rules are added.  Readings and prices are whole     *)
(* numbers, so that nothing is rounded.                                    *)
(***************************************************************************)
EXTENDS Integers, Sequences, FiniteSets, SequencesExt, FiniteSetsExt, Functions

CONSTANTS
    Meters,
    Hours,              \* hours of a day, 0..n
    MaxSlot,            \* (bound) hours of the month in which a meter reports
    Counts,             \* (bound) what a meter may show
    MaxReadings,        \* (bound) readings of all meters
    Tenants,
    Configs,            \* rule configurations offered to RuleCreate
    MaxRules,           \* (bound)
    Generators,         \* calls of Generate
    ByCron,             \* those of the monthly job
    DefaultTenant,
    NoTenant, NoBill, NoRule, NoTop, NoOne

BillingParameters ==
    /\ IsFiniteSet(Meters) /\ IsFiniteSet(Hours) /\ Hours # {}
    /\ Hours = 0..(Cardinality(Hours) - 1)
    /\ Counts \subseteq Nat /\ MaxSlot \in Nat
    /\ ByCron \subseteq Generators
    /\ DefaultTenant \in Tenants

\* What a configuration is made of, whether it is good for a rule or not.
ConfigsFit ==
    \A c \in Configs :
      /\ c.kind \in {"flat", "tiered", "tou"}
      /\ c.kind = "flat" => c.price \in Int
      /\ c.kind = "tiered" => c.tiers \in Seq([top : Int \cup {NoTop}, price : Int])
      /\ c.kind = "tou" => /\ c.base \in Int
                           /\ c.periods \in Seq([from : Int, to : Int, price : Int])

ASSUME BillingAssumption == BillingParameters /\ ConfigsFit

VARIABLES
    reading,        \* per meter: its readings, in time order
    rulebook,       \* rules in the order of their ids
    gen,            \* per call: its tenant, next step, and what it has read so far
    monthLock,      \* m5:billing:lock:monthly, its holder
    bill            \* the row of the zone and the month

billingVars == <<reading, rulebook, gen, monthLock, bill>>

Steps == {"idle", "usage", "rule", "price", "check", "insert", "billed", "refused", "failed"}
NewCall == [tenant |-> NoTenant, at |-> "idle", usage |-> 0, rule |-> NoRule,
            items |-> <<>>, moved |-> FALSE]

BillingTypeOK ==
    /\ \A d \in Meters : \A i \in DOMAIN reading[d] :
         reading[d][i].slot \in 1..MaxSlot /\ reading[d][i].kwh \in Counts
    /\ \A i \in DOMAIN rulebook :
         rulebook[i].tenant \in Tenants /\ rulebook[i].config \in Configs
    /\ \A g \in Generators :
         gen[g].tenant \in Tenants \cup {NoTenant} /\ gen[g].at \in Steps
    /\ monthLock \in ByCron \cup {NoOne}
    /\ bill # NoBill => bill.tenant \in Tenants /\ bill.usage > 0

------------------------------------------------------------------------------
(* Readings: TotalUsage and ListHourlyUsage                                *)
Kwh(d) == {reading[d][i].kwh : i \in DOMAIN reading[d]}

MeterTotal(d) == IF reading[d] = <<>> THEN 0 ELSE Max(Kwh(d)) - Min(Kwh(d))

TotalUsage == SumFunction([d \in Meters |-> MeterTotal(d)])

\* The last reading of an hour, and the reading its use is counted from.
Closes(d, i) ==
    i = Len(reading[d]) \/ reading[d][i + 1].slot # reading[d][i].slot
Before(d, i) == Max({1} \cup {j \in 1..(i - 1) : Closes(d, j)})

Used(d, i) == Max({0, reading[d][i].kwh - reading[d][Before(d, i)].kwh})

HourUsage(h) ==
    LET closing == UNION {{<<d, i>> : i \in {j \in DOMAIN reading[d] :
                             Closes(d, j) /\ reading[d][j].slot % Cardinality(Hours) = h}} :
                          d \in Meters}
    IN  SumFunction([p \in closing |-> Used(p[1], p[2])])

SetBack(d) ==
    \E i \in DOMAIN reading[d] : i > 1 /\ reading[d][i].kwh < reading[d][i - 1].kwh

------------------------------------------------------------------------------
(* Rules: validateRule and the three ways to price                         *)
Valid(c) ==
    CASE c.kind = "flat"   -> c.price > 0
      [] c.kind = "tiered" ->
           /\ c.tiers # <<>>
           /\ \A i \in DOMAIN c.tiers :
                IF c.tiers[i].top = NoTop THEN i = Len(c.tiers)
                ELSE c.tiers[i].top > (IF i = 1 THEN 0 ELSE c.tiers[i - 1].top)
      [] c.kind = "tou"    -> c.periods # <<>> \/ c.base > 0

Item(used, price) == [usage |-> used, amount |-> used * price]

\* Mutant: a tier holds everything up to its limit.
ToLimit(acc, t) == t.top
Room(acc, t) == t.top - acc.lower

\* CalcTiered
Tier(acc, t) ==
    LET left == acc.usage - acc.used
        take == IF t.top = NoTop THEN left ELSE Min({left, Room(acc, t)})
    IN  IF take <= 0 THEN acc
        ELSE [acc EXCEPT !.used  = @ + take,
                         !.lower = IF t.top = NoTop THEN @ ELSE t.top,
                         !.items = Append(@, Item(take, t.price))]

TieredItems(tiers, usage) ==
    FoldLeft(Tier, [usage |-> usage, used |-> 0, lower |-> 0, items |-> <<>>], tiers).items

\* inPeriod: a period may cross midnight.
InPeriod(h, p) ==
    \/ p.from < p.to /\ h \in p.from..(p.to - 1)
    \/ p.from > p.to /\ (h >= p.from \/ h < p.to)

\* CalcTou: the first period that has the hour sets its price.
TouPrice(c, h) ==
    LET hits == {i \in DOMAIN c.periods : InPeriod(h, c.periods[i])}
    IN  IF hits = {} THEN c.base ELSE c.periods[Min(hits)].price

\* A line for each hour with use.
TouItems(c) ==
    [h \in {x \in Hours : HourUsage(x) > 0} |-> Item(HourUsage(h), TouPrice(c, h))]

\* calculate
Items(c, usage) ==
    CASE c.kind = "flat"   -> <<Item(usage, c.price)>>
      [] c.kind = "tiered" -> TieredItems(c.tiers, usage)
      [] c.kind = "tou"    -> TouItems(c)

Usages(items)  == SumFunction([i \in DOMAIN items |-> items[i].usage])
Amounts(items) == SumFunction([i \in DOMAIN items |-> items[i].amount])

------------------------------------------------------------------------------
BillingInit ==
    /\ reading = [d \in Meters |-> <<>>]
    /\ rulebook = <<>>
    /\ gen = [g \in Generators |-> NewCall]
    /\ monthLock = NoOne
    /\ bill = NoBill

Readings == SumFunction([d \in Meters |-> Len(reading[d])])

\* A meter reports its running total; a meter that is replaced starts again.
Report(d, slot, kwh) ==
    /\ Readings < MaxReadings
    /\ reading[d] # <<>> =>
         /\ slot >= Last(reading[d]).slot
         /\ kwh >= Last(reading[d]).kwh \/ kwh = 0
    /\ reading' = [reading EXCEPT ![d] = Append(@, [slot |-> slot, kwh |-> kwh])]
    /\ gen' = [g \in Generators |->
                IF gen[g].at \in {"rule", "price"} THEN [gen[g] EXCEPT !.moved = TRUE]
                ELSE gen[g]]
    /\ UNCHANGED <<rulebook, monthLock, bill>>

\* RuleCreate, for the zone (own) or for the whole park
RuleCreate(t, c, own) ==
    /\ Len(rulebook) < MaxRules
    /\ Valid(c)
    /\ rulebook' = Append(rulebook, [tenant |-> t, config |-> c, own |-> own])
    /\ UNCHANGED <<reading, gen, monthLock, bill>>

-------------------------------------------------------------------------------
(* Generate *)
To(g, step) == gen' = [gen EXCEPT ![g].at = step]

\* A request, or the monthly job once it has the lock and a zone with readings.
BeginBill(g, t) ==
    /\ gen[g].at = "idle"
    /\ IF g \in ByCron
       THEN t = DefaultTenant /\ monthLock = NoOne /\ monthLock' = g
       ELSE UNCHANGED monthLock
    /\ gen' = [gen EXCEPT ![g].tenant = t, ![g].at = "usage"]
    /\ UNCHANGED <<reading, rulebook, bill>>

Measure(g) ==
    /\ gen[g].at = "usage"
    /\ gen' = [gen EXCEPT ![g].usage = TotalUsage,
                          ![g].at = IF TotalUsage > 0 THEN "rule" ELSE "refused"]
    /\ UNCHANGED <<reading, rulebook, monthLock, bill>>

\* FindApplicableRule: the newest rule of the zone, else the newest of the park.
Applicable(t) ==
    LET of(own) == {i \in DOMAIN rulebook : rulebook[i].tenant = t /\ rulebook[i].own = own}
    IN  IF of(TRUE) # {} THEN Max(of(TRUE))
        ELSE IF of(FALSE) # {} THEN Max(of(FALSE)) ELSE NoRule

PickRule(g) ==
    LET r == Applicable(gen[g].tenant)
    IN  /\ gen[g].at = "rule"
        /\ gen' = [gen EXCEPT ![g].rule = r, ![g].at = IF r = NoRule THEN "refused" ELSE "price"]
        /\ UNCHANGED <<reading, rulebook, monthLock, bill>>

Calculate(g) ==
    /\ gen[g].at = "price"
    /\ gen' = [gen EXCEPT ![g].items = Items(rulebook[gen[g].rule].config, gen[g].usage),
                          ![g].moved = @ \/ \E d \in Meters : SetBack(d),
                          ![g].at = "check"]
    /\ UNCHANGED <<reading, rulebook, monthLock, bill>>

\* FindBillByPeriod looks among the tenant's own bills.
CheckPeriod(g) ==
    /\ gen[g].at = "check"
    /\ To(g, IF bill # NoBill /\ bill.tenant = gen[g].tenant THEN "refused" ELSE "insert")
    /\ UNCHANGED <<reading, rulebook, monthLock, bill>>

\* uk_zone_period is on the zone and the month.
InsertBill(g) ==
    /\ gen[g].at = "insert"
    /\ IF bill = NoBill
       THEN /\ bill' = [tenant |-> gen[g].tenant, config |-> rulebook[gen[g].rule].config,
                        usage |-> gen[g].usage, items |-> gen[g].items,
                        amount |-> Amounts(gen[g].items), moved |-> gen[g].moved]
            /\ To(g, "billed")
       ELSE To(g, "failed") /\ UNCHANGED bill
    /\ UNCHANGED <<reading, rulebook, monthLock>>

Ended(g) == gen[g].at \in {"billed", "refused", "failed"}

\* The job's lock is released by its token; it expires under a job that lasts.
ReleaseMonth(g) ==
    /\ monthLock = g
    /\ Ended(g)
    /\ monthLock' = NoOne
    /\ UNCHANGED <<reading, rulebook, gen, bill>>

MonthLockExpires ==
    /\ monthLock # NoOne
    /\ monthLock' = NoOne
    /\ UNCHANGED <<reading, rulebook, gen, bill>>

\* A query fails: nothing has been written yet.
Fails(g) ==
    /\ gen[g].at \in {"usage", "rule", "price", "check", "insert"}
    /\ To(g, "refused")
    /\ UNCHANGED <<reading, rulebook, monthLock, bill>>

BillingNext ==
    \/ \E d \in Meters, slot \in 1..MaxSlot, kwh \in Counts : Report(d, slot, kwh)
    \/ \E t \in Tenants, c \in Configs, own \in BOOLEAN : RuleCreate(t, c, own)
    \/ \E g \in Generators :
         \/ \E t \in Tenants : BeginBill(g, t)
         \/ Measure(g) \/ PickRule(g) \/ Calculate(g) \/ CheckPeriod(g) \/ InsertBill(g)
         \/ ReleaseMonth(g) \/ Fails(g)
    \/ MonthLockExpires

BillingSpec == BillingInit /\ [][BillingNext]_billingVars

-------------------------------------------------------------------------------
\* What tiers come to, one unit after the other.
UnitPrice(tiers, k) ==
    LET holds == {i \in DOMAIN tiers : tiers[i].top = NoTop \/ k <= tiers[i].top}
    IN  IF holds = {} THEN 0 ELSE tiers[Min(holds)].price

TieredReference(tiers, usage) == SumFunction([k \in 1..usage |-> UnitPrice(tiers, k)])

Capped(c) == c.kind = "tiered" /\ Last(c.tiers).top # NoTop

(* The lines of a bill account for the use it bills, and its amount is     *)
(* theirs, tier by tier what each unit costs: only use above the last tier *)
(* of a rule without an open one is left out, and lines by the hour - they *)
(* are read from the meters a second time - differ from the total only     *)
(* after a meter reported in between or was set back (Generate, CalcTiered,*)
(* ListHourlyUsage; the comment there promises equality to the cent).      *)
BillsReconcile ==
    bill # NoBill =>
        LET c == bill.config
        IN  /\ bill.amount = Amounts(bill.items)
            /\ CASE c.kind = "flat"   -> bill.amount = bill.usage * c.price
                 [] c.kind = "tiered" -> bill.amount = TieredReference(c.tiers, bill.usage)
                 [] c.kind = "tou"    -> TRUE
            /\ \/ Usages(bill.items) = bill.usage
               \/ Capped(c) /\ bill.usage > Last(c.tiers).top
               \/ c.kind = "tou" /\ bill.moved
===============================================================================
