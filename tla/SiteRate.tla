------------------------------ MODULE SiteRate ------------------------------
(***************************************************************************)
(* The fetch rate of one site (Website::httpRequest): a request waits so   *)
(* that the site's addresses, taken in turn, are each fetched from once in *)
(* fetch_interval_.  time(2) gives whole seconds, the waiting time is an   *)
(* int of milliseconds, and a DNS answer starts the turns anew.  One fetch *)
(* of the site is under way at a time.                                     *)
(***************************************************************************)
EXTENDS Integers

CONSTANTS
    fetch_interval_,    \* seconds
    Ms,                 \* milliseconds of a second
    IntWidth,           \* 2^w, how many values an int has
    MaxIps,             \* bound: addresses of the host
    MaxClock,           \* bound: milliseconds
    Never               \* an address not fetched from since the DNS answer

ASSUME RateAssumption ==
    /\ {fetch_interval_, Ms, MaxIps} \subseteq Nat \ {0} /\ MaxClock \in Nat
    /\ IntWidth \in Nat \ {0} /\ IntWidth % 2 = 0 /\ Never \notin Nat

VARIABLES
    clock,              \* milliseconds
    site,               \* "idle", "waiting" in TimeWait, "loading"
    last_fetch_time_, ip_num, last_used_ip,
    wait_ms, due,       \* of the latest request; when its timer fires
    ip,                 \* its address, counted from 0, or Never if since forgotten
    ended               \* when each address was last fetched from

rateVars == <<clock, site, last_fetch_time_, ip_num, last_used_ip, wait_ms, due, ip, ended>>

Now        == clock \div Ms
Unused     == [i \in 0..(MaxIps - 1) |-> Never]
AsInt(n)   == ((n + IntWidth \div 2) % IntWidth) - IntWidth \div 2
Share      == (fetch_interval_ * Ms) \div ip_num
NotNegative(n) == IF n < 0 THEN 0 ELSE n

-----------------------------------------------------------------------------
\* mutants: the whole interval for each address; the address stays the same
WaitMsWhole(since) == NotNegative(AsInt(fetch_interval_ * Ms - since * Ms))
WaitMs(since) == NotNegative(AsInt(Share - since * Ms))
NextUsedSame(used) == used
NextUsed(used) == used + 1

\* Website::httpRequest, and TimeWait::add
HttpRequest ==
    /\ site = "idle"
    /\ site' = "waiting"
    /\ wait_ms' = WaitMs(Now - last_fetch_time_)
    /\ due' = clock + wait_ms'
    /\ ip' = last_used_ip % ip_num
    /\ last_used_ip' = NextUsed(last_used_ip)
    /\ UNCHANGED <<clock, last_fetch_time_, ip_num, ended>>

\* the timer has fired, or there was none, and the download starts
Load ==
    /\ site = "waiting" /\ clock >= due
    /\ site' = "loading"
    /\ wait_ms' = 0 /\ due' = 0
    /\ UNCHANGED <<clock, last_fetch_time_, ip_num, last_used_ip, ip, ended>>

\* Website::httpResult
HttpResult ==
    /\ site = "loading"
    /\ site' = "idle"
    /\ last_fetch_time_' = Now
    /\ ended' = IF ip = Never THEN ended ELSE [ended EXCEPT ![ip] = clock]
    /\ UNCHANGED <<clock, ip_num, last_used_ip, wait_ms, due, ip>>

\* the same for resources given up because the host has no address
DnsFailure ==
    /\ site = "idle"
    /\ last_fetch_time_' = Now
    /\ UNCHANGED <<clock, site, ip_num, last_used_ip, wait_ms, due, ip, ended>>

\* _dnsResult_: the answer replaces dns_, its addresses and their turns
DnsAnswer ==
    /\ ip_num' \in 1..MaxIps /\ last_used_ip' = 0
    /\ ip' = Never /\ ended' = Unused
    /\ UNCHANGED <<clock, site, last_fetch_time_, wait_ms, due>>

Pass ==
    /\ clock < MaxClock
    /\ clock' = clock + 1
    /\ UNCHANGED <<site, last_fetch_time_, ip_num, last_used_ip, wait_ms, due, ip, ended>>

RateInit ==
    /\ clock \in (fetch_interval_ * Ms)..(fetch_interval_ * Ms + Ms - 1)
    /\ site = "idle" /\ last_fetch_time_ = Now - fetch_interval_
    /\ ip_num \in 1..MaxIps /\ last_used_ip = 0
    /\ wait_ms = 0 /\ due = 0 /\ ip = Never /\ ended = Unused

RateNext == HttpRequest \/ Load \/ HttpResult \/ DnsFailure \/ DnsAnswer \/ Pass
RateSpec == RateInit /\ [][RateNext]_rateVars

-----------------------------------------------------------------------------
(* No request is made to wait longer than its address's share of the      *)
(* interval, unless the site had been left alone for so long that the int  *)
(* wraps around: 2^31 milliseconds, some 25 days, after which it may wait  *)
(* as long again.                                                          *)
WaitsItsShare ==
    [][site = "idle" /\ site' = "waiting" /\ wait_ms' > Share
        => (Now - last_fetch_time_) * Ms > IntWidth \div 2]_rateVars

(* An address rests for the interval between two fetches, give or take the *)
(* part of a second that time(2) cuts off once for every address in turn:  *)
(* as long as no DNS answer comes, which may start with it again.          *)
AddressRests ==
    [][site = "waiting" /\ site' = "loading" /\ ip # Never
        => ended[ip] = Never \/ clock - ended[ip] >= ip_num * (Share - (Ms - 1))]_rateVars

=============================================================================
