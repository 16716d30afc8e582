------------------------------- MODULE IpBanList -------------------------------
(***************************************************************************)
(* The gate's list of IP addresses: counters of requests and failures over *)
(* a window of time that starts at the first of them, and the bans that    *)
(* too many of them bring.  One deadline per address serves both: the end  *)
(* of the window, then the end of the ban.  Every operation holds g_mutex  *)
(* throughout and is one step.                                             *)
(***************************************************************************)
EXTENDS Integers, FiniteSets

CONSTANTS
    Ips,            \* addresses of clients
    Counters,       \* what is counted: HTTP requests, messages, failures
    CounterMax,     \* CounterMax[c]: the configured maximum per window
    Window,         \* a minute
    BanDuration,    \* client_generic_auto_ip_ban_expiry_duration
    MaxTime,        \* bound on the clock
    MaxPerTick      \* bound on the events of a kind at one moment

ASSUME MaximaAssumption == CounterMax \in [Counters -> Nat]
ASSUME DurationsAssumption == Window \in Nat \ {0} /\ BanDuration \in Nat \ {0}
ASSUME BoundsAssumption == MaxTime \in Nat /\ MaxPerTick \in Nat

VARIABLES
    element,        \* element[ip]: what the container has for ip, or Absent
    now,            \* get_fast_mono_clock()
    events,         \* history: events[ip][c], the events of the last window, since the last
                    \* unban: pairs of a moment and a number
    bannedUntil,    \* history: the end of the last ban of ip, 0 if there is none
    last            \* history: the last ban: address, counter, whether ip was banned before

vars == <<element, now, events, bannedUntil, last>>

-------------------------------------------------------------------------------
Absent == [present |-> FALSE]

Elements ==
    [present: {TRUE}, expiry_time: Nat, counters: [Counters -> Nat], ban_expiry_time: Nat]
    \cup {Absent}

NoBan == [banned |-> FALSE]

TypeOK ==
    /\ element \in [Ips -> Elements]
    /\ now \in Nat
    /\ events \in [Ips -> [Counters -> SUBSET ((0..now) \X (1..MaxPerTick))]]
    /\ bannedUntil \in [Ips -> Nat]
    /\ last \in [banned: {TRUE}, ip: Ips, counter: Counters, before: BOOLEAN] \cup {NoBan}

NoEvents == [c \in Counters |-> {}]

Init ==
    /\ element = [ip \in Ips |-> Absent]
    /\ now = 0
    /\ events = [ip \in Ips |-> NoEvents]
    /\ bannedUntil = [ip \in Ips |-> 0]
    /\ last = NoBan

-------------------------------------------------------------------------------
\* Mutated: an element lives one moment longer than its window.
ExpiredLate(ip) == element[ip].present /\ element[ip].expiry_time < now

Expired(ip) == element[ip].present /\ element[ip].expiry_time <= now

AfterExpiry(ip) == IF Expired(ip) THEN Absent ELSE element[ip]

\* The element for ip, created if there is none, its counters at zero.
FindOrCreate(ip) ==
    IF AfterExpiry(ip).present THEN AfterExpiry(ip)
    ELSE [present |-> TRUE, expiry_time |-> now + Window,
          counters |-> [c \in Counters |-> 0], ban_expiry_time |-> 0]

\* Mutated: the deadline of the element stays that of the window.
BannedForWindow(e) == [e EXCEPT !.ban_expiry_time = now + BanDuration]

\* The ban moves the deadline of the element.
Banned(e) == [e EXCEPT !.expiry_time = now + BanDuration, !.ban_expiry_time = now + BanDuration]

ReachesMax(n, c) == n >= CounterMax[c]

\* 0 if ip is not banned, otherwise for how long it still is.
get_ban_time_remaining(ip) ==
    IF element[ip].present /\ element[ip].ban_expiry_time > now
    THEN element[ip].ban_expiry_time - now ELSE 0

\* Erase what has expired, count the event and ban the address if there are
\* too many.
accumulate_and_check_ban(ip, c) ==
    LET counted == [FindOrCreate(ip) EXCEPT !.counters[c] = @ + 1]
        bans    == ReachesMax(counted.counters[c], c)
    IN
    /\ \E n \in 1..MaxPerTick :
        /\ <<now, n>> \notin events[ip][c]
        /\ events' = [events EXCEPT ![ip][c] = @ \cup {<<now, n>>}]
    /\ element' = [x \in Ips |-> IF x # ip THEN AfterExpiry(x)
                                 ELSE IF bans THEN Banned(counted) ELSE counted]
    /\ IF bans
       THEN /\ bannedUntil' = [bannedUntil EXCEPT ![ip] = now + BanDuration]
            /\ last' = [banned |-> TRUE, ip |-> ip, counter |-> c,
                        before |-> get_ban_time_remaining(ip) > 0]
       ELSE last' = NoBan /\ UNCHANGED bannedUntil
    /\ UNCHANGED now

\* An operator lifts the ban: the address starts afresh.
remove_ban(ip) ==
    /\ element[ip].present
    /\ element' = [element EXCEPT ![ip] = Absent]
    /\ events' = [events EXCEPT ![ip] = NoEvents]
    /\ bannedUntil' = [bannedUntil EXCEPT ![ip] = 0]
    /\ last' = NoBan
    /\ UNCHANGED now

Tick ==
    /\ now < MaxTime
    /\ now' = now + 1
    /\ events' = [ip \in Ips |-> [c \in Counters |->
                     {e \in events[ip][c] : e[1] > now' - Window}]]
    /\ last' = NoBan
    /\ UNCHANGED <<element, bannedUntil>>

Next ==
    \/ \E ip \in Ips, c \in Counters : accumulate_and_check_ban(ip, c)
    \/ \E ip \in Ips : remove_ban(ip)
    \/ Tick

Spec == Init /\ [][Next]_vars

-------------------------------------------------------------------------------
(***************************************************************************)
(* Properties                                                              *)
(***************************************************************************)

\* A ban lasts exactly as long as it was imposed for, whatever other events of
\* the address or of other addresses come in between, unless it is lifted: the
\* element that remembers it is not erased earlier, nor later believed.
BansAreServed ==
    \A ip \in Ips :
        get_ban_time_remaining(ip) = IF bannedUntil[ip] > now THEN bannedUntil[ip] - now ELSE 0

\* How many events of kind c of ip there were in the last window.
Recent(ip, c) == Cardinality(events[ip][c])

\* An address that is not banned becomes banned only by events that all fall
\* within one window.
NoBanForOldEvents ==
    last.banned /\ ~last.before => Recent(last.ip, last.counter) >= CounterMax[last.counter]

\* However the windows fall, an address that is not banned has had at most
\* twice the maximum of events in the last window, provided that bans last at
\* least as long as windows do. That is so whether the maximum itself brings a
\* ban or has to be exceeded.
RateIsLimited ==
    BanDuration >= Window =>
        \A ip \in Ips, c \in Counters :
            get_ban_time_remaining(ip) = 0 => Recent(ip, c) <= 2 * CounterMax[c]

\* "Increment the counter and check whether it exceeds the maximum value."
\* (ip_ban_list.cpp:58): an address that is not banned becomes banned only by
\* more events than the maximum, all within one window.
BansExceedMaximum ==
    last.banned /\ ~last.before => Recent(last.ip, last.counter) > CounterMax[last.counter]

===============================================================================
