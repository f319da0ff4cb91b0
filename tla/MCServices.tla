----------------------------- MODULE MCServices -----------------------------
(* The price feed, the process around the router's tasks, and a quote       *)
(* handler with many lookup tables, each on its own: a behaviour is one of  *)
(* a feed that is never told to exit, one of a process whose feed is a task *)
(* like the others, or one of the server.                                   *)
EXTENDS PriceFeeds, Startup, MCQuoteServer

NoProcess(where) ==
    /\ absent = {} /\ stage = 0 /\ spawned = {} /\ ended = {} /\ heard = {}
    /\ exit_flag = FALSE /\ sigint = "waiting"
    /\ process = where

NoServer ==
    /\ now = 0 /\ last_update = None /\ cache = [t \in DOMAIN Contents |-> None]
    /\ hot = EmptyHotMints /\ history = <<>>
    /\ job = [c \in Clients |-> [Idle EXCEPT !.pc = "done"]]

FeedAlone == PriceInit /\ NoProcess("elsewhere") /\ NoServer

ProcessAlone == StartupInit /\ PriceInit /\ NoServer

ServerAlone == Init /\ PriceInit /\ NoProcess("serving")

ServicesInit == FeedAlone \/ ProcessAlone \/ ServerAlone

ServicesNext ==
    \/ process = "elsewhere" /\ PriceNext /\ UNCHANGED <<startupVars, vars>>
    \/ process \notin {"elsewhere", "serving"} /\ StartupNext /\ UNCHANGED <<priceVars, vars>>
    \/ process = "serving" /\ Next /\ UNCHANGED <<priceVars, startupVars>>

ServicesSpec ==
    /\ ServicesInit /\ [][ServicesNext]_<<priceVars, startupVars, vars>>
    /\ PriceFairness /\ StartupFairness
=============================================================================
