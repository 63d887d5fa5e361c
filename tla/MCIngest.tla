------------------------------ MODULE MCIngest ------------------------------
(* A child of one parent, a child of another, and a stranger. *)
EXTENDS Ingest

CONSTANTS mia, leo, stranger, anna, ben

MCParentOf == mia :> anna @@ leo :> ben
MCPageOwner == 1 :> anna @@ 2 :> anna @@ 3 :> ben
MCPageOf == 1 :> 1 @@ 2 :> 1 @@ 3 :> 2 @@ 4 :> 3
MCNamedId == {-1, 1, 4}
MCRequest == [task : Task, child : DOMAIN ParentOf, target : User]

Only(bounds) ==
  [event \in Event |-> IF event \in DOMAIN bounds THEN bounds[event] ELSE 0]

Start(accounts, users, minutes, bounds) ==
  [children |-> accounts, writing |-> [users |-> users, minutes |-> minutes],
   bounds |-> Only(bounds)]

(* One behaviour explores one part: connections, lost answers, two parents,*)
(* two pages of one, a page that connects again, the cache, and what a     *)
(* parent reads.                                                           *)
MCStarts == {
  Start(<<mia>>, {mia, stranger}, {0}, [messages |-> 3, connects |-> 2, drops |-> 1,
                                        acks |-> 1]),
  Start(<<mia>>, {mia, stranger}, {0}, [messages |-> 4, connects |-> 1, losses |-> 1]),
  Start(<<mia, leo>>, {mia, leo}, {0}, [messages |-> 2, connects |-> 1, viewers |-> 2,
                                        leaves |-> 1]),
  Start(<<mia>>, {mia, stranger}, {0}, [messages |-> 3, connects |-> 1, viewers |-> 2,
                                        leaves |-> 1]),
  Start(<<mia>>, {mia, stranger}, {0}, [messages |-> 2, connects |-> 1, expiries |-> 1,
                                        viewers |-> 2, leaves |-> 1, loads |-> 1]),
  Start(<<mia>>, {mia, stranger}, {0}, [messages |-> 3, connects |-> 1, expiries |-> 2,
                                        analyses |-> 1]),
  Start(<<mia>>, {mia, stranger}, {0}, [messages |-> 3, connects |-> 1, expiries |-> 1,
                                        viewers |-> 1]),
  Start(<<mia>>, {mia, stranger}, {0}, [messages |-> 2, connects |-> 1, analyses |-> 3,
                                        acks |-> 1]),
  Start(<<mia>>, {mia, stranger}, {1, 2}, [messages |-> 3, connects |-> 1,
                                           analyses |-> 1]) }
=============================================================================
