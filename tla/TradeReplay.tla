---------------------------- MODULE TradeReplay ----------------------------
(***************************************************************************)
(* `se trades` (trades.rs): the backtest rows of trades_journal are        *)
(* replaced by a replay of the promoted strategies of one horizon and one  *)
(* scanner.  One DELETE, then one INSERT per entry, no transaction: other  *)
(* commands, paper trades and a kill may come between any two of them.     *)
(* A replay is abstracted to how many entries each strategy fires; a row   *)
(* remembers the command that wrote it.                                    *)
(***************************************************************************)
EXTENDS Naturals, FiniteSets

CONSTANTS
  TradeStrategies,
  Scanners, Horizons,
  Profile,       \* strategy -> [scanner, horizon]
  Replayers,     \* processes of the command
  MaxEntries,    \* bound on the entries of one strategy
  MaxReplays     \* bound on the commands ever begun

ASSUME TradeReplayAssumption ==
  /\ Profile \in [TradeStrategies -> [scanner : Scanners, horizon : Horizons]]
  /\ Scanners # {}
  /\ {MaxEntries, MaxReplays} \subseteq Nat \ {0}

VARIABLES
  tradePromoted,  \* strategies with status promoted
  journal,        \* rows of trades_journal
  replays,        \* number of commands begun
  replayer,       \* each process: pc, command, scanner, what it loaded, what is left
  alone           \* history: processes no other row-writing command has disturbed

tradeVars == <<tradePromoted, journal, replays, replayer, alone>>

TradeRow == [mode : {"backtest", "paper"}, scanner : Scanners,
             strategy : TradeStrategies, by : 0..MaxReplays, n : 1..MaxEntries]

(* Entries still to insert: <<strategy, n>>.                               *)
Entries == TradeStrategies \X (1..MaxEntries)

Rest0 == [pc |-> "off", cmd |-> 0, scanner |-> CHOOSE s \in Scanners : TRUE,
          replay |-> {}, todo |-> {}]

TradeTypeOK ==
  /\ tradePromoted \subseteq TradeStrategies
  /\ journal \subseteq TradeRow
  /\ replays \in 0..MaxReplays
  /\ replayer \in [Replayers -> [pc : {"off", "clear", "insert"}, cmd : 0..MaxReplays,
                                 scanner : Scanners, replay : SUBSET Entries,
                                 todo : SUBSET Entries]]
  /\ alone \subseteq Replayers

TradeInit ==
  /\ tradePromoted \in SUBSET TradeStrategies
  /\ journal = {} /\ replays = 0
  /\ replayer = [p \in Replayers |-> Rest0]
  /\ alone = {}

-----------------------------------------------------------------------------
PromotedFor(scanner, horizon) ==
  {s \in tradePromoted : Profile[s] = [scanner |-> scanner, horizon |-> horizon]}

Replaced(s) ==
  /\ \/ tradePromoted' = tradePromoted \cup {s} \/ tradePromoted' = tradePromoted \ {s}
  /\ UNCHANGED <<journal, replays, replayer, alone>>

(* se-journal persists a paper trade of a strategy's signal.               *)
PersistPaper(s) ==
  /\ journal' = journal \cup {[mode |-> "paper", scanner |-> Profile[s].scanner,
                               strategy |-> s, by |-> 0, n |-> 1]}
  /\ UNCHANGED <<tradePromoted, replays, replayer, alone>>

(* load_promoted for the horizon and scanner of the command.  With nothing *)
(* promoted it returns before the DELETE and the old rows stay.  How many  *)
(* entries each strategy will fire is a matter of its bars.                *)
BeginReplay(p, scanner, horizon) ==
  LET loaded == PromotedFor(scanner, horizon) IN
  /\ replayer[p].pc = "off" /\ replays < MaxReplays /\ loaded # {}
  /\ replays' = replays + 1
  /\ \E fires \in [loaded -> 0..MaxEntries] :
       LET replay == {e \in Entries : e[1] \in loaded /\ e[2] <= fires[e[1]]} IN
       replayer' = [replayer EXCEPT ![p] =
         [pc |-> "clear", cmd |-> replays + 1, scanner |-> scanner,
          replay |-> replay, todo |-> replay]]
  /\ alone' = {q \in alone : replayer[q].scanner # scanner}
                \cup {q \in {p} : \A r \in Replayers :
                        replayer[r].pc # "off" => replayer[r].scanner # scanner}
  /\ UNCHANGED <<tradePromoted, journal>>

(* Mutant: the other scanner's backtest journal is wiped as well.          *)
ClearedAny(scanner) == {row \in journal : row.mode = "backtest"}

(* Mutant: only the rows of strategies still promoted are cleared.         *)
ClearedPromoted(scanner) ==
  {row \in journal : /\ row.mode = "backtest" /\ row.scanner = scanner
                     /\ row.strategy \in tradePromoted}

(* DELETE ... WHERE mode = 'backtest' AND scanner = $1, of any horizon.    *)
Cleared(scanner) ==
  {row \in journal : row.mode = "backtest" /\ row.scanner = scanner}

ClearTrades(p) ==
  /\ replayer[p].pc = "clear"
  /\ journal' = journal \ Cleared(replayer[p].scanner)
  /\ replayer' = [replayer EXCEPT ![p].pc = "insert"]
  /\ UNCHANGED <<tradePromoted, replays, alone>>

(* The row of an entry of a command.                                       *)
EntryRow(command, e) ==
  [mode |-> "backtest", scanner |-> command.scanner, strategy |-> e[1],
   by |-> command.cmd, n |-> e[2]]

(* Mutant: two bindings of the statement are swapped.                      *)
NewRowsSwapped(p, e) ==
  {[mode |-> "backtest", scanner |-> e[1], strategy |-> replayer[p].scanner,
    by |-> replayer[p].cmd, n |-> e[2]]}

(* A fresh Uuid for every entry.                                           *)
NewRows(p, e) == {EntryRow(replayer[p], e)}

InsertTrade(p) ==
  /\ replayer[p].pc = "insert"
  /\ \E e \in replayer[p].todo :
       /\ journal' = journal \cup NewRows(p, e)
       /\ replayer' = [replayer EXCEPT ![p].todo = @ \ {e}]
  /\ UNCHANGED <<tradePromoted, replays, alone>>

EndReplay(p) ==
  /\ replayer[p].pc = "insert" /\ replayer[p].todo = {}
  /\ replayer' = [replayer EXCEPT ![p] = Rest0]
  /\ alone' = alone \ {p}
  /\ UNCHANGED <<tradePromoted, journal, replays>>

StopReplay(p) ==
  /\ replayer[p].pc # "off"
  /\ replayer' = [replayer EXCEPT ![p] = Rest0]
  /\ alone' = alone \ {p}
  /\ UNCHANGED <<tradePromoted, journal, replays>>

TradeNext ==
  \/ \E s \in TradeStrategies : Replaced(s) \/ PersistPaper(s)
  \/ \E p \in Replayers :
       \/ ClearTrades(p) \/ InsertTrade(p) \/ EndReplay(p) \/ StopReplay(p)
       \/ \E scanner \in Scanners, horizon \in Horizons :
            BeginReplay(p, scanner, horizon)

TradeSpec == TradeInit /\ [][TradeNext]_tradeVars

-----------------------------------------------------------------------------
(* A command no other of its scanner overlapped leaves exactly its replay  *)
(* as the scanner's backtest journal, every entry once, whatever earlier   *)
(* commands left half done and whatever is written meanwhile.              *)
LoneReplayIsExact ==
  \A p \in alone :
    replayer[p].pc = "insert" /\ replayer[p].todo = {} =>
      {row \in journal : row.mode = "backtest" /\ row.scanner = replayer[p].scanner}
        = {EntryRow(replayer[p], e) : e \in replayer[p].replay}

(* A paper trade is never lost, and a backtest row only to a replay of its *)
(* own scanner that has something promoted to put in its place.            *)
ReplayTouchesItsScannerOnly ==
  [][\A row \in journal \ journal' :
       /\ row.mode = "backtest"
       /\ \E p \in Replayers : /\ replayer[p].scanner = row.scanner
                               /\ replayer[p].pc = "clear"]_tradeVars
=============================================================================
