---------------------------- MODULE AuctionParams ----------------------------
(***************************************************************************)
(* The parameters of the auction module: the keeper's store, which holds   *)
(* their bytes (x/auction/keeper/keeper.go), the genesis state they come   *)
(* from and are exported to, the message that replaces them and the query  *)
(* that returns them.                                                      *)
(*                                                                         *)
(* A message arrives field by field, in any order, with fields that are    *)
(* missing, repeated, unknown or unreadable, as a sender is free to encode *)
(* it.  The application decodes it with GogoCodec; the SDK has decoded the *)
(* same bytes with PulsarCodec to find out who has to sign it.             *)
(***************************************************************************)
EXTENDS GogoCodec

CONSTANTS
  Merges,          \* see PulsarCodec
  Addresses,       \* what AccAddressFromBech32 accepts
  Authority,       \* the address the keeper was made with
  DecOne,          \* the decimal 1: 10^18 in the code
  GenesisParams,   \* the parameters a chain may start with
  BidFields,       \* the fields a MsgAuctionBid may arrive with, as a sequence
  UpdateFields,    \* the fields a MsgUpdateParams may arrive with, as a sequence
  MaxFields        \* how many fields a message arrives with at most

ASSUME AuctionParamsAssumptions ==
  /\ Authority \in Addresses
  /\ DecOne \in Nat /\ MaxFields \in Nat

VARIABLES
  up,       \* "new", "running" or "exported"
  store,    \* the bytes under KeyParams, Nil if there are none
  given,    \* the parameters the chain was last given, by genesis or by a message
  genesis,  \* the exported parameters
  kind,     \* the message that is arriving
  wire      \* its fields so far, as indices of BidFields or UpdateFields

vars == <<up, store, given, genesis, kind, wire>>

Pulsar == INSTANCE PulsarCodec

Init ==
  /\ up = "new" /\ store = Nil /\ given = ZeroParams /\ genesis = Nil
  /\ kind = "none" /\ wire = <<>>

-----------------------------------------------------------------------------
(* Validation *)

\* sdk.Coin.Validate (external).  A denomination is valid unless it is empty, and no
\* number is negative here.
CoinValid(c) == c.Denom # <<>> /\ c.Amount # Nil

validateFee(fee) == fee.Amount # Nil /\ CoinValid(fee)

validateProposerFee(v) == v # Nil /\ v <= DecOne

Validate(p) ==
  /\ p.EscrowAccountAddress # Nil
  /\ validateFee(p.ReserveFee)
  /\ validateFee(p.MinBidIncrement)
  /\ p.MinBidIncrement.Amount > 0
  /\ p.ReserveFee.Denom = p.MinBidIncrement.Denom
  /\ validateProposerFee(p.ProposerFee)

UpdateValidateBasic(m) == m.Authority \in Addresses /\ Validate(m.Params)

-----------------------------------------------------------------------------
(* The keeper *)

\* GetParams.  An empty value is the same as none.
GetParams ==
  IF ByteLen(store) = 0 THEN [ok |-> FALSE, msg |-> ZeroParams] ELSE ParamsUnmarshal(ZeroParams, store)

\* SetParams
WithParams(p) == ParamsMarshal(p)

-----------------------------------------------------------------------------
(* Genesis *)

\* The keeper's InitGenesis does not validate the genesis state.  An application
\* without one for the module starts with parameters that are zero.
InitGenesis(p) ==
  /\ up = "new"
  /\ store' = WithParams(p) /\ given' = p
  /\ up' = "running"
  /\ UNCHANGED <<genesis, kind, wire>>

\* ExportGenesis, which panics without parameters.  JSON (external) keeps the difference
\* between nil and empty bytes.
ExportGenesis ==
  /\ up = "running" /\ wire = <<>>
  /\ GetParams.ok
  /\ genesis' = GetParams.msg
  /\ up' = "exported"
  /\ UNCHANGED <<store, given, kind, wire>>

\* A chain that starts from the exported state.
ImportGenesis ==
  /\ up = "exported"
  /\ store' = WithParams(genesis)
  /\ up' = "running"
  /\ genesis' = Nil
  /\ UNCHANGED <<given, kind, wire>>

-----------------------------------------------------------------------------
(* Messages *)

FieldsOf(k) == IF k = "bid" THEN BidFields ELSE UpdateFields

\* The bytes that have arrived.
Received == [i \in DOMAIN wire |-> FieldsOf(kind)[wire[i]]]

Receive(k) ==
  /\ up = "running" /\ Len(wire) < MaxFields
  /\ kind \in {"none", k} /\ kind' = k
  /\ \E i \in DOMAIN FieldsOf(k) : wire' = Append(wire, i)
  /\ UNCHANGED <<up, store, given, genesis>>

Handled == kind' = "none" /\ wire' = <<>>

\* Mutant: who signed is not compared with the keeper's authority.
AllowedAny(m) == TRUE

Allowed(m) == m.Authority = Authority

\* A MsgUpdateParams: ValidateBasic, then the message server's UpdateParams.
UpdateParams ==
  /\ kind = "update"
  /\ LET r == MsgUpdateParamsUnmarshal(Received)
     IN  IF r.ok /\ UpdateValidateBasic(r.msg) /\ Allowed(r.msg)
         THEN store' = WithParams(r.msg.Params) /\ given' = r.msg.Params
         ELSE UNCHANGED <<store, given>>
  /\ Handled
  /\ UNCHANGED <<up, genesis>>

\* A MsgAuctionBid: the message server emits an event and changes no state.
AuctionBid ==
  /\ kind = "bid"
  /\ Handled
  /\ UNCHANGED <<up, store, given, genesis>>

-----------------------------------------------------------------------------

Next ==
  \/ \E p \in GenesisParams : InitGenesis(p)
  \/ ExportGenesis
  \/ ImportGenesis
  \/ \E k \in {"bid", "update"} : Receive(k)
  \/ UpdateParams
  \/ AuctionBid

Spec == Init /\ [][Next]_vars

-----------------------------------------------------------------------------
(* The query.  The address is given a second time, as a string. *)

\* AccAddress.String (external): the string of no address is empty.
AddressString(b) == IF ByteLen(b) = 0 THEN <<>> ELSE <<99>> \o b

QueryParams ==
  [Params |-> GetParams.msg, EscrowAddressString |-> AddressString(GetParams.msg.EscrowAccountAddress)]

-----------------------------------------------------------------------------
(* Properties *)

\* What encoding turns a message into: a number that is nil into zero, and an address
\* that is empty into nil.
StoredNumber(i) == IF i = Nil THEN 0 ELSE i

StoredCoin(c) == [c EXCEPT !.Amount = StoredNumber(@)]

Stored(p) ==
  [p EXCEPT !.ReserveFee = StoredCoin(@), !.MinBidIncrement = StoredCoin(@),
            !.ProposerFee = StoredNumber(@),
            !.EscrowAccountAddress = IF ByteLen(@) = 0 THEN Nil ELSE @]

\* A message of the API module as the application has it.
ViewCoin(c) ==
  IF c = Nil THEN ZeroCoin
  ELSE [Denom |-> c.Denom, Amount |-> IF c.Amount = <<>> THEN Nil ELSE TextValue(c.Amount)]

ViewParams(p) ==
  IF p = Nil THEN ZeroParams
  ELSE [MaxBundleSize |-> p.MaxBundleSize, EscrowAccountAddress |-> p.EscrowAccountAddress,
        ReserveFee |-> ViewCoin(p.ReserveFee), MinBidIncrement |-> ViewCoin(p.MinBidIncrement),
        FrontRunningProtection |-> p.FrontRunningProtection,
        ProposerFee |-> IF p.ProposerFee = <<>> THEN Nil ELSE TextValue(p.ProposerFee)]

\* The store gives back what the chain was given (keeper.go:94-125), over every encoding
\* of the message it came in and over exports and imports.  Parameters are found as soon
\* as some were set, even those of a chain without a genesis state for the module, which
\* are all zero: GetParams takes an empty value for no parameters (keeper.go:101).
ReadsWhatWasSet == up # "new" => GetParams.ok /\ GetParams.msg = Stored(given)

\* A message's bytes are as many as computed, and decode to the message.
Exact(bytes, size, decoded, m) == WireLen(bytes) = size /\ decoded.ok /\ decoded.msg = m

\* The size that is computed for a message is the number of bytes written (Marshal fills
\* a buffer of that size from its end, genesis.pb.go:240: with another size it panics or
\* leaves bytes in front), and what is written decodes to the message, in both codecs.
EncodedExactly ==
  /\ up # "new" =>
       LET gs == [Params |-> given]
           update == [Authority |-> Authority, Params |-> given]
       IN  /\ Exact(store, ParamsSize(given), GetParams, Stored(given))
           /\ Exact(GenesisStateMarshal(gs), GenesisStateSize(gs),
                    GenesisStateUnmarshal(GenesisStateMarshal(gs)), [Params |-> Stored(given)])
           /\ LET p == Pulsar!GenesisStateUnmarshal(GenesisStateMarshal(gs))
              IN  /\ ViewParams(p.msg.Params) = Stored(given)
                  /\ Exact(GenesisStateMarshal(gs), Pulsar!GenesisStateSize(p.msg), p, p.msg)
                  /\ Pulsar!GenesisStateMarshal(p.msg) = GenesisStateMarshal(gs)
           /\ Exact(MsgUpdateParamsMarshal(update), MsgUpdateParamsSize(update),
                    MsgUpdateParamsUnmarshal(MsgUpdateParamsMarshal(update)),
                    [update EXCEPT !.Params = Stored(given)])
  /\ kind = "bid" =>
       LET g == MsgAuctionBidUnmarshal(Received)
           p == Pulsar!MsgAuctionBidUnmarshal(Received)
       IN  /\ g.ok => Exact(MsgAuctionBidMarshal(g.msg), MsgAuctionBidSize(g.msg),
                            MsgAuctionBidUnmarshal(MsgAuctionBidMarshal(g.msg)),
                            [g.msg EXCEPT !.Bid = StoredCoin(@)])
           /\ p.ok => Exact(Pulsar!MsgAuctionBidMarshal(p.msg), Pulsar!MsgAuctionBidSize(p.msg),
                            Pulsar!MsgAuctionBidUnmarshal(Pulsar!MsgAuctionBidMarshal(p.msg)), p.msg)
  /\ kind = "update" =>
       LET p == Pulsar!MsgUpdateParamsUnmarshal(Received)
       IN  p.ok => /\ WireLen(Pulsar!MsgUpdateParamsMarshal(p.msg)) = Pulsar!MsgUpdateParamsSize(p.msg)
                   /\ Pulsar!MsgUpdateParamsUnmarshal(Pulsar!MsgUpdateParamsMarshal(p.msg)).ok

-----------------------------------------------------------------------------
(* The two codecs *)

\* The fields that have a number.
Times(num) == Cardinality({i \in DOMAIN Received : Received[i].num = num /\ Received[i].wt = BYTES})

\* What the application accepts the SDK could decode too, and it read the same bidder,
\* the same bundle and the same bid: the account that signed is the one that is charged
\* (x/auction/types/tx.pb.go:610, api/sdk/auction/v1/tx.pulsar.go:470), whatever fields
\* a sender repeats, adds or leaves out.
DecodersAgree ==
  kind = "bid" =>
    LET g == MsgAuctionBidUnmarshal(Received)
        p == Pulsar!MsgAuctionBidUnmarshal(Received)
    IN  g.ok => /\ p.ok
                /\ p.msg.Bidder = g.msg.Bidder
                /\ p.msg.Transactions = g.msg.Transactions
                /\ Merges \/ Times(2) <= 1 => ViewCoin(p.msg.Bid) = g.msg.Bid

\* An answer or a request without fields of its own: both codecs read the same bytes,
\* and the API module writes back what it read.
EmptyRelayed(g, p, again, size) ==
  /\ g.ok <=> p.ok
  /\ p.ok => again = Received /\ size = WireLen(Received)

\* What the application writes for one, the API module reads as one.
EmptyWritten(bytes, size, p) == WireLen(bytes) = size /\ p.ok /\ p.msg.unknown = <<>>

EmptyMessagesRelayed ==
  LET bid == Pulsar!MsgAuctionBidResponseUnmarshal(Received)
      update == Pulsar!MsgUpdateParamsResponseUnmarshal(Received)
      query == Pulsar!QueryParamsRequestUnmarshal(Received)
  IN  /\ EmptyRelayed(MsgAuctionBidResponseUnmarshal(Received), bid,
           Pulsar!MsgAuctionBidResponseMarshal(bid.msg), Pulsar!MsgAuctionBidResponseSize(bid.msg))
      /\ EmptyRelayed(MsgUpdateParamsResponseUnmarshal(Received), update,
           Pulsar!MsgUpdateParamsResponseMarshal(update.msg), Pulsar!MsgUpdateParamsResponseSize(update.msg))
      /\ EmptyRelayed(QueryParamsRequestUnmarshal(Received), query,
           Pulsar!QueryParamsRequestMarshal(query.msg), Pulsar!QueryParamsRequestSize(query.msg))
      /\ EmptyWritten(MsgAuctionBidResponseMarshal(<<>>), MsgAuctionBidResponseSize(<<>>),
           Pulsar!MsgAuctionBidResponseUnmarshal(MsgAuctionBidResponseMarshal(<<>>)))
      /\ EmptyWritten(MsgUpdateParamsResponseMarshal(<<>>), MsgUpdateParamsResponseSize(<<>>),
           Pulsar!MsgUpdateParamsResponseUnmarshal(MsgUpdateParamsResponseMarshal(<<>>)))
      /\ EmptyWritten(QueryParamsRequestMarshal(<<>>), QueryParamsRequestSize(<<>>),
           Pulsar!QueryParamsRequestUnmarshal(QueryParamsRequestMarshal(<<>>)))

\* A bid that a client has decoded and encoded again with the API module is the bid
\* that it received, fields it does not know included; so are the messages that have
\* no field yet, to which a later version of either side may add one.
RelayTransparent ==
  kind = "bid" =>
    LET g == MsgAuctionBidUnmarshal(Received)
        again == MsgAuctionBidUnmarshal(
                   Pulsar!MsgAuctionBidMarshal(Pulsar!MsgAuctionBidUnmarshal(Received).msg))
    IN  /\ g.ok /\ (Merges \/ Times(2) <= 1) =>
             again.ok /\ again.msg = g.msg /\ again.unknown = g.unknown
        /\ EmptyMessagesRelayed

\* The parameters the query returns reach both kinds of client, and a client of the
\* application's codec the address's string too (keeper/grpc_query.go:23-34).
QueryArrives ==
  up # "new" =>
    LET bytes == QueryParamsResponseMarshal(QueryParams)
        p == Pulsar!QueryParamsResponseUnmarshal(bytes)
    IN  /\ Exact(bytes, QueryParamsResponseSize(QueryParams),
                 QueryParamsResponseUnmarshal(bytes), QueryParams)
        /\ p.ok /\ ViewParams(p.msg.Params) = QueryParams.Params
        /\ Exact(bytes, Pulsar!QueryParamsResponseSize(p.msg), p, p.msg)
        /\ QueryParamsResponseUnmarshal(Pulsar!QueryParamsResponseMarshal(p.msg)).msg = QueryParams

\* While a chain runs, its parameters change only by a message of which the SDK found
\* that the authority has to sign it.
SignedByAuthority ==
  [][up = "running" /\ store' # store =>
       LET p == Pulsar!MsgUpdateParamsUnmarshal(Received) IN p.ok /\ p.msg.Authority = Authority]_vars

-----------------------------------------------------------------------------
(* Claims that do not hold *)

\* Parameters that were valid when they were set are valid when they are read: "escrow
\* account address cannot be nil" (x/auction/types/params.go:54).
StaysValid == up # "new" /\ Validate(given) => Validate(GetParams.msg)

\* A client of the API module is told "the string representation of the escrow address
\* stored in params" (proto/sdk/auction/v1/query.proto:27).
ClientToldEscrow ==
  up # "new" =>
    LET r == Pulsar!QueryParamsResponseUnmarshal(QueryParamsResponseMarshal(QueryParams)).msg
    IN  r.unknown = <<>>
=============================================================================
