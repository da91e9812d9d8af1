--------------------------------- MODULE Pb ---------------------------------
(***************************************************************************)
(* The messages of the gRPC API, api/grpc/pb/api.pb.go: for each message   *)
(* the set of its values.  A message that is a oneof is a record with the  *)
(* one field that is set, so that every getter but that field's would      *)
(* return nil.  Pointers to messages are never nil here: the server always *)
(* sets them.  The texts of errors are left out.                           *)
(***************************************************************************)
EXTENDS Integers, Sequences

\* The message without fields, and a oneof or interface that is nil.
Nil == <<>>

Empty == {Nil}

----------------------------------------------------------------------------
(* Data. *)

PeerID == [Alias : STRING, OffChainAddress : STRING, CommAddress : STRING,
           CommType : STRING]

BalInfoBal == [Bal : Seq(STRING)]

BalInfo == [Currencies : Seq(STRING), Parts : Seq(STRING), Bals : Seq(BalInfoBal)]

PayChInfo == [ChID : STRING, BalInfo : BalInfo, Version : STRING]

Payment == [Currency : STRING, Payee : STRING, Amount : STRING]

\* open, final, closed.
ChUpdateType == 0 .. 2

----------------------------------------------------------------------------
(* Errors. *)

\* ParticipantError, ClientError, ProtocolError, InternalError.
ErrorCategory == 0 .. 3

\* 0 is not an error; proto3 wants it.
ErrorCode == {0, 101, 102, 103, 104, 201, 202, 203, 204, 205, 206, 301, 302, 401}

ErrInfoPeerRequestTimedOut == [PeerAlias : STRING, Timeout : STRING]

ErrInfoPeerRejected == [PeerAlias : STRING, Reason : STRING]

ErrInfoPeerNotFunded == [PeerAlias : STRING]

ErrInfoUserResponseTimedOut == [Expiry : Int, ReceivedAt : Int]

ErrInfoResourceNotFound == [Type : STRING, Id : STRING]

ErrInfoResourceExists == [Type : STRING, Id : STRING]

ErrInfoInvalidArgument == [Name : STRING, Value : STRING, Requirement : STRING]

ErrInfoFailedPreCondUnclosedChs == [Chs : Seq(PayChInfo)]

ErrInfoInvalidConfig == [Name : STRING, Value : STRING]

ContractErrInfo == [Name : STRING, Address : STRING, Error : STRING]

ErrInfoInvalidContracts == [ContractErrInfos : Seq(ContractErrInfo)]

ErrInfoTxTimedOut == [TxType : STRING, TxID : STRING, TxTimeout : STRING]

ErrInfoChainNotReachable == [ChainURL : STRING]

\* The oneof of MsgError.
AddInfo ==
    Empty
    \cup [ErrInfoPeerRequestTimedOut : ErrInfoPeerRequestTimedOut]
    \cup [ErrInfoPeerRejected : ErrInfoPeerRejected]
    \cup [ErrInfoPeerNotFunded : ErrInfoPeerNotFunded]
    \cup [ErrInfoUserResponseTimedOut : ErrInfoUserResponseTimedOut]
    \cup [ErrInfoResourceNotFound : ErrInfoResourceNotFound]
    \cup [ErrInfoResourceExists : ErrInfoResourceExists]
    \cup [ErrInfoInvalidArgument : ErrInfoInvalidArgument]
    \cup [ErrInfoFailedPreCondUnclosedChs : ErrInfoFailedPreCondUnclosedChs]
    \cup [ErrInfoInvalidConfig : ErrInfoInvalidConfig]
    \cup [ErrInfoInvalidContracts : ErrInfoInvalidContracts]
    \cup [ErrInfoTxTimedOut : ErrInfoTxTimedOut]
    \cup [ErrInfoChainNotReachable : ErrInfoChainNotReachable]

MsgError == [Category : ErrorCategory, Code : ErrorCode, AddInfo : AddInfo]

----------------------------------------------------------------------------
(* Requests and their answers, in the order of the file. *)

GetConfigReq == Empty
GetConfigResp == [ChainAddress : STRING, Adjudicator : STRING, AssetETH : STRING,
                  CommTypes : Seq(STRING), IdProviderTypes : Seq(STRING)]

OpenSessionReq == [ConfigFile : STRING]
OpenSessionResp_MsgSuccess == [SessionID : STRING, RestoredChs : Seq(PayChInfo)]
OpenSessionResp == [MsgSuccess : OpenSessionResp_MsgSuccess] \cup [Error : MsgError]

TimeReq == Empty
TimeResp == [Time : Int]

RegisterCurrencyReq == [TokenAddr : STRING, AssetAddr : STRING]
RegisterCurrencyResp_MsgSuccess == [Symbol : STRING]
RegisterCurrencyResp ==
    [MsgSuccess : RegisterCurrencyResp_MsgSuccess] \cup [Error : MsgError]

HelpReq == Empty
HelpResp == [Apis : Seq(STRING)]

AddPeerIDReq == [SessionID : STRING, PeerID : PeerID]
AddPeerIDResp_MsgSuccess == [Success : BOOLEAN]
AddPeerIDResp == [MsgSuccess : AddPeerIDResp_MsgSuccess] \cup [Error : MsgError]

GetPeerIDReq == [SessionID : STRING, Alias : STRING]
GetPeerIDResp_MsgSuccess == [PeerID : PeerID]
GetPeerIDResp == [MsgSuccess : GetPeerIDResp_MsgSuccess] \cup [Error : MsgError]

OpenPayChReq == [SessionID : STRING, OpeningBalInfo : BalInfo, ChallengeDurSecs : Nat]
OpenPayChResp_MsgSuccess == [OpenedPayChInfo : PayChInfo]
OpenPayChResp == [MsgSuccess : OpenPayChResp_MsgSuccess] \cup [Error : MsgError]

GetPayChsInfoReq == [SessionID : STRING]
GetPayChsInfoResp_MsgSuccess == [OpenPayChsInfo : Seq(PayChInfo)]
GetPayChsInfoResp == [MsgSuccess : GetPayChsInfoResp_MsgSuccess] \cup [Error : MsgError]

SubPayChProposalsReq == [SessionID : STRING]
SubPayChProposalsResp_Notify == [ProposalID : STRING, OpeningBalInfo : BalInfo,
                                 ChallengeDurSecs : Nat, Expiry : Int]
SubPayChProposalsResp ==
    [Notify : SubPayChProposalsResp_Notify] \cup [Error : MsgError]

UnsubPayChProposalsReq == [SessionID : STRING]
UnsubPayChProposalsResp_MsgSuccess == [Success : BOOLEAN]
UnsubPayChProposalsResp ==
    [MsgSuccess : UnsubPayChProposalsResp_MsgSuccess] \cup [Error : MsgError]

RespondPayChProposalReq == [SessionID : STRING, ProposalID : STRING, Accept : BOOLEAN]
RespondPayChProposalResp_MsgSuccess == [OpenedPayChInfo : PayChInfo]
RespondPayChProposalResp ==
    [MsgSuccess : RespondPayChProposalResp_MsgSuccess] \cup [Error : MsgError]

CloseSessionReq == [SessionID : STRING, Force : BOOLEAN]
CloseSessionResp_MsgSuccess == [OpenPayChsInfo : Seq(PayChInfo)]
CloseSessionResp == [MsgSuccess : CloseSessionResp_MsgSuccess] \cup [Error : MsgError]

DeployAssetERC20Req == [SessionID : STRING, TokenAddr : STRING]
DeployAssetERC20Resp_MsgSuccess == [AssetAddr : STRING]
DeployAssetERC20Resp ==
    [MsgSuccess : DeployAssetERC20Resp_MsgSuccess] \cup [Error : MsgError]

SendPayChUpdateReq == [SessionID : STRING, ChID : STRING, Payments : Seq(Payment)]
SendPayChUpdateResp_MsgSuccess == [UpdatedPayChInfo : PayChInfo]
SendPayChUpdateResp ==
    [MsgSuccess : SendPayChUpdateResp_MsgSuccess] \cup [Error : MsgError]

SubpayChUpdatesReq == [SessionID : STRING, ChID : STRING]
SubPayChUpdatesResp_Notify ==
    [UpdateID : STRING, ProposedPayChInfo : PayChInfo, Type : ChUpdateType,
     Expiry : Int, Error : MsgError \cup Empty]
SubPayChUpdatesResp == [Notify : SubPayChUpdatesResp_Notify] \cup [Error : MsgError]

UnsubPayChUpdatesReq == [SessionID : STRING, ChID : STRING]
UnsubPayChUpdatesResp_MsgSuccess == [Success : BOOLEAN]
UnsubPayChUpdatesResp ==
    [MsgSuccess : UnsubPayChUpdatesResp_MsgSuccess] \cup [Error : MsgError]

RespondPayChUpdateReq ==
    [SessionID : STRING, ChID : STRING, UpdateID : STRING, Accept : BOOLEAN]
RespondPayChUpdateResp_MsgSuccess == [UpdatedPayChInfo : PayChInfo]
RespondPayChUpdateResp ==
    [MsgSuccess : RespondPayChUpdateResp_MsgSuccess] \cup [Error : MsgError]

GetPayChInfoReq == [SessionID : STRING, ChID : STRING]
GetPayChInfoResp_MsgSuccess == [PayChInfo : PayChInfo]
GetPayChInfoResp == [MsgSuccess : GetPayChInfoResp_MsgSuccess] \cup [Error : MsgError]

ClosePayChReq == [SessionID : STRING, ChID : STRING]
ClosePayChResp_MsgSuccess == [ClosedPayChInfo : PayChInfo]
ClosePayChResp == [MsgSuccess : ClosePayChResp_MsgSuccess] \cup [Error : MsgError]

----------------------------------------------------------------------------
\* The service: the type of the request and of the answer, or of the messages
\* of the stream, of every method.
Service ==
    [GetConfig            |-> [req |-> GetConfigReq, resp |-> GetConfigResp],
     OpenSession          |-> [req |-> OpenSessionReq, resp |-> OpenSessionResp],
     Time                 |-> [req |-> TimeReq, resp |-> TimeResp],
     RegisterCurrency     |-> [req |-> RegisterCurrencyReq,
                               resp |-> RegisterCurrencyResp],
     Help                 |-> [req |-> HelpReq, resp |-> HelpResp],
     AddPeerID            |-> [req |-> AddPeerIDReq, resp |-> AddPeerIDResp],
     GetPeerID            |-> [req |-> GetPeerIDReq, resp |-> GetPeerIDResp],
     OpenPayCh            |-> [req |-> OpenPayChReq, resp |-> OpenPayChResp],
     GetPayChsInfo        |-> [req |-> GetPayChsInfoReq, resp |-> GetPayChsInfoResp],
     SubPayChProposals    |-> [req |-> SubPayChProposalsReq,
                               resp |-> SubPayChProposalsResp],
     UnsubPayChProposals  |-> [req |-> UnsubPayChProposalsReq,
                               resp |-> UnsubPayChProposalsResp],
     RespondPayChProposal |-> [req |-> RespondPayChProposalReq,
                               resp |-> RespondPayChProposalResp],
     CloseSession         |-> [req |-> CloseSessionReq, resp |-> CloseSessionResp],
     DeployAssetERC20     |-> [req |-> DeployAssetERC20Req,
                               resp |-> DeployAssetERC20Resp],
     SendPayChUpdate      |-> [req |-> SendPayChUpdateReq,
                               resp |-> SendPayChUpdateResp],
     SubPayChUpdates      |-> [req |-> SubpayChUpdatesReq,
                               resp |-> SubPayChUpdatesResp],
     UnsubPayChUpdates    |-> [req |-> UnsubPayChUpdatesReq,
                               resp |-> UnsubPayChUpdatesResp],
     RespondPayChUpdate   |-> [req |-> RespondPayChUpdateReq,
                               resp |-> RespondPayChUpdateResp],
     GetPayChInfo         |-> [req |-> GetPayChInfoReq, resp |-> GetPayChInfoResp],
     ClosePayCh           |-> [req |-> ClosePayChReq, resp |-> ClosePayChResp]]
=============================================================================
