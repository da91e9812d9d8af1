----------------------------- MODULE ApiErrors -----------------------------
(***************************************************************************)
(* The errors of the API: errors.go and perun.go, which construct them,    *)
(* app/payment/session.go, which rewrites one of them, and the conversion  *)
(* to the messages of Pb in api/grpc/server.go.                            *)
(*                                                                         *)
(* The additional info of an error is an interface in the code; here it is *)
(* a record whose field `type' is the name of its type.  The server tells  *)
(* the infos apart by their type alone.                                    *)
(***************************************************************************)
EXTENDS Pb

ParticipantError   == 0
ClientError        == 1
ProtocolFatalError == 2
InternalError      == 3

ErrPeerRequestTimedOut  == 101
ErrPeerRejected         == 102
ErrPeerNotFunded        == 103
ErrUserResponseTimedOut == 104
ErrResourceNotFound     == 201
ErrResourceExists       == 202
ErrInvalidArgument      == 203
ErrFailedPreCondition   == 204
ErrInvalidConfig        == 205
ErrInvalidContracts     == 206
ErrTxTimedOut           == 301
ErrChainNotReachable    == 302
ErrUnknownInternal      == 401

\* apiError without the error it wraps.
NewAPIErr(category, code, addInfo) ==
    [category |-> category, code |-> code, addInfo |-> addInfo]

NewAPIErrPeerRequestTimedOut(peerAlias, timeout) ==
    NewAPIErr(ParticipantError, ErrPeerRequestTimedOut,
              [type |-> "PeerRequestTimedOut", PeerAlias |-> peerAlias,
               Timeout |-> timeout])

NewAPIErrPeerRejected(peerAlias, reason) ==
    NewAPIErr(ParticipantError, ErrPeerRejected,
              [type |-> "PeerRejected", PeerAlias |-> peerAlias, Reason |-> reason])

\* Fault: the error is made without its additional info.
NotFundedWithoutInfo(peerAlias) == NewAPIErr(ParticipantError, ErrPeerNotFunded, Nil)

NewAPIErrPeerNotFunded(peerAlias) ==
    NewAPIErr(ParticipantError, ErrPeerNotFunded,
              [type |-> "PeerNotFunded", PeerAlias |-> peerAlias])

NewAPIErrUserResponseTimedOut(expiry, receivedAt) ==
    NewAPIErr(ParticipantError, ErrUserResponseTimedOut,
              [type |-> "UserResponseTimedOut", Expiry |-> expiry,
               ReceivedAt |-> receivedAt])

NewAPIErrResourceNotFound(resourceType, resourceID) ==
    NewAPIErr(ClientError, ErrResourceNotFound,
              [type |-> "ResourceNotFound", Type |-> resourceType, ID |-> resourceID])

NewAPIErrResourceExists(resourceType, resourceID) ==
    NewAPIErr(ClientError, ErrResourceExists,
              [type |-> "ResourceExists", Type |-> resourceType, ID |-> resourceID])

\* No caller sets Requirement.
NewAPIErrInvalidArgument(name, value) ==
    NewAPIErr(ClientError, ErrInvalidArgument,
              [type |-> "InvalidArgument", Name |-> name, Value |-> value,
               Requirement |-> ""])

NewAPIErrFailedPreCondition == NewAPIErr(ClientError, ErrFailedPreCondition, Nil)

NewAPIErrFailedPreConditionUnclosedChs(chs) ==
    NewAPIErr(ClientError, ErrFailedPreCondition,
              [type |-> "FailedPreCondUnclosedChs", ChInfos |-> chs])

NewAPIErrInvalidConfig(name, value) ==
    NewAPIErr(ClientError, ErrInvalidConfig,
              [type |-> "InvalidConfig", Name |-> name, Value |-> value])

NewAPIErrInvalidContracts(contractErrInfos) ==
    NewAPIErr(ClientError, ErrInvalidContracts,
              [type |-> "InvalidContracts", ContractErrInfos |-> contractErrInfos])

NewAPIErrTxTimedOut(txType, txID, txTimeout) ==
    NewAPIErr(ProtocolFatalError, ErrTxTimedOut,
              [type |-> "TxTimedOut", TxType |-> txType, TxID |-> txID,
               TxTimeout |-> txTimeout])

NewAPIErrChainNotReachable(chainURL) ==
    NewAPIErr(ProtocolFatalError, ErrChainNotReachable,
              [type |-> "ChainNotReachable", ChainURL |-> chainURL])

NewAPIErrUnknownInternal == NewAPIErr(InternalError, ErrUnknownInternal, Nil)

\* Whether the additional info of err has the Go type t.
InfoIs(err, t) == err.addInfo # Nil /\ err.addInfo.type = t

----------------------------------------------------------------------------
(* app/payment/session.go *)

\* Fault: the error is passed on with the type of the session's package.
KeepCloseSessionErr(err) == err

\* The list of channels becomes one of payment channels, of a type that
\* toGrpcError knows.
toPayChsCloseSessionErr(err) ==
    IF InfoIs(err, "FailedPreCondUnclosedChs")
    THEN NewAPIErr(err.category, err.code,
                   [type |-> "FailedPreCondUnclosedPayChs",
                    PayChs |-> err.addInfo.ChInfos])
    ELSE err

----------------------------------------------------------------------------
(* api/grpc/server.go *)

\* The alias of a peer that did not answer is dropped.  Anything that is not
\* listed, like the session's own list of unclosed channels, is left out.
toGrpcAddInfo(info) ==
    CASE info.type = "PeerRequestTimedOut" ->
            [ErrInfoPeerRequestTimedOut |->
                [PeerAlias |-> "", Timeout |-> info.Timeout]]
      [] info.type = "PeerRejected" ->
            [ErrInfoPeerRejected |->
                [PeerAlias |-> info.PeerAlias, Reason |-> info.Reason]]
      [] info.type = "PeerNotFunded" ->
            [ErrInfoPeerNotFunded |-> [PeerAlias |-> info.PeerAlias]]
      [] info.type = "UserResponseTimedOut" ->
            [ErrInfoUserResponseTimedOut |->
                [Expiry |-> info.Expiry, ReceivedAt |-> info.ReceivedAt]]
      [] info.type = "ResourceNotFound" ->
            [ErrInfoResourceNotFound |-> [Type |-> info.Type, Id |-> info.ID]]
      [] info.type = "ResourceExists" ->
            [ErrInfoResourceExists |-> [Type |-> info.Type, Id |-> info.ID]]
      [] info.type = "InvalidArgument" ->
            [ErrInfoInvalidArgument |->
                [Name |-> info.Name, Value |-> info.Value,
                 Requirement |-> info.Requirement]]
      [] info.type = "FailedPreCondUnclosedPayChs" ->
            [ErrInfoFailedPreCondUnclosedChs |-> [Chs |-> info.PayChs]]
      [] info.type = "InvalidConfig" ->
            [ErrInfoInvalidConfig |-> [Name |-> info.Name, Value |-> info.Value]]
      [] info.type = "InvalidContracts" ->
            [ErrInfoInvalidContracts |-> [ContractErrInfos |-> <<>>]]
      [] info.type = "TxTimedOut" ->
            [ErrInfoTxTimedOut |->
                [TxType |-> info.TxType, TxID |-> info.TxID,
                 TxTimeout |-> info.TxTimeout]]
      [] info.type = "ChainNotReachable" ->
            [ErrInfoChainNotReachable |-> [ChainURL |-> info.ChainURL]]
      [] OTHER -> Nil

\* toGrpcContractErrInfos makes a list of nil pointers and writes through them:
\* it returns, the list being empty, or panics.
ConversionPanics(err) ==
    InfoIs(err, "InvalidContracts") /\ err.addInfo.ContractErrInfos # <<>>

toGrpcError(err) ==
    [Category |-> err.category,
     Code |-> err.code,
     AddInfo |-> IF err.addInfo = Nil THEN Nil ELSE toGrpcAddInfo(err.addInfo)]
=============================================================================
