------------------------------ MODULE Messages ------------------------------
(* The tables of message/client_message_generated.h and                    *)
(* message/server_message_generated.h.                                     *)
EXTENDS Schemas

LoginRequest ==
  TableType(<<Text("id", 4), Text("password", 6)>>, <<"password", "id">>, NoKey)
LogoutRequest == TableType(<< >>, << >>, NoKey)
ConnectServerRequest ==
  TableType(<<Number("server_id", 4, int16, -1)>>, <<"server_id">>, NoKey)

(* A PacketType without a table, NONE or unknown, is not looked into. *)
ClientPacketType == <<"LoginRequest", "LogoutRequest", "ConnectServerRequest">>
ClientPacket ==
  TableType(<<Number("type_type", 4, uint8_t, 0),
              Union("type", 6, "type_type", ClientPacketType)>>,
            <<"type", "type_type">>, NoKey)

LoginResult == TableType(<<Number("error", 4, int32, 0)>>, <<"error">>, NoKey)
LogoutResult == TableType(<< >>, << >>, NoKey)
ConnectServerResult == TableType(<<Number("error", 4, int32, 0)>>, <<"error">>, NoKey)

ServerPacketType == <<"LoginResult", "LogoutResult", "ConnectServerResult">>
ServerPacket ==
  TableType(<<Number("type_type", 4, uint8_t, 0),
              Union("type", 6, "type_type", ServerPacketType)>>,
            <<"type", "type_type">>, NoKey)

MessageTypes ==
  [LoginRequest |-> LoginRequest, LogoutRequest |-> LogoutRequest,
   ConnectServerRequest |-> ConnectServerRequest, ClientPacket |-> ClientPacket,
   LoginResult |-> LoginResult, LogoutResult |-> LogoutResult,
   ConnectServerResult |-> ConnectServerResult, ServerPacket |-> ServerPacket]
=============================================================================
