SPECIFICATION PLiveSpec
CONSTANTS
  Thread <- MCThread
  Note <- MCNote
  Client = {client}
  Owner = owner
  Main = main
  Rpc = rpc
  Request = {ping}
  NoThread = nothread
  NoAnswer = noanswer
  CallersFinish = TRUE
PROPERTIES CallsReturn
