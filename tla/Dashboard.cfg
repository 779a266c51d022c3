CONSTANTS
  Page <- PageNames
  Made <- Pages
  Value <- Statuses
  Row <- Rows
  MaxCalls = 2
SPECIFICATION Spec
INVARIANTS
  TypeOK
  OneChangeAtATime
  FormIsTakenOnce
  
