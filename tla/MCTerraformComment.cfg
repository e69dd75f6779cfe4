SPECIFICATION TerraformSpec
CHECK_DEADLOCK FALSE
CONSTANTS
  Functions_ <- MCFunctions
  VarsFiles <- MCVarsFiles
  Projects <- MCProjects
INVARIANT
  CommentsHideNothingBefore
