SPECIFICATION LoaderSpec
CONSTANT RoleFiles <- MCRoleFiles
INVARIANT AdminsMayHaveWildcards
CHECK_DEADLOCK FALSE
